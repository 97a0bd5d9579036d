------------------------------ MODULE MCClients ------------------------------
(* Instances of what stands between the API and its clients: the delivery of *)
(* webhooks, the alerts that end in one, the guards, and the screens of the  *)
(* web application. They run apart (an alert's dispatch only adds a delivery *)
(* to the queue, a screen only sends requests), so a behaviour runs one of   *)
(* them, its `focus`.                                                        *)
EXTENDS WebhookDelivery, TvlAlerts, RequestGuards, SwapForm, AccountScreens,
        AddLiquidity, PositionScreens, TLC

VARIABLE focus

ClientsInit ==
    /\ focus \in {"webhook", "alerts", "access", "key", "swap", "history", "hooks", "add", "panel",
                 "range", "folio"}
    /\ WebhookInit /\ AlertsInit /\ AddInit /\ PanelInit /\ RangeInit
    \* Who is not in focus starts in one state.
    /\ AccessInit /\ (focus # "key" => keyRow = "none")
    /\ focus # "access" => deploy = [mode |-> "required", mainnet |-> TRUE,
                                     anonMainnet |-> FALSE, secret |-> TRUE]
    /\ SwapFormInit /\ (focus # "swap" => purse = [address |-> TRUE, abroad |-> FALSE])
    /\ HooksInit /\ HistoryInit
    /\ wallet = CHOOSE o \in Owners : TRUE  \* they are alike
    /\ focus # "history" => stored = wallet
    /\ FolioInit /\ (focus # "folio" => api = [token \in Tokens |-> <<>>])

positionVars == <<addVars, panelVars, rangeVars, folioVars>>

ClientsNext ==
    /\ UNCHANGED focus
    /\ \/ /\ focus = "webhook" /\ WebhookNext
          /\ UNCHANGED <<alertVars, accessVars, formVars, historyVars, hookVars, positionVars>>
       \/ /\ focus = "alerts" /\ AlertsNext
          /\ UNCHANGED <<vars, accessVars, formVars, historyVars, hookVars, positionVars>>
       \/ /\ \/ focus = "access" /\ AccessNext
             \/ focus = "key" /\ KeyNext
          /\ UNCHANGED <<vars, alertVars, formVars, historyVars, hookVars, positionVars>>
       \/ /\ focus = "swap" /\ SwapFormNext
          /\ UNCHANGED <<vars, alertVars, accessVars, historyVars, hookVars, positionVars>>
       \/ /\ focus = "history" /\ HistoryNext
          /\ UNCHANGED <<vars, alertVars, accessVars, formVars, hookVars, positionVars>>
       \/ /\ focus = "hooks" /\ HooksNext
          /\ UNCHANGED <<vars, alertVars, accessVars, formVars, historyVars, positionVars>>
       \/ /\ UNCHANGED <<vars, alertVars, accessVars, formVars, historyVars, hookVars>>
          /\ \/ focus = "add" /\ AddNext /\ UNCHANGED <<panelVars, rangeVars, folioVars>>
             \/ focus = "panel" /\ PanelNext /\ UNCHANGED <<addVars, rangeVars, folioVars>>
             \/ focus = "range" /\ RangeNext /\ UNCHANGED <<addVars, panelVars, folioVars>>
             \/ focus = "folio" /\ FolioNext /\ UNCHANGED <<addVars, panelVars, rangeVars>>

clientVars == <<vars, alertVars, accessVars, formVars, historyVars, hookVars, positionVars, focus>>

ClientsSpec == ClientsInit /\ [][ClientsNext]_clientVars

\* An alert is recorded before it goes out, was due, and is not repeated
\* (AlertsRecorded), in rows of their types.
AlertsHold == focus = "alerts" => AlertsTypeOK /\ AlertsRecorded

\* Every gate takes a token for the same wallet (OneCaller), and nothing opens
\* beyond what the operator and the owner of a key allow (AccessBounded).
AccessHolds ==
    /\ focus = "access" => AccessTypeOK /\ OneCaller /\ AccessBounded
    /\ focus = "key" => AccessBounded

\* A screen shows what was asked for and hands over what it showed: the swap's
\* confirmation and its pickers (ConfirmedAsShown, PickerWhole), the history
\* (HistoryHolds), the webhooks' list (HooksHold), the deposit (AddHolds), and an
\* owner's positions (RemovedAsConfirmed, RangeMovedOnce, PortfolioWhole).
ScreensHold ==
    /\ focus = "swap" => SwapFormTypeOK /\ ConfirmedAsShown /\ PickerWhole
    /\ focus = "history" => AccountTypeOK /\ HistoryHolds
    /\ focus = "hooks" => AccountTypeOK /\ HooksHold
    /\ focus = "add" => AddHolds
    /\ focus \in {"panel", "range", "folio"} => PositionScreensTypeOK
    /\ focus = "panel" => RemovedAsConfirmed
    /\ focus = "range" => RangeMovedOnce
    /\ focus = "folio" => PortfolioWhole
=============================================================================
