------------------------------ MODULE SwapForm ------------------------------
(* The swap form and the dialog that confirms a swap                         *)
(* (components/SwapWidget.tsx, components/SwapConfirmModal.tsx, SlippagePanel *)
(* and the token pickers of packages/ui). The dialog is mounted while the    *)
(* form has all it needs, so a quote that reloads takes it away and brings a *)
(* fresh one back. A confirmation first asks the wallet for its network,     *)
(* which takes a while; the click's closure holds the offer of its render.   *)
(* Which inputs a quote answers is SwapQuote's subject: here it is one of    *)
(* the current inputs. Execution (an empty file in this tree) is external.   *)
EXTENDS Naturals, Sequences

CONSTANTS FormTokens,   \* tokens of the list
          MaxAmount,    \* amounts 1..MaxAmount; 0 is none
          Reserve,      \* reserve of the pool the exact-output estimate assumes
          Held,         \* the wallet's balance of each token
          SlippageTexts,\* slippage typed by hand, in thousandths of a percent
          RecentMax,    \* RECENT_MAX
          MaxMoves,     \* bound: changes of the form, the quote and the wallet
          MaxClicks     \* bound: clicks on confirm and retry

ASSUME SwapFormAssumption ==
    /\ MaxAmount \in Nat /\ Reserve \in Nat \ {0} /\ Held \in Nat
    /\ SlippageTexts \subseteq Nat /\ RecentMax \in Nat \ {0}
    /\ MaxMoves \in Nat /\ MaxClicks \in Nat

None == "none"

VARIABLES pair,    \* [in, out]: tokens or None
          entry,   \* [mode, exactIn, exactOut, bps]
          live,    \* useSwapQuote: [loading, quote], quote a price or 0
          recents, \* swyft_recent_tokens
          purse,   \* [address, abroad]: connected, and on another network
          show,    \* showModal
          dialog,  \* [status, why, mismatch] of the mounted dialog
          lookups,  \* checkNetwork calls in flight
          calls,   \* swaps handed to the execution
          moves,
          clicks

formVars == <<pair, entry, live, recents, purse, show, dialog, lookups, calls, moves, clicks>>

Fresh == [status |-> "idle", why |-> None, mismatch |-> FALSE]
Busy == dialog.status \in {"signing", "submitting", "pending"}

SwapFormInit ==
    /\ pair = [in |-> None, out |-> None]
    /\ entry = [mode |-> "exactIn", exactIn |-> 0, exactOut |-> 0, bps |-> 50]
    /\ live = [loading |-> FALSE, quote |-> 0]
    /\ recents = <<>>
    /\ purse \in [address : BOOLEAN, abroad : BOOLEAN]
    /\ show = FALSE
    /\ dialog = Fresh
    /\ lookups = {}
    /\ calls = <<>>
    /\ moves = 0
    /\ clicks = 0

-----------------------------------------------------------------------------
(* What is on screen *)

HasBoth == pair.in # None /\ pair.out # None

\* calculateExactOutputQuote: what the output costs in a pool of fixed reserves,
\* 0 when it throws.
Cost(out) == IF out = 0 \/ out >= Reserve THEN 0 ELSE (Reserve * out) \div (Reserve - out)

\* The quote the form goes by: the live one, or the estimate of the output typed.
Quote == IF entry.mode = "exactIn" THEN live.quote
         ELSE IF HasBoth THEN Cost(entry.exactOut) ELSE 0

Pays == IF entry.mode = "exactIn" THEN entry.exactIn ELSE Quote
Insufficient == purse.address /\ pair.in # None /\ Pays > Held

\* The conditions of the Swap button, and those under which the dialog is there.
CanSwap ==
    /\ purse.address /\ HasBoth /\ ~Insufficient /\ Quote # 0
    /\ IF entry.mode = "exactIn" THEN entry.exactIn # 0 /\ ~live.loading ELSE entry.exactOut # 0

Mounted ==
    /\ show /\ HasBoth /\ purse.address /\ Quote # 0
    /\ entry.mode = "exactIn" => ~live.loading

\* What the dialog displays, and what its submit would hand over.
Offer == [mode |-> entry.mode, pair |-> pair, bps |-> entry.bps, quote |-> Quote,
          amount |-> IF entry.mode = "exactIn" THEN entry.exactIn ELSE entry.exactOut]

\* After a render: a dialog that appears is fresh and looks at the network; the
\* lookups and the calls of one that disappears have no screen to write to.
Orphaned(r) == [r EXCEPT !.here = FALSE]
Look == [kind |-> "look", here |-> TRUE]

Render(d, cs, hs) ==
    /\ dialog' = IF Mounted' THEN IF Mounted THEN d ELSE Fresh ELSE Fresh
    /\ lookups' = IF Mounted = Mounted' THEN hs
                 ELSE {Orphaned(h) : h \in hs} \cup IF Mounted' THEN {Look} ELSE {}
    /\ calls' = IF Mounted = Mounted' THEN cs ELSE [i \in DOMAIN cs |-> Orphaned(cs[i])]

\* The rows the selector of the kit shows for a token: recent ones first, and the
\* rest of those that match; recent ones are repeated once a query is typed.
Recent(selected) == {recents[i] : i \in DOMAIN recents} \ {selected}
PickerRowsRepeated(t, query, selected) ==
    (IF t \in Recent(selected) THEN 1 ELSE 0) + (IF t \in query.hits THEN 1 ELSE 0)
PickerRows(t, query, selected) ==
    (IF t \in Recent(selected) THEN 1 ELSE 0)
    + (IF t \in query.hits /\ (query.typed \/ t \notin Recent(selected)) THEN 1 ELSE 0)

-----------------------------------------------------------------------------
(* The form *)

Move == moves < MaxMoves /\ moves' = moves + 1

\* useSwapQuote's effect: complete inputs load, others clear the quote.
Reload == live' = IF pair'.in # None /\ pair'.out # None /\ entry'.exactIn # 0
                  THEN [live EXCEPT !.loading = TRUE]
                  ELSE [loading |-> FALSE, quote |-> 0]

\* The token moves to the front; what is left of RECENT_MAX are the others.
Recall(t) ==
    LET before == {i \in DOMAIN recents : \A j \in 1..i : recents[j] # t}
        room == IF t \in {recents[i] : i \in DOMAIN recents} THEN Len(recents)
                ELSE IF Len(recents) < RecentMax THEN Len(recents) + 1 ELSE RecentMax
    IN  recents' = [i \in 1..room |-> IF i = 1 THEN t
                                      ELSE IF i - 1 \in before THEN recents[i - 1] ELSE recents[i]]

\* A token chosen on one side. The list leaves out the token of the other side, so
\* the handlers' case that would exchange the two is not reached.
SelectToken(side, t) ==
    /\ Move
    /\ t # pair[IF side = "in" THEN "out" ELSE "in"]
    /\ pair' = [pair EXCEPT ![side] = t]
    /\ Recall(t)
    /\ UNCHANGED <<entry, purse, show, clicks>>
    /\ IF pair' = pair THEN UNCHANGED live ELSE Reload
    /\ Render(dialog, calls, lookups)

\* The direction button: the quoted output becomes the amount.
SwapDirection ==
    /\ Move
    /\ pair' = [in |-> pair.out, out |-> pair.in]
    /\ \E n \in 0..MaxAmount :
        /\ (live.quote = 0) = (n = 0)
        /\ entry' = [entry EXCEPT !.exactIn = n]
    /\ UNCHANGED <<recents, purse, show, clicks>>
    /\ IF pair' = pair /\ entry' = entry THEN UNCHANGED live ELSE Reload
    /\ Render(dialog, calls, lookups)

EnterAmount ==
    /\ Move
    /\ \E n \in 0..MaxAmount :
        /\ entry' = [entry EXCEPT ![entry.mode] = n]
        /\ entry' # entry
    /\ UNCHANGED <<pair, recents, purse, show, clicks>>
    /\ IF entry.mode = "exactIn" THEN Reload ELSE UNCHANGED live
    /\ Render(dialog, calls, lookups)

ToggleMode ==
    /\ Move
    /\ entry' = [entry EXCEPT !.mode = IF @ = "exactIn" THEN "exactOut" ELSE "exactIn"]
    /\ UNCHANGED <<pair, live, recents, purse, show, clicks>>
    /\ Render(dialog, calls, lookups)

\* A preset, or a percentage above 0 and at most 50 rounded to basis points.
Presets == {10, 50, 100}
TypedBps == {(n + 5) \div 10 : n \in {m \in SlippageTexts : m > 0 /\ m <= 50000}}
SetSlippage ==
    /\ Move
    /\ \E bps \in Presets \cup TypedBps :
        /\ bps # entry.bps
        /\ entry' = [entry EXCEPT !.bps = bps]
    /\ UNCHANGED <<pair, recents, purse, show, clicks>>
    /\ Reload
    /\ Render(dialog, calls, lookups)

\* The quote arrives or fails, after the debounce or for a price event.
QuoteArrives ==
    /\ Move
    /\ HasBoth /\ entry.exactIn # 0
    /\ \E price \in 0..MaxAmount : live' = [loading |-> FALSE, quote |-> price]
    /\ UNCHANGED <<pair, entry, recents, purse, show, clicks>>
    /\ Render(dialog, calls, lookups)

\* In the wallet: connect, disconnect, another network.
WalletChanges ==
    /\ Move
    /\ \/ purse' = [purse EXCEPT !.address = ~@]
       \/ purse' = [purse EXCEPT !.abroad = ~@]
    /\ UNCHANGED <<pair, entry, live, recents, show, clicks>>
    /\ Render(dialog, calls, lookups)

PressSwap ==
    /\ CanSwap /\ ~show
    /\ show' = TRUE
    /\ UNCHANGED <<pair, entry, live, recents, purse, moves, clicks>>
    /\ Render(dialog, calls, lookups)

-----------------------------------------------------------------------------
(* The dialog *)

\* The cross and a click outside it while it is not busy, Escape while it is idle.
CloseDialog ==
    /\ Mounted /\ ~Busy
    /\ show' = FALSE
    /\ UNCHANGED <<pair, entry, live, recents, purse, moves, clicks>>
    /\ Render(dialog, calls, lookups)

\* The window gets the focus back: the dialog looks at the network again.
RegainFocus ==
    /\ Mounted /\ Look \notin lookups
    /\ lookups' = lookups \cup {Look}
    /\ UNCHANGED <<pair, entry, live, recents, purse, show, dialog, calls, moves, clicks>>

Click == clicks < MaxClicks /\ clicks' = clicks + 1

\* handleConfirm up to its await: the button is off once the status moves on.
ClickConfirm ==
    /\ Mounted /\ dialog.status = "idle" /\ ~dialog.mismatch
    /\ Click
    /\ lookups' = lookups \cup {[kind |-> "confirm", here |-> TRUE, number |-> clicks', seen |-> Offer]}
    /\ UNCHANGED <<pair, entry, live, recents, purse, show, dialog, calls, moves>>

Called(n, offer, abroad, seen, here) ==
    [number |-> n, offer |-> offer, abroad |-> abroad, seen |-> seen, here |-> here]

\* A bug: the swap is built from the offer on display when the check has ended.
SubmitNow(h, abroad) == Append(calls, Called(h.number, Offer, abroad, h.seen, h.here))
\* submit of the click's render.
Submit(h, abroad) == Append(calls, Called(h.number, h.seen, abroad, h.seen, h.here))

\* A bug: the answer is shown, and does not keep the swap back.
OnlyWarn(h, result) == h.kind = "confirm"
Proceed(h, result) == h.kind = "confirm" /\ result # "abroad"

\* getNetwork answers or fails, and the click goes on unless the networks differ.
CheckEnds(h) ==
    /\ \E result \in {IF purse.abroad THEN "abroad" ELSE "same", "failed"} :
        LET seen == IF h.here /\ result # "failed"
                    THEN [dialog EXCEPT !.mismatch = (result = "abroad")] ELSE dialog IN
        IF Proceed(h, result)
        THEN /\ dialog' = IF h.here THEN [seen EXCEPT !.status = "signing"] ELSE seen
             /\ calls' = Submit(h, result = "abroad")
        ELSE dialog' = seen /\ UNCHANGED calls
    /\ lookups' = lookups \ {h}
    /\ UNCHANGED <<pair, entry, live, recents, purse, show, moves, clicks>>

\* The execution the dialog follows moves on; at its success the form clears the
\* amount and the dialog closes.
Advance ==
    /\ Busy
    /\ \E next \in {<<"signing", "submitting">>, <<"submitting", "pending">>} :
        dialog.status = next[1] /\ dialog' = [dialog EXCEPT !.status = next[2]]
    /\ UNCHANGED <<pair, entry, live, recents, purse, show, lookups, calls, moves, clicks>>

Fail ==
    /\ \E end \in {<<"signing", "rejected">>, <<"submitting", "network">>,
                   <<"pending", "slippage">>, <<"pending", "failed">>} :
        /\ dialog.status = end[1]
        /\ dialog' = [dialog EXCEPT !.status = "error", !.why = end[2]]
    /\ UNCHANGED <<pair, entry, live, recents, purse, show, lookups, calls, moves, clicks>>

Succeed ==
    /\ dialog.status = "pending"
    /\ show' = FALSE
    /\ entry' = [entry EXCEPT ![entry.mode] = 0]
    /\ UNCHANGED <<pair, recents, purse, moves, clicks>>
    /\ IF entry.mode = "exactIn" THEN Reload ELSE UNCHANGED live
    /\ Render(dialog, calls, lookups)

\* handleRetry: reset and submit, with no look at the network.
ClickRetry ==
    /\ Mounted /\ dialog.status = "error" /\ dialog.why # "failed"
    /\ Click
    /\ dialog' = [dialog EXCEPT !.status = "signing", !.why = None]
    /\ calls' = Append(calls, Called(clicks', Offer, FALSE, Offer, TRUE))
    /\ UNCHANGED <<pair, entry, live, recents, purse, show, lookups, moves>>

-----------------------------------------------------------------------------
SwapFormNext ==
    \/ \E side \in {"in", "out"}, t \in FormTokens : SelectToken(side, t)
    \/ SwapDirection \/ EnterAmount \/ ToggleMode \/ SetSlippage
    \/ QuoteArrives \/ WalletChanges \/ PressSwap
    \/ CloseDialog \/ RegainFocus \/ ClickConfirm
    \/ \E h \in lookups : CheckEnds(h)
    \/ Advance \/ Fail \/ Succeed \/ ClickRetry

SwapFormSpec == SwapFormInit /\ [][SwapFormNext]_formVars

SwapFormTypeOK ==
    /\ pair \in [in : FormTokens \cup {None}, out : FormTokens \cup {None}]
    /\ entry.mode \in {"exactIn", "exactOut"}
    /\ entry.exactIn \in 0..MaxAmount /\ entry.exactOut \in 0..MaxAmount
    /\ entry.bps \in Presets \cup TypedBps
    /\ live \in [loading : BOOLEAN, quote : 0..MaxAmount]
    /\ Len(recents) <= RecentMax
    /\ dialog.status \in {"idle", "signing", "submitting", "pending", "error"}
    /\ ~Mounted => dialog = Fresh /\ \A h \in lookups : ~h.here

\* What was handed over is what its click saw, whatever the form, the quote or the
\* dialog became while the wallet was asked, and never after an answer that named
\* another network; a click hands over one swap (SwapConfirmModal.tsx 91-124).
ConfirmedAsShown ==
    /\ \A i \in DOMAIN calls : calls[i].offer = calls[i].seen /\ ~calls[i].abroad
    /\ \A i, j \in DOMAIN calls : calls[i].number = calls[j].number => i = j

\* Without a query, the selector shows every token once, however the recent ones
\* and the selection overlap; a query hides none that matches
\* (TokenSelectorModal.tsx 73-85, 209-238).
PickerWhole ==
    \A selected \in FormTokens \cup {None}, t \in FormTokens :
        /\ PickerRows(t, [typed |-> FALSE, hits |-> FormTokens], selected) = 1
        /\ \A hits \in SUBSET FormTokens :
              t \in hits => PickerRows(t, [typed |-> TRUE, hits |-> hits], selected) > 0
=============================================================================
