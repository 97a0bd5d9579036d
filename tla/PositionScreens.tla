--------------------------- MODULE PositionScreens ---------------------------
(* The pages of an owner's positions: the panel that removes liquidity or     *)
(* collects fees (components/RemoveLiquidityPanel.tsx under                   *)
(* app/positions/[id]/remove), the page that moves a range (.../rerange), and *)
(* the portfolio (app/portfolio, hooks/usePortfolio.ts). A position is what   *)
(* the page was given; the wallet, the API and the network are external and   *)
(* answer as they like. The text of the percentage and of the prices, the     *)
(* confirmation toast (TxStatus) and a position that fails to load are left   *)
(* out; an estimate never fails for a position the API serves.                *)
EXTENDS Integers, Sequences, FiniteSets, SequencesExt

CONSTANTS Percents,       \* percentages the panel offers
          Liquidities,    \* liquidity a position is served with
          MaxPanelMoves,  \* bound: choices, loads and visits of a page
          MaxEnvelopes,   \* bound: transactions handed to the wallet
          RangeTicks,     \* ticks of a position's bounds and of typed prices
          RangeSpacing,   \* the spacing of the 0.30 % tier, for a position without a tier
          Positions,      \* identities of positions
          Tokens,         \* tokens of the account
          MaxLoads,       \* bound: loads of the portfolio
          MaxOpened       \* bound: positions opened meanwhile

ASSUME PositionScreensAssumption ==
    /\ Percents \subseteq 1..100 /\ 100 \in Percents /\ Liquidities \subseteq Nat
    /\ RangeTicks \subseteq Int /\ RangeSpacing \in Nat \ {0}
    /\ {MaxPanelMoves, MaxEnvelopes, MaxLoads, MaxOpened} \subseteq Nat

NoOne == "none"

VARIABLES panel,      \* the mounted panel: [units, pct, asked, shown, loading]
          estimates,  \* estimates under way: [units, pct, live]
          taking,     \* status of useRemoveLiquidity
          envelopes,  \* transactions of the panel
          panelMoves

panelVars == <<panel, estimates, taking, envelopes, panelMoves>>

VARIABLES range,      \* [is, lower, upper]: the position's, and the bounds chosen
          moving,     \* status of useRerangeLiquidity
          reranges,     \* transactions of the page
          rangeMoves

rangeVars == <<range, moving, reranges, rangeMoves>>

VARIABLES api,        \* each owner's positions, newest first
          held,       \* whose token the page holds, or NoOne
          listed,     \* the list shown: [items, of, whole, newest]
          fetches,    \* loads under way: [n, token, got]
          loads,      \* requestId: the last load, whose answer counts
          pending,    \* pendingCollectPositionId
          collects    \* fees being collected: <<position, token>>

folioVars == <<api, held, listed, fetches, loads, pending, collects>>

-----------------------------------------------------------------------------
(* Removing and collecting *)

\* The share of the position: the estimate, and what the transaction takes.
Share(units, pct) == (units * pct) \div 100

NoPanel == [units |-> 0, pct |-> 100, asked |-> 0, shown |-> 0, loading |-> FALSE]
PanelShown == panel.units # 0

PanelInit ==
    /\ panel = NoPanel /\ estimates = {} /\ taking = "idle"
    /\ envelopes = <<>> /\ panelMoves = 0

PanelMove == panelMoves < MaxPanelMoves /\ panelMoves' = panelMoves + 1

\* A bug: an estimate that was overtaken still writes.
KeepAll(es) == es
Cancelled(es) == {[e EXCEPT !.live = FALSE] : e \in es}

\* The position arrives: the panel appears with 100 %, and estimates it.
PanelAppears(units) ==
    /\ PanelMove /\ ~PanelShown
    /\ panel' = [NoPanel EXCEPT !.units = units, !.loading = TRUE]
    /\ estimates' = Cancelled(estimates) \cup {[units |-> units, pct |-> 100, live |-> TRUE]}
    /\ taking' = "idle"
    /\ UNCHANGED envelopes

\* The page reloads its position for another token, is left, or goes to the
\* portfolio once all is removed: what is under way goes on without a screen.
PanelGoes ==
    /\ PanelShown
    /\ \/ PanelMove
       \/ taking = "success" /\ panel.pct = 100 /\ UNCHANGED panelMoves
    /\ panel' = NoPanel
    /\ estimates' = Cancelled(estimates)
    /\ taking' = "idle"
    /\ envelopes' = [i \in DOMAIN envelopes |-> [envelopes[i] EXCEPT !.here = FALSE]]

\* A bug: the question stays open when the percentage changes.
StaysAsked == panel.asked
NotAsked == 0

\* A preset, the slider, or a number from 1 to 100 typed.
ChoosePercent(pct) ==
    /\ PanelMove /\ PanelShown
    /\ IF pct = panel.pct
       THEN panel' = [panel EXCEPT !.asked = NotAsked] /\ UNCHANGED estimates
       ELSE /\ panel' = [panel EXCEPT !.pct = pct, !.asked = NotAsked, !.loading = TRUE]
            /\ estimates' = Cancelled(estimates)
                            \cup {[units |-> panel.units, pct |-> pct, live |-> TRUE]}
    /\ UNCHANGED <<taking, envelopes>>

EstimateEnds(e) ==
    /\ estimates' = estimates \ {e}
    /\ panel' = IF e.live THEN [panel EXCEPT !.shown = Share(e.units, e.pct), !.loading = FALSE]
                ELSE panel
    /\ UNCHANGED <<taking, envelopes, panelMoves>>

TakeBusy == taking \in {"signing", "submitting"}

\* "Remove", which asks first; confirming is kept with the percentage it asks for.
AskRemove ==
    /\ PanelMove /\ PanelShown /\ panel.asked = 0
    /\ ~TakeBusy /\ taking # "success" /\ ~panel.loading
    /\ panel' = [panel EXCEPT !.asked = panel.pct]
    /\ UNCHANGED <<estimates, taking, envelopes>>

CancelRemove ==
    /\ panel.asked # 0 /\ taking # "success"
    /\ panel' = [panel EXCEPT !.asked = 0]
    /\ UNCHANGED <<estimates, taking, envelopes, panelMoves>>

\* buildBurnTx takes a share of the liquidity, buildCollectTx none of it.
RemoveEnvelope == [kind |-> "remove", units |-> Share(panel.units, panel.pct),
                   pct |-> panel.pct, asked |-> panel.asked, shown |-> panel.shown,
                   stage |-> "signing", here |-> TRUE]
CollectEnvelope == [RemoveEnvelope EXCEPT !.kind = "collect", !.units = 0]

Hand(envelope) ==
    /\ Len(envelopes) < MaxEnvelopes
    /\ envelopes' = Append(envelopes, envelope)
    /\ taking' = "signing"

Confirms == ~panel.loading

ConfirmRemove ==
    /\ panel.asked # 0 /\ taking # "success" /\ Confirms
    /\ Hand(RemoveEnvelope)
    /\ panel' = [panel EXCEPT !.asked = 0]
    /\ UNCHANGED <<estimates, panelMoves>>

\* "Collect fees only", which a success does not take away.
CollectFees ==
    /\ PanelShown /\ ~TakeBusy
    /\ Hand(CollectEnvelope)
    /\ UNCHANGED <<panel, estimates, panelMoves>>

\* A transaction moves on; the panel that sent it shows that.
TakeMovesOn(i, stage, shown) ==
    /\ envelopes' = [envelopes EXCEPT ![i].stage = stage]
    /\ taking' = IF envelopes[i].here THEN shown ELSE taking
    /\ UNCHANGED <<panel, estimates, panelMoves>>

WalletAnswersTake(i) ==
    /\ envelopes[i].stage = "signing"
    /\ \/ TakeMovesOn(i, "submitting", "submitting")
       \/ TakeMovesOn(i, "unsigned", "error")

TakeEnds(i) ==
    /\ envelopes[i].stage = "submitting"
    /\ \E end \in {"success", "error"} : TakeMovesOn(i, end, end)

DismissTake ==
    /\ taking = "error"
    /\ taking' = "idle"
    /\ UNCHANGED <<panel, estimates, envelopes, panelMoves>>

PanelNext ==
    \/ \E units \in Liquidities : PanelAppears(units)
    \/ \E pct \in Percents : ChoosePercent(pct)
    \/ \E e \in estimates : EstimateEnds(e)
    \/ PanelGoes \/ AskRemove \/ CancelRemove \/ ConfirmRemove \/ CollectFees \/ DismissTake
    \/ \E i \in DOMAIN envelopes : WalletAnswersTake(i) \/ TakeEnds(i)

-----------------------------------------------------------------------------
(* Another range *)

Near(t) == ((2 * t + RangeSpacing) \div (2 * RangeSpacing)) * RangeSpacing

Proposed(is) == [is |-> is, lower |-> Near(is[1] - RangeSpacing), upper |-> Near(is[2] + RangeSpacing)]
PositionRanges == {is \in RangeTicks \X RangeTicks : is[1] < is[2]}

RangeInit ==
    /\ range = [is |-> <<>>, lower |-> 0, upper |-> 0]
    /\ moving = "idle" /\ reranges = <<>> /\ rangeMoves = 0

RangeMove == rangeMoves < MaxPanelMoves /\ rangeMoves' = rangeMoves + 1

\* The position arrives, at first or again for another token: the bounds start
\* over, a little wider than its own, and the status stays.
RangeArrives(is) ==
    /\ RangeMove
    /\ range' = Proposed(is)
    /\ UNCHANGED <<moving, reranges>>

TypeBound(side, t) ==
    /\ RangeMove /\ range.is # <<>>
    /\ range' = [range EXCEPT ![side] = Near(t)]
    /\ UNCHANGED <<moving, reranges>>

RangeBusy == moving \in {"signing", "submitting"}

\* A bug: the button minds the order and not the change.
MovesInOrder == range.lower < range.upper
MovesSomewhere == range.lower < range.upper /\ <<range.lower, range.upper>> # range.is

\* buildRerangeTx: out of the position's range and into the other.
MoveEnvelope == [from |-> range.is, to |-> <<range.lower, range.upper>>, stage |-> "signing"]

PressRerange ==
    /\ Len(reranges) < MaxEnvelopes
    /\ range.is # <<>> /\ ~RangeBusy /\ moving # "success" /\ MovesSomewhere
    /\ reranges' = Append(reranges, MoveEnvelope)
    /\ moving' = "signing"
    /\ UNCHANGED <<range, rangeMoves>>

RangeProceeds(i) ==
    /\ \E step \in {<<"signing", "submitting">>, <<"signing", "error">>,
                    <<"submitting", "success">>, <<"submitting", "error">>} :
        /\ reranges[i].stage = step[1]
        /\ reranges' = [reranges EXCEPT ![i].stage = step[2]]
        /\ moving' = step[2]
    /\ UNCHANGED <<range, rangeMoves>>

DismissRerange ==
    /\ moving = "error" /\ moving' = "idle"
    /\ UNCHANGED <<range, reranges, rangeMoves>>

RangeNext ==
    \/ \E is \in PositionRanges : RangeArrives(is)
    \/ \E side \in {"lower", "upper"}, t \in RangeTicks : TypeBound(side, t)
    \/ PressRerange \/ DismissRerange
    \/ \E i \in DOMAIN reranges : RangeProceeds(i)

-----------------------------------------------------------------------------
(* The portfolio *)

\* `of` is the load the list came from; `whole` and `newest` are history: what its
\* last page was cut from, and the newest load ever shown.
NoList == [items |-> <<>>, of |-> 0, whole |-> <<>>, newest |-> 0]

FolioInit ==
    /\ api \in [Tokens -> {<<>>} \cup {<<p>> : p \in Positions}]
    /\ held = NoOne /\ listed = NoList
    /\ fetches = {} /\ loads = 0
    /\ pending = NoOne /\ collects = {}

\* refresh: without a token the lists are emptied, with one the first page is asked.
Refresh(token) ==
    /\ loads < MaxLoads
    /\ loads' = loads + 1
    /\ IF token = NoOne
       THEN listed' = [NoList EXCEPT !.of = loads', !.newest = loads'] /\ UNCHANGED fetches
       ELSE fetches' = fetches \cup {[n |-> loads', token |-> token, got |-> <<>>]}
            /\ UNCHANGED listed

\* For another address the page reads the token again.
ReadToken(token) ==
    /\ token # held
    /\ held' = token
    /\ Refresh(token)
    /\ UNCHANGED <<api, pending, collects>>

\* The wallet signs in. What was pending is collected by the render of the click,
\* which knows no token.
SignIn(token) ==
    /\ held = NoOne
    /\ held' = token
    /\ Refresh(token)
    /\ pending' = NoOne
    /\ collects' = collects \cup {<<p, NoOne>> : p \in {pending} \cap ToSet(listed.items)}
    /\ UNCHANGED api

\* Every 30 seconds, and on "Retry".
RefreshAgain ==
    /\ held # NoOne
    /\ Refresh(held)
    /\ UNCHANGED <<api, held, pending, collects>>

\* A position is opened: it is the newest.
OpenPosition(token, p) ==
    /\ Len(api[token]) < MaxOpened /\ ~Contains(api[token], p)
    /\ api' = [api EXCEPT ![token] = <<p>> \o @]
    /\ UNCHANGED <<held, listed, fetches, loads, pending, collects>>

\* A bug: pages are put together as they come.
AcceptsRepeats(got, total) == Len(got) <= total
\* The checks of a load: no more than the total, none twice.
Accepts(got, total) == Len(got) <= total /\ Cardinality(ToSet(got)) = Len(got)

\* A bug: whichever load ends last is shown.
CountsAny(f) == f.n > 0
Counts(f) == f.n = loads

\* The next page (of one position): the load goes on, ends with a list or fails.
PageArrives(f) ==
    LET all == api[f.token]
        at == Len(f.got) + 1
        got == IF at <= Len(all) THEN Append(f.got, all[at]) ELSE f.got
        whole == Accepts(got, Len(all)) /\ Len(got) = Len(all)
        more == Accepts(got, Len(all)) /\ got # f.got /\ Len(got) < Len(all)
    IN /\ fetches' = (fetches \ {f}) \cup IF more THEN {[f EXCEPT !.got = got]} ELSE {}
       /\ listed' = IF whole /\ Counts(f)
                    THEN [items |-> got, of |-> f.n, whole |-> all,
                          newest |-> IF f.n > listed.newest THEN f.n ELSE listed.newest]
                    ELSE listed
       /\ UNCHANGED <<api, held, loads, pending, collects>>

FetchFails(f) ==
    /\ fetches' = fetches \ {f}
    /\ UNCHANGED <<api, held, listed, loads, pending, collects>>

\* "Collect fees" of a card: without a token it waits for one.
PressCollect(p) ==
    /\ Contains(listed.items, p) /\ <<p, held>> \notin collects
    /\ IF held = NoOne THEN pending' = p /\ UNCHANGED collects
       ELSE collects' = collects \cup {<<p, held>>} /\ UNCHANGED pending
    /\ UNCHANGED <<api, held, listed, fetches, loads>>

\* It fails, or its render reads the lists again, with the token it knows.
CollectEnds(c) ==
    /\ collects' = collects \ {c}
    /\ \/ UNCHANGED <<listed, fetches, loads>>
       \/ c[2] # NoOne /\ Refresh(c[2])
    /\ UNCHANGED <<api, held, pending>>

FolioNext ==
    \/ \E token \in Tokens \cup {NoOne} : ReadToken(token)
    \/ \E token \in Tokens : SignIn(token)
    \/ RefreshAgain
    \/ \E token \in Tokens, p \in Positions : OpenPosition(token, p)
    \/ \E p \in Positions : PressCollect(p)
    \/ \E f \in fetches : PageArrives(f) \/ FetchFails(f)
    \/ \E c \in collects : CollectEnds(c)

-----------------------------------------------------------------------------
PanelSpec == PanelInit /\ [][PanelNext]_panelVars
RangeSpec == RangeInit /\ [][RangeNext]_rangeVars
FolioSpec == FolioInit /\ [][FolioNext]_folioVars

PositionScreensTypeOK ==
    /\ panel.pct \in Percents /\ panel.asked \in Percents \cup {0}
    /\ taking \in {"idle", "signing", "submitting", "success", "error"}
    /\ moving \in {"idle", "signing", "submitting", "success", "error"}
    /\ held \in Tokens \cup {NoOne} /\ loads \in 0..MaxLoads
    /\ pending \in Positions \cup {NoOne}
    /\ \A c \in collects : c[1] \in Positions

\* A removal takes the share that was asked about and shown as its estimate, and
\* the estimate on display is the one of the percentage on display, however
\* choices and estimates overlap (RemoveLiquidityPanel.tsx 49-73, 309-353).
RemovedAsConfirmed ==
    /\ PanelShown /\ ~panel.loading => panel.shown = Share(panel.units, panel.pct)
    /\ \A i \in DOMAIN envelopes : envelopes[i].kind = "remove" =>
          /\ envelopes[i].asked = envelopes[i].pct
          /\ envelopes[i].units = envelopes[i].shown

\* A range is moved to one in order and of other bounds, one transaction at a time,
\* and the page is at its step (rerange/page.tsx 126-130, 311-323).
RangeMovedOnce ==
    /\ \A i \in DOMAIN reranges :
          /\ reranges[i].to[1] < reranges[i].to[2] /\ reranges[i].to # reranges[i].from
          /\ reranges[i].stage \in {"signing", "submitting"} => moving = reranges[i].stage
    /\ Cardinality({i \in DOMAIN reranges : reranges[i].stage \in {"signing", "submitting"}}) <= 1

\* The list shown has every position its owner had at its last page, once each,
\* whatever is opened between two pages; and a load does not replace a later one's
\* list (usePortfolio.ts 96-142).
PortfolioWhole ==
    /\ listed.items = listed.whole
    /\ listed.of = listed.newest
=============================================================================
