---------------------------- MODULE AddLiquidity ----------------------------
(* The form that adds liquidity (hooks/useAddLiquidity.ts and the components *)
(* of components/AddLiquidity). A price is the tick it is nearest to, an     *)
(* amount a small number, and the formulas of concentrated liquidity are     *)
(* replaced by one with their signs. The mouse holds the handle it drags, so *)
(* nothing else is operated until it is let go. The texts of the price       *)
(* inputs, amounts below one unit and the share and APR of the preview are   *)
(* left out. The wallet, connected all along, and the submission             *)
(* (SwapQuote's neighbour lib/mev-submission.ts) answer as they like.        *)
EXTENDS Integers, Sequences

CONSTANTS Spacings,        \* tick spacings of the fee tiers
          SelectorSpacing, \* the spacing RangeSelector snaps by, given none
          CurrentTicks,    \* ticks the pools of the list are at
          LastTick,        \* MAX_TICK, and -LastTick is MIN_TICK
          HalfWidth,       \* spacings from the current tick to a first bound
          MaxDeposit,      \* amounts typed, 0 when the text is no amount
          MaxAddMoves,     \* bound: changes of the form
          MaxAdds          \* bound: transactions handed to the wallet

ASSUME AddLiquidityAssumption ==
    /\ Spacings \subseteq Nat \ {0} /\ SelectorSpacing \in Nat \ {0}
    /\ LastTick \in Nat \ {0} /\ CurrentTicks \subseteq -LastTick..LastTick
    /\ HalfWidth \in Nat \ {0} /\ MaxDeposit \in Nat
    /\ MaxAddMoves \in Nat /\ MaxAdds \in Nat

Sides == {"lower", "upper"}
AddPools == [tick : CurrentTicks, spacing : Spacings]
NoPool == [tick |-> 0, spacing |-> 0]

VARIABLES deposit,  \* [pool, lower, upper, amount, last]; last 2 when none is
          adding,   \* txStatus and txError: [status, why]
          adds,     \* transactions handed to the wallet
          addMoves

addVars == <<deposit, adding, adds, addMoves>>

BlankForm == [pool |-> NoPool, lower |-> -LastTick, upper |-> LastTick,
          amount |-> <<0, 0>>, last |-> 2]
AddIdle == [status |-> "idle", why |-> "none"]

AddInit == deposit = BlankForm /\ adding = AddIdle /\ adds = <<>> /\ addMoves = 0

-----------------------------------------------------------------------------
(* Ticks and amounts *)

Clamp(t) == IF t > LastTick THEN LastTick ELSE IF t < -LastTick THEN -LastTick ELSE t

\* Math.round goes up from a half.
Usable(t, spacing) == Clamp(((2 * t + spacing) \div (2 * spacing)) * spacing)

\* The ends of the axis stay where they are when the selector snaps them: MAX_TICK,
\* 887272, is rounded up by its spacing of 60, and clamped.
ASSUME EndsAssumption == Usable(LastTick, SelectorSpacing) = LastTick
                      /\ Usable(-LastTick, SelectorSpacing) = -LastTick

\* What goes with n of token k (0 or 1): nothing outside the range.
Need(k, n, d) ==
    LET below == d.pool.tick - d.lower
        above == d.upper - d.pool.tick
    IN IF below <= 0 \/ above <= 0 THEN 0
       ELSE IF k = 0 THEN (n * below) \div above ELSE (n * above) \div below

Amount(d, k) == d.amount[k + 1]
WithAmounts(d, k, n) ==
    [d EXCEPT !.amount = [i \in 1..2 |-> IF i = k + 1 THEN n ELSE Need(k, n, d)], !.last = k]

\* syncAmountsForRange: the amount edited last stays, the other follows.
Synced(d) == IF d.last = 2 \/ Amount(d, d.last) = 0 THEN d
             ELSE WithAmounts(d, d.last, Amount(d, d.last))

\* token0Only and token1Only, and the input each disables.
OnlyToken(d, k) ==
    /\ d.pool # NoPool /\ d.lower < d.upper
    /\ IF k = 0 THEN d.pool.tick < d.lower ELSE d.pool.tick > d.upper
\* A bug: the flags by the words of the inputs' doc, "token0 input is disabled".
DisabledByName(d, k) == OnlyToken(d, k)
Disabled(d, k) == OnlyToken(d, 1 - k)

-----------------------------------------------------------------------------
(* The form *)

AddMove == addMoves < MaxAddMoves /\ addMoves' = addMoves + 1 /\ UNCHANGED <<adding, adds>>

SelectPool(pool) ==
    /\ AddMove
    /\ deposit' = [deposit EXCEPT
                     !.pool = pool, !.amount = <<0, 0>>,
                     !.lower = Usable(pool.tick - pool.spacing * HalfWidth, pool.spacing),
                     !.upper = Usable(pool.tick + pool.spacing * HalfWidth, pool.spacing)]

\* A bug: the guard compares with the bound it moves.
OrderedWithItself(side, t) == IF side = "lower" THEN t # deposit.lower ELSE t # deposit.upper
\* The selector's guard, on the tick it proposes.
KeepsOrder(side, t) == IF side = "lower" THEN t < deposit.upper ELSE t > deposit.lower

\* setLowerTick, setUpperTick, setLowerPrice, setUpperPrice.
SetBound(side, t) == deposit' = Synced([deposit EXCEPT ![side] = Usable(t, deposit.pool.spacing)])

\* The handle is at a tick the selector has snapped, which the hook snaps again.
Drag(side, t) ==
    /\ AddMove /\ deposit.pool # NoPool
    /\ KeepsOrder(side, Usable(t, SelectorSpacing))
    /\ SetBound(side, Usable(t, SelectorSpacing))

\* The selector looks at the tick it would snap to, the hook snaps by the pool's.
TypePrice(side, t) ==
    /\ AddMove /\ deposit.pool # NoPool
    /\ KeepsOrder(side, Usable(t, SelectorSpacing))
    /\ SetBound(side, t)

\* A bug: the full range is set and the amounts are left.
WidenOnly(d) == [d EXCEPT !.lower = -LastTick, !.upper = LastTick]
Widen(d) == Synced([d EXCEPT !.lower = -LastTick, !.upper = LastTick])

FullRange ==
    /\ AddMove /\ deposit.pool # NoPool
    /\ deposit' = Widen(deposit)

EnterDeposit(k, n) ==
    /\ AddMove /\ deposit.pool # NoPool
    /\ ~Disabled(deposit, k)
    /\ deposit' = WithAmounts(deposit, k, n)

\* The page is left: a new form, and a transaction under way goes on without it.
LeaveForm ==
    /\ addMoves < MaxAddMoves /\ addMoves' = addMoves + 1
    /\ deposit' = BlankForm /\ adding' = AddIdle
    /\ adds' = [i \in DOMAIN adds |-> [adds[i] EXCEPT !.here = FALSE]]

\* "Dismiss" and "Add another": reset.
DismissAdd ==
    /\ adding.status \in {"success", "error"}
    /\ deposit' = BlankForm /\ adding' = AddIdle
    /\ UNCHANGED <<adds, addMoves>>

-----------------------------------------------------------------------------
(* The transaction *)

\* A bug: the builder takes any range.
BuildsAnything(d) == TRUE
\* buildAddLiquidityTx refuses a range that is not one.
Builds(d) == d.lower < d.upper

\* "Simplified: use amount0 as proxy".
LiquidityUnits(d) == IF Amount(d, 0) > 0 THEN Amount(d, 0) ELSE Amount(d, 1)

AddUnderWay == adding.status \in {"signing", "submitting"}
AddError(why) == [status |-> "error", why |-> why]

\* handleSubmit, up to the wallet: submit goes by the state of the click's render.
PressAdd ==
    /\ Len(adds) < MaxAdds
    /\ deposit.pool # NoPool /\ ~AddUnderWay /\ adding.status # "success"
    /\ Amount(deposit, 0) > 0 \/ Amount(deposit, 1) > 0
    /\ IF Builds(deposit)
       THEN /\ adds' = Append(adds, [lower |-> deposit.lower, upper |-> deposit.upper,
                                     units |-> LiquidityUnits(deposit),
                                     stage |-> "signing", here |-> TRUE])
            /\ adding' = [status |-> "signing", why |-> "none"]
       ELSE adding' = AddError("network") /\ UNCHANGED adds
    /\ UNCHANGED <<deposit, addMoves>>

\* The i-th transaction moves on, and the form that sent it if it is still there.
AddMovesOn(i, stage, shown) ==
    /\ adds' = [adds EXCEPT ![i].stage = stage]
    /\ adding' = IF adds[i].here THEN shown ELSE adding
    /\ UNCHANGED <<deposit, addMoves>>

WalletAnswersAdd(i) ==
    /\ adds[i].stage = "signing"
    /\ \/ AddMovesOn(i, "submitting", [status |-> "submitting", why |-> "none"])
       \/ \E why \in {"rejected", "network"} : AddMovesOn(i, "over", AddError(why))

AddEnds(i) ==
    /\ adds[i].stage = "submitting"
    /\ \/ AddMovesOn(i, "over", [status |-> "success", why |-> "none"])
       \/ \E why \in {"failed", "network", "rejected"} : AddMovesOn(i, "over", AddError(why))

-----------------------------------------------------------------------------
AddNext ==
    \/ \E pool \in AddPools : SelectPool(pool)
    \/ \E side \in Sides, t \in -LastTick..LastTick : Drag(side, t)
    \/ \E side \in Sides, t \in -LastTick..LastTick : TypePrice(side, t)
    \/ \E k \in {0, 1}, n \in 0..MaxDeposit : EnterDeposit(k, n)
    \/ FullRange \/ LeaveForm \/ DismissAdd \/ PressAdd
    \/ \E i \in DOMAIN adds : WalletAnswersAdd(i) \/ AddEnds(i)

AddSpec == AddInit /\ [][AddNext]_addVars

AddTypeOK ==
    /\ deposit.pool \in AddPools \cup {NoPool}
    /\ deposit.lower \in -LastTick..LastTick /\ deposit.upper \in -LastTick..LastTick
    /\ deposit.amount \in Seq(Nat) /\ deposit.last \in 0..2
    /\ adding.status \in {"idle", "signing", "submitting", "success", "error"}
    /\ Len(adds) <= MaxAdds

\* The other amount is what goes with the one edited last in the range on screen,
\* whatever moved since (useAddLiquidity.ts 112-139), and an input marked as not
\* required holds nothing but what was typed into it before (AmountInputs.tsx 106-119).
AmountsFollow ==
    deposit.pool # NoPool /\ deposit.last # 2 =>
        /\ Amount(deposit, 1 - deposit.last)
             = Need(deposit.last, Amount(deposit, deposit.last), deposit)
        /\ \A k \in {0, 1} : Disabled(deposit, k) => Amount(deposit, k) = 0 \/ deposit.last = k

\* The bounds are ticks the pool has, and in order where the selector snaps as the
\* pool does; no transaction names a range out of order, or no liquidity
\* (RangeSelector.tsx 142-167, packages/sdk/src/liquidity.ts 240-247).
RangeSound ==
    /\ deposit.pool # NoPool =>
         /\ \A side \in Sides : deposit[side] = Usable(deposit[side], deposit.pool.spacing)
                             \/ deposit[side] \in {-LastTick, LastTick}
         /\ deposit.pool.spacing = SelectorSpacing => deposit.lower < deposit.upper
    /\ \A i \in DOMAIN adds : adds[i].lower < adds[i].upper /\ adds[i].units > 0

\* The form is at the step of its own transaction, one at a time: an earlier form's
\* moves nothing here (PositionPreview.tsx 244-258).
AddStatusOwn ==
    LET own == {i \in DOMAIN adds : adds[i].here /\ adds[i].stage # "over"} IN
    /\ AddUnderWay <=> own # {}
    /\ \A i \in own : own = {i} /\ adding.status = adds[i].stage

AddHolds == AddTypeOK /\ AmountsFollow /\ RangeSound /\ AddStatusOwn
=============================================================================
