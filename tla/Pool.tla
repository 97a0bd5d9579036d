-------------------------------- MODULE Pool --------------------------------
(* The first pool contract (pool/src/lib.rs). Its position ids, ranges and   *)
(* the ticks to cross are the caller's to name: flip_tick, cross_tick and    *)
(* set_price are entry points too, and the model lets them come in any       *)
(* order. Observations are OracleAdapter's. What the token contracts move is *)
(* left out: a transfer that fails reverts its call, as if it was not made.  *)
EXTENDS Integers, FiniteSets, FiniteSetsExt, Folds

CONSTANTS PoolTicks,        \* ticks a range may have, multiples of the spacing
          TickPrice,        \* tick_to_sqrt_price at every tick of its domain
          PoolOne,          \* Q96
          FeePart,          \* swap's fee is one part in this many
          PoolLiquidities, PoolInputs, PoolLimits,
          PositionIds,      \* ids callers use
          PoolOpening,      \* sqrt_price_x96 of initialize
          MaxGross,         \* bound: liquidity ever minted
          MaxMoves          \* bound: moves of the price and the ticks

ASSUME PoolAssumption ==
    /\ DOMAIN TickPrice \subseteq Int /\ IsFiniteSet(DOMAIN TickPrice)
    /\ DOMAIN TickPrice # {} /\ \A t \in DOMAIN TickPrice : TickPrice[t] \in Nat
    /\ PoolTicks \subseteq DOMAIN TickPrice
    /\ PoolOne \in Nat \ {0} /\ FeePart \in Nat \ {0}
    /\ PoolLiquidities \subseteq Nat /\ PoolInputs \subseteq Nat
    /\ PoolLimits \subseteq Nat /\ MaxGross \in Nat
    /\ MaxMoves \in Nat /\ PoolOpening \in Nat

VARIABLES state,       \* STATE: sqrt price, tick, liquidity, fee growth
          ticks,       \* TICKS: the counters of a tick, and whether they are stored
          bits,        \* BITMAP
          positions,   \* POSITIONS: liquidity and growth last seen, by id
          minted, moves

poolVars == <<state, ticks, bits, positions, minted, moves>>

AtLeast0(n) == IF n < 0 THEN 0 ELSE n

\* sqrt_price_to_tick: the greatest tick whose price is not above.
PoolTickAt(p) ==
    LET below == {t \in DOMAIN TickPrice : TickPrice[t] <= p}
    IN IF below = {} THEN Min(DOMAIN TickPrice) ELSE Max(below)

PoolInit ==
    /\ state = [price |-> PoolOpening, tick |-> PoolTickAt(PoolOpening),
                liquidity |-> 0, growth |-> 0]
    /\ ticks = [t \in PoolTicks |-> [gross |-> 0, net |-> 0, outside |-> 0,
                                     initialized |-> FALSE, stored |-> FALSE]]
    /\ bits = {}
    /\ positions = [i \in {} |-> 0]
    /\ minted = 0 /\ moves = 0

\* update_tick
UpdateTick(info, t, delta, upper) ==
    LET gross == info.gross + delta
        fresh == info.gross = 0 /\ gross > 0
    IN [gross |-> gross,
        net |-> IF upper THEN info.net - delta ELSE info.net + delta,
        outside |-> IF fresh /\ t <= state.tick THEN state.growth ELSE info.outside,
        initialized |-> gross > 0,
        stored |-> TRUE]

\* Both boundaries of a range, with the bits that turn.
UpdateRange(lower, upper, delta) ==
    /\ \A t \in {lower, upper} : ticks[t].gross + delta >= 0
    /\ ticks' = [ticks EXCEPT ![lower] = UpdateTick(@, lower, delta, FALSE),
                              ![upper] = UpdateTick(@, upper, delta, TRUE)]
    /\ LET flipped == {t \in {lower, upper} :
                          (ticks[t].gross = 0) # (ticks[t].gross + delta = 0)}
       IN bits' = (bits \ flipped) \cup (flipped \ bits)

\* get_fee_growth_inside; the subtractions wrap, which nothing the model reads
\* tells from a negative number.
GrowthInRange(tk, lower, upper) ==
    LET below == IF state.tick >= lower THEN tk[lower].outside
                 ELSE state.growth - tk[lower].outside
        above == IF state.tick < upper THEN tk[upper].outside
                 ELSE state.growth - tk[upper].outside
    IN state.growth - below - above

InPool(lower, upper) == lower <= state.tick /\ state.tick < upper

Put(f, x, v) == [y \in DOMAIN f \cup {x} |-> IF y = x THEN v ELSE f[y]]

PoolMint(id, lower, upper, amount) ==
    /\ amount > 0 /\ lower < upper
    /\ minted + amount <= MaxGross
    /\ UpdateRange(lower, upper, amount)
    /\ state' = [state EXCEPT !.liquidity = IF InPool(lower, upper) THEN @ + amount ELSE @]
    /\ positions' = Put(positions, id,
                        IF id \in DOMAIN positions
                        THEN [positions[id] EXCEPT !.liquidity = @ + amount]
                        ELSE [liquidity |-> amount, last |-> GrowthInRange(ticks', lower, upper)])
    /\ minted' = minted + amount
    /\ UNCHANGED moves

\* burn: the range is the caller's word; only the amounts are checked.
PoolBurn(id, lower, upper, amount) ==
    /\ amount > 0 /\ lower < upper
    /\ id \in DOMAIN positions
    /\ UpdateRange(lower, upper, -amount)
    /\ InPool(lower, upper) => state.liquidity >= amount
    /\ state' = [state EXCEPT !.liquidity = IF InPool(lower, upper) THEN @ - amount ELSE @]
    /\ positions[id].liquidity >= amount
    /\ positions' = IF positions[id].liquidity = amount
                    THEN [i \in DOMAIN positions \ {id} |-> positions[i]]
                    ELSE [positions EXCEPT ![id].liquidity = @ - amount]
    /\ UNCHANGED <<minted, moves>>

\* collect: what it answers is transferred by nobody.
PoolCollect(id, lower, upper) ==
    /\ id \in DOMAIN positions
    /\ positions' = [positions EXCEPT ![id].last = GrowthInRange(ticks, lower, upper)]
    /\ UNCHANGED <<state, ticks, bits, minted, moves>>

Move == moves < MaxMoves /\ moves' = moves + 1

\* flip_tick: tick and spacing are the caller's, so the bit is any.
FlipTick(t) ==
    /\ bits' = (bits \ {t}) \cup ({t} \ bits)
    /\ Move
    /\ UNCHANGED <<state, ticks, positions, minted>>

\* cross_tick: the net is added in either direction; an entry that was never stored
\* has none, and is not made.
CrossTick(t) ==
    /\ state' = [state EXCEPT !.liquidity = AtLeast0(@ + ticks[t].net)]
    /\ ticks' = IF ticks[t].stored THEN [ticks EXCEPT ![t].outside = state.growth - @]
                ELSE ticks
    /\ Move
    /\ UNCHANGED <<bits, positions, minted>>

SetPrice(p) ==
    /\ state' = [state EXCEPT !.price = p, !.tick = PoolTickAt(p)]
    /\ Move
    /\ UNCHANGED <<ticks, bits, positions, minted>>

NextPrice(zeroForOne, amount) ==
    LET p == state.price
        n == state.liquidity
    IN IF n = 0 THEN p
       ELSE IF zeroForOne THEN (n * p) \div (n + (amount * p) \div PoolOne)
       ELSE p + (amount * PoolOne) \div n

\* swap and accrue_fees: no tick is crossed, the fee goes to token 0.
PoolSwap(zeroForOne, amount, limit) ==
    LET fee == amount \div FeePart
        next == NextPrice(zeroForOne, amount - fee)
        held == IF zeroForOne THEN Max({next, limit}) ELSE Min({next, limit})
    IN /\ state' = [state EXCEPT !.price = held, !.tick = PoolTickAt(held),
                                 !.growth = IF state.liquidity > 0
                                            THEN @ + fee \div state.liquidity ELSE @]
       /\ Move
       /\ UNCHANGED <<ticks, bits, positions, minted>>

PoolNext ==
    \/ \E id \in PositionIds, l, u \in PoolTicks :
          \/ \E n \in PoolLiquidities : PoolMint(id, l, u, n) \/ PoolBurn(id, l, u, n)
          \/ PoolCollect(id, l, u)
    \/ \E t \in PoolTicks : FlipTick(t) \/ CrossTick(t)
    \/ \E t \in DOMAIN TickPrice : SetPrice(TickPrice[t])
    \/ \E d \in BOOLEAN, a \in PoolInputs, x \in PoolLimits : PoolSwap(d, a, x)

PoolSpec == PoolInit /\ [][PoolNext]_poolVars

\* The counters of the ticks and the positions are written by the same calls
\* but linked by nothing the contract stores: whatever ranges the callers name,
\* the gross liquidity of the ticks is twice the liquidity of the positions,
\* what enters at boundaries leaves at others, and a tick is initialized
\* exactly while liquidity refers to it.
TicksBalance ==
    /\ MapThenSumSet(LAMBDA t : ticks[t].gross, PoolTicks) =
          2 * MapThenSumSet(LAMBDA i : positions[i].liquidity, DOMAIN positions)
    /\ MapThenSumSet(LAMBDA t : ticks[t].net, PoolTicks) = 0
    /\ \A t \in PoolTicks : ticks[t].initialized = (ticks[t].gross > 0)

\* The pool's entries have the types of its storage.
PoolTypeOK ==
    /\ state \in [price : Nat, tick : DOMAIN TickPrice, liquidity : Nat, growth : Nat]
    /\ ticks \in [PoolTicks -> [gross : Nat, net : Int, outside : Int,
                                initialized : BOOLEAN, stored : BOOLEAN]]
    /\ bits \subseteq PoolTicks
    /\ DOMAIN positions \subseteq PositionIds
    /\ \A i \in DOMAIN positions : positions[i] \in [liquidity : Nat \ {0}, last : Int]
=============================================================================
