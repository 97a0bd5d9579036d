------------------------------- MODULE ClPool -------------------------------
(* The concentrated-liquidity pool (cl-pool/src/lib.rs) with the NFTs of its *)
(* positions. Every call is atomic: it is made in full or reverted. The      *)
(* arithmetic is the contract's, on small numbers: One stands for Q96,       *)
(* TickUnits for the 20000 of its linear price model, Word for 2^128.        *)
(* Accounts have the tokens they send; the pool may not.                     *)
EXTENDS PositionNft, FiniteSets, FiniteSetsExt, Folds

CONSTANTS One, TickUnits, Word,
          FeeTier, FeeDenominator,
          MinTick, MaxTick,
          OpeningPrice,
          MaxSwapIterations,
          Liquidities,     \* what a position may add or remove
          Inputs,          \* amount_in of a swap
          Limits,          \* sqrt_price_limit_x96 of a swap
          MaxPositions,    \* bound: positions ever opened
          MaxSwaps         \* bound: swaps

ASSUME ClPoolAssumption ==
    /\ One \in Nat \ {0}
    /\ TickUnits \in Nat \ {0}
    /\ Word \in Nat \ {0, 1}
    /\ FeeTier \in Nat
    /\ FeeDenominator \in Nat \ {0} /\ FeeTier <= FeeDenominator
    /\ MinTick \in Int /\ MaxTick \in Int
    /\ Ticks \subseteq Int
    /\ OpeningPrice \in Nat
    /\ MaxSwapIterations \in Nat
    /\ Liquidities \subseteq Nat
    /\ Inputs \subseteq Nat
    /\ Limits \subseteq Nat
    /\ MaxPositions \in Nat
    /\ MaxSwaps \in Nat

VARIABLES sqrtPrice, current,   \* SqrtPriceX96, CurrentTick
          active,           \* Liquidity
          growth,           \* FeeGrowthGlobal of both tokens
          tick,             \* Ticks: the counters of a boundary
          bitmap,           \* Bitmap: boundaries whose bit is set
          position,         \* Position of the ids in use
          nextPosition,     \* NextPositionId
          held,             \* the pool's balance of both tokens
          swaps

clVars == <<sqrtPrice, current, active, growth, tick, bitmap, position,
            nextPosition, held, swaps, nft, nextNft>>

Tokens == {0, 1}
Unused == [gross |-> 0, net |-> 0, outside |-> [t \in Tokens |-> 0]]

-----------------------------------------------------------------------------
(* Prices, ticks and amounts *)

MaxOf(a, b) == IF a >= b THEN a ELSE b
MinOf(a, b) == IF a <= b THEN a ELSE b
DivUp(a, b) == (a + b - 1) \div b

\* saturating_mul
SaturatingMul(a, b) == MinOf(a * b, Word - 1)

TickToSqrtPrice(t) ==
    IF t >= 0 THEN One + (t * One) \div TickUnits
    ELSE MaxOf(0, One - ((-t) * One) \div TickUnits)

\* Rounded towards zero on both sides of One.
SqrtPriceToTick(p) ==
    LET scaled(d) == (d \div One) * TickUnits + ((d % One) * TickUnits) \div One
    IN IF p = 0 THEN 0 ELSE IF p >= One THEN scaled(p - One) ELSE -scaled(One - p)

\* token0 between two prices; the quotient upper / One is rounded first.
Amount0(a, b, liquidity, up) ==
    LET lower == MinOf(a, b)
        upper == MaxOf(a, b)
        num == SaturatingMul(liquidity, upper - lower)
        den == SaturatingMul(MaxOf(upper \div One, 1), lower)
    IN IF a = b \/ liquidity = 0 THEN 0
       ELSE IF lower = 0 THEN SaturatingMul(liquidity, One) \div upper
       ELSE IF up THEN DivUp(num, den) ELSE num \div den

Amount1(a, b, liquidity, up) ==
    LET num == SaturatingMul(liquidity, MaxOf(a, b) - MinOf(a, b))
    IN IF up THEN DivUp(num, One) ELSE num \div One

\* As if every position straddled the price.
AmountsUnclamped(liquidity, lower, upper) ==
    [t \in Tokens |->
        IF t = 0 THEN (liquidity * One) \div lower - (liquidity * One) \div upper
        ELSE (liquidity * (sqrtPrice - lower)) \div One]

\* What a position of this liquidity takes or returns of each token.
AmountsForLiquidity(liquidity, lower, upper) ==
    LET at == MinOf(MaxOf(sqrtPrice, lower), upper)
    IN [t \in Tokens |->
           IF t = 0 THEN (liquidity * One) \div lower - (liquidity * One) \div upper
           ELSE (liquidity * (at - lower)) \div One]

NextSqrtPrice(p, liquidity, amount, zeroForOne) ==
    IF zeroForOne THEN (liquidity * p) \div (liquidity + (amount * p) \div One)
    ELSE p + (amount * One) \div liquidity

CheckedFee(amount) == (amount * FeeTier) \div FeeDenominator

\* The growth of the token's fees as seen by a range: all of it or none.
GrowthInside(t, lower, upper) ==
    IF lower <= current /\ current < upper THEN growth[t] ELSE 0

-----------------------------------------------------------------------------
(* Ticks *)

\* Boundaries whose bit a change of liquidity turns.
FlippedOnGrowth(lower, upper, delta) ==
    {t \in {lower, upper} : tick[t].gross = 0 /\ delta > 0}

Flipped(lower, upper, delta) ==
    {t \in {lower, upper} : (tick[t].gross = 0) # (tick[t].gross + delta = 0)}

\* update_tick and flip_bitmap for both boundaries of a range: an entry whose
\* gross liquidity is gone is dropped.
UpdateTicks(lower, upper, delta) ==
    LET after(t) ==
            [tick[t] EXCEPT !.gross = @ + delta,
                            !.net = IF t = upper THEN @ - delta ELSE @ + delta]
        flipped == Flipped(lower, upper, delta)
    IN /\ \A t \in {lower, upper} : tick[t].gross + delta >= 0
       /\ tick' = [t \in Ticks |-> IF t \notin {lower, upper} THEN tick[t]
                                   ELSE IF after(t).gross = 0 THEN Unused ELSE after(t)]
       /\ bitmap' = (bitmap \ flipped) \cup (flipped \ bitmap)

\* next_initialized_tick. On chain a search that finds nothing runs out of its
\* budget and the call reverts; without a budget it ends at the boundary.
Initialized(from, downwards) ==
    IF downwards THEN {t \in bitmap : t <= from} ELSE {t \in bitmap : t > from}

-----------------------------------------------------------------------------
(* A swap *)

\* The fee of a segment rounded up.
SegmentFeeUp(amount, liquidity) ==
    IF liquidity = 0 THEN 0 ELSE DivUp(amount * FeeTier, FeeDenominator)

\* accumulate_segment_fee
SegmentFee(amount, liquidity) == IF liquidity = 0 THEN 0 ELSE CheckedFee(amount)

\* The price moves to the end of a segment: a tick, or the caller's limit.
MoveFully(s, zeroForOne, limit, found, next, target, paid, out) ==
    LET fee == SegmentFee(paid, s.liquidity)
        left == s.left - paid
        atLimit == IF zeroForOne THEN target <= limit ELSE target >= limit
        net == tick[next].net
        size == IF net < 0 THEN -net ELSE net
        moved == [s EXCEPT !.price = target, !.left = left, !.out = @ + out,
                           !.fees = @ + fee,
                           !.growth = @ + (fee * One) \div s.liquidity]
    IN IF left = 0 \/ atLimit \/ ~found
       THEN [moved EXCEPT !.done = TRUE]
       ELSE LET liquidity == IF zeroForOne THEN MaxOf(0, s.liquidity - size)
                             ELSE s.liquidity + size
            IN [moved EXCEPT !.liquidity = liquidity, !.current = next,
                             !.crossed = @ \cup {next},
                             !.done = liquidity = 0]

\* The input ends within the segment. next_sqrt is only what the output is
\* computed to: sqrt_price stays, and is what the call stores in the end.
MovePartly(s, zeroForOne) ==
    LET next == NextSqrtPrice(s.price, s.liquidity, s.left, zeroForOne)
        fee == SegmentFee(s.left, s.liquidity)
        out == IF zeroForOne THEN Amount1(s.price, next, s.liquidity, FALSE)
               ELSE Amount0(s.price, next, s.liquidity, FALSE)
    IN [s EXCEPT !.left = 0, !.out = @ + out, !.fees = @ + fee,
                 !.growth = @ + (fee * One) \div s.liquidity, !.done = TRUE]

\* One turn of the loop.
Segment(s, zeroForOne, limit) ==
    LET candidates == Initialized(IF zeroForOne THEN s.current - 1 ELSE s.current,
                                  zeroForOne)
        found == candidates # {}
        next == IF ~found THEN IF zeroForOne THEN MinTick ELSE MaxTick
                ELSE IF zeroForOne THEN Max(candidates) ELSE Min(candidates)
        bound == TickToSqrtPrice(next)
        target == IF zeroForOne THEN MaxOf(bound, limit) ELSE MinOf(bound, limit)
        paid == IF zeroForOne THEN Amount0(s.price, target, s.liquidity, TRUE)
                ELSE Amount1(s.price, target, s.liquidity, TRUE)
        out == IF zeroForOne THEN Amount1(s.price, target, s.liquidity, FALSE)
               ELSE Amount0(s.price, target, s.liquidity, FALSE)
    IN IF s.done THEN s
       ELSE IF Cardinality(s.crossed) >= MaxSwapIterations
       THEN [s EXCEPT !.done = TRUE, !.reverted = TRUE]
       ELSE IF s.left >= paid
       THEN MoveFully(s, zeroForOne, limit, found, next, target, paid, out)
       ELSE MovePartly(s, zeroForOne)

\* swap up to its transfers: what the loop leaves, what the sender pays, and
\* whether the call stands.
SwapResult(zeroForOne, amountIn, limit) ==
    LET base == amountIn - CheckedFee(amountIn)
        start == [price |-> sqrtPrice, current |-> current, liquidity |-> active,
                  left |-> base, out |-> 0, fees |-> 0, growth |-> 0,
                  crossed |-> {}, done |-> FALSE, reverted |-> FALSE]
        turn[n \in 0..(MaxSwapIterations + 1)] ==
            IF n = 0 THEN start ELSE Segment(turn[n - 1], zeroForOne, limit)
        end == turn[MaxSwapIterations + 1]
        traded == base - end.left
        token == IF zeroForOne THEN 1 ELSE 0
    IN IF base = 0 \/ active = 0 THEN [ok |-> FALSE]
       ELSE [ok |-> ~end.reverted /\ end.out <= held[token],
             paid |-> traded + CheckedFee(traded),
             out |-> end.out, fees |-> end.fees, growth |-> end.growth,
             left |-> end.left, price |-> end.price,
             liquidity |-> end.liquidity, crossed |-> end.crossed]

-----------------------------------------------------------------------------
(* Calls *)

ClInit ==
    /\ NftInit
    /\ sqrtPrice = OpeningPrice
    /\ current = SqrtPriceToTick(OpeningPrice)
    /\ active = 0
    /\ growth = [t \in Tokens |-> 0]
    /\ tick = [t \in Ticks |-> Unused]
    /\ bitmap = {}
    /\ position = <<>>
    /\ nextPosition = 0
    /\ held = [t \in Tokens |-> 0]
    /\ swaps = 0

InRange(lower, upper) == lower <= current /\ current < upper

\* add_liquidity
AddLiquidity(owner, lower, upper, liquidity) ==
    /\ nextPosition < MaxPositions
    /\ lower < upper
    /\ liquidity > 0
    /\ TickToSqrtPrice(lower) > 0   \* a quotient by zero reverts the call
    /\ LET amounts == AmountsForLiquidity(liquidity, TickToSqrtPrice(lower),
                                          TickToSqrtPrice(upper))
       IN held' = [t \in Tokens |-> held[t] + amounts[t]]
    /\ UpdateTicks(lower, upper, liquidity)
    /\ active' = IF InRange(lower, upper) THEN active + liquidity ELSE active
    /\ MintNft(owner, lower, upper, liquidity)
    /\ position' = With(position, nextPosition,
                        [lower |-> lower, upper |-> upper, liquidity |-> liquidity,
                         last |-> [t \in Tokens |-> GrowthInside(t, lower, upper)],
                         nft |-> nextNft])
    /\ nextPosition' = nextPosition + 1
    /\ UNCHANGED <<sqrtPrice, current, growth, swaps>>

\* swap. The ticks crossed turn their growth outside before the growth of this
\* swap is added.
ClSwap(zeroForOne, amountIn, limit) ==
    LET result == SwapResult(zeroForOne, amountIn, limit)
        input == IF zeroForOne THEN 0 ELSE 1
    IN /\ swaps < MaxSwaps
       /\ result.ok
       /\ sqrtPrice' = result.price
       /\ current' = SqrtPriceToTick(result.price)
       /\ active' = result.liquidity
       /\ growth' = [growth EXCEPT ![input] = @ + result.growth]
       /\ tick' = [t \in Ticks |->
                      IF t \notin result.crossed THEN tick[t]
                      ELSE [tick[t] EXCEPT !.outside =
                               [k \in Tokens |-> (growth[k] - @[k]) % Word]]]
       /\ held' = [t \in Tokens |-> IF t = input THEN held[t] + result.paid
                                    ELSE held[t] - result.out]
       /\ swaps' = swaps + 1
       /\ UNCHANGED <<bitmap, position, nextPosition, nft, nextNft>>

\* require_position_owner: the NFT's metadata says the same as the position.
OwnedBy(owner, id) ==
    /\ id \in DOMAIN position
    /\ LET p == position[id]
       IN /\ p.nft \in DOMAIN nft
          /\ nft[p.nft] = [owner |-> owner, lower |-> p.lower, upper |-> p.upper,
                           liquidity |-> p.liquidity]

\* collect: the difference of growths wraps, the product must not.
Collect(owner, id) ==
    /\ OwnedBy(owner, id)
    /\ LET p == position[id]
           inside == [t \in Tokens |-> GrowthInside(t, p.lower, p.upper)]
           product == [t \in Tokens |-> ((inside[t] - p.last[t]) % Word) * p.liquidity]
           owed == [t \in Tokens |-> product[t] \div One]
       IN /\ \A t \in Tokens : product[t] < Word /\ owed[t] <= held[t]
          /\ position' = [position EXCEPT ![id].last = inside]
          /\ held' = [t \in Tokens |-> held[t] - owed[t]]
    /\ UNCHANGED <<sqrtPrice, current, active, growth, tick, bitmap, nextPosition,
                   swaps, nft, nextNft>>

\* remove_liquidity
RemoveLiquidity(owner, id, liquidity) ==
    /\ OwnedBy(owner, id)
    /\ 0 < liquidity /\ liquidity <= position[id].liquidity
    /\ LET p == position[id]
           amounts == AmountsForLiquidity(liquidity, TickToSqrtPrice(p.lower),
                                          TickToSqrtPrice(p.upper))
           rest == p.liquidity - liquidity
       IN /\ \A t \in Tokens : amounts[t] <= held[t]
          /\ held' = [t \in Tokens |-> held[t] - amounts[t]]
          /\ UpdateTicks(p.lower, p.upper, -liquidity)
          /\ active' = IF InRange(p.lower, p.upper) THEN MaxOf(0, active - liquidity)
                       ELSE active
          /\ IF rest = 0
             THEN BurnNft(p.nft) /\ position' = Without(position, id)
             ELSE /\ UpdateNft(p.nft, rest)
                  /\ position' = [position EXCEPT ![id].liquidity = rest]
    /\ UNCHANGED <<sqrtPrice, current, growth, nextPosition, swaps>>

\* The owner of a token hands it, and with it the position, to another.
HandOn(from, to, id) ==
    /\ TransferNft(from, to, id)
    /\ UNCHANGED <<sqrtPrice, current, active, growth, tick, bitmap, position,
                   nextPosition, held, swaps>>

ClNext ==
    \/ \E o \in Owners, l, u \in Ticks, n \in Liquidities : AddLiquidity(o, l, u, n)
    \/ \E d \in BOOLEAN, a \in Inputs, x \in Limits : ClSwap(d, a, x)
    \/ \E o \in Owners, id \in DOMAIN position :
          \/ Collect(o, id)
          \/ \E n \in Liquidities : RemoveLiquidity(o, id, n)
    \/ \E from, to \in Owners, id \in DOMAIN nft : HandOn(from, to, id)

ClSpec == ClInit /\ [][ClNext]_clVars

-----------------------------------------------------------------------------
(* Properties *)

\* The pool's state has the types of its storage entries.
ClTypeOK ==
    /\ sqrtPrice \in Nat /\ current \in Int /\ active \in Nat
    /\ growth \in [Tokens -> Nat] /\ held \in [Tokens -> Nat]
    /\ tick \in [Ticks -> [gross : Nat, net : Int, outside : [Tokens -> Nat]]]
    /\ bitmap \subseteq Ticks
    /\ DOMAIN position \subseteq 0..(nextPosition - 1)
    /\ \A id \in DOMAIN position :
          position[id] \in [lower : Ticks, upper : Ticks, liquidity : Nat,
                            last : [Tokens -> Nat], nft : Nat]
    /\ DOMAIN nft \subseteq 0..(nextNft - 1)
    /\ \A id \in DOMAIN nft :
          nft[id] \in [owner : Owners, lower : Ticks, upper : Ticks, liquidity : Nat]

\* The liquidity of the positions of a set of ids.
LiquidityOf(ids) == MapThenSumSet(LAMBDA id : position[id].liquidity, ids)

\* After any history of adding, shrinking and closing positions that share
\* boundaries, the counters update_tick keeps at a boundary are the sums over
\* the positions that begin and end there, and the bit flip_bitmap keeps is set
\* exactly while one does: a swap stops at every boundary and at no other.
TicksMatchPositions ==
    \A t \in Ticks :
       LET begin == {id \in DOMAIN position : position[id].lower = t}
           end == {id \in DOMAIN position : position[id].upper = t}
       IN /\ tick[t].gross = LiquidityOf(begin) + LiquidityOf(end)
          /\ tick[t].net = LiquidityOf(begin) - LiquidityOf(end)
          /\ (t \in bitmap) = (begin \cup end # {})

\* Each position of the pool has one token of its own whose metadata says what
\* the position says, through partial removals and transfers, and each token
\* has a position: require_position_owner lets the token's owner, and nobody
\* else, act on the position, and never locks the owner out.
NftMatchesPosition ==
    /\ \A id \in DOMAIN position :
          /\ position[id].nft \in DOMAIN nft
          /\ LET n == nft[position[id].nft]
             IN <<n.lower, n.upper, n.liquidity>> =
                <<position[id].lower, position[id].upper, position[id].liquidity>>
    /\ \A i, j \in DOMAIN position : position[i].nft = position[j].nft => i = j
    /\ \A n \in DOMAIN nft : \E id \in DOMAIN position : position[id].nft = n

\* Whatever a swap would be given now, it charges at most amount_in, refunds
\* what the limit left, and credits to positions no more fees than the sender
\* paid, although it rounds the fee segment by segment.
SwapChargesFairly ==
    \A d \in BOOLEAN, a \in Inputs, x \in Limits :
       LET r == SwapResult(d, a, x)
       IN r.ok => /\ r.paid <= a
                  /\ r.left > 0 => r.paid < a
                  /\ r.fees <= CheckedFee(a - CheckedFee(a) - r.left)

\* "crossing a tick adjusts active liquidity by `liquidity_net`": entering a
\* range adds its liquidity and leaving it takes it away, in both directions.
\* The code takes the absolute value (net_at_tick).
CrossingAppliesNet ==
    \A d \in BOOLEAN, a \in Inputs, x \in Limits :
       LET r == SwapResult(d, a, x)
           net == MapThenSumSet(LAMBDA t : tick[t].net, r.crossed)
       IN r.ok => r.liquidity = IF d THEN active - net ELSE active + net

\* "A swap is a single price move that consumes input": with a limit on its side
\* of the price, a swap that gives out tokens moves the price, down from token0 to
\* token1 and up the other way. The code leaves the price where it was when the
\* input ends within a segment.
SwapMovesPrice ==
    \A d \in BOOLEAN, a \in Inputs, x \in Limits :
       LET r == SwapResult(d, a, x)
       IN r.ok /\ r.out > 0 =>
             /\ d /\ x < sqrtPrice => r.price < sqrtPrice
             /\ ~d /\ x > sqrtPrice => r.price > sqrtPrice
=============================================================================
