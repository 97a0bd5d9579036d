------------------------------ MODULE TickMath ------------------------------
(* The integer arithmetic of the contracts: two square roots, the price of a *)
(* tick and the search for the tick of a price, math-lib, and the bitmap of   *)
(* initialized ticks. A loop is a function of its variables; u128 has        *)
(* MathWord values, and PriceWord where prices are computed.                 *)
EXTENDS ClPool

CONSTANTS MathWord,
          Scale, Root,            \* 10^12, and its square root
          StepNum, StepDen,       \* 10001 / 10000
          MathOne,                \* Q96
          LowTick, HighTick,      \* MIN_TICK, MAX_TICK
          PriceWord,              \* values of u128 where prices are computed
          Probes,                 \* arguments to try
          LibOne,                 \* Q96 of math-lib
          LibLiquidities, LibPrices, LibInputs

ASSUME MathAssumption ==
    /\ MathWord \in Nat \ {0} /\ Scale = Root * Root /\ Root \in Nat \ {0}
    /\ StepDen \in Nat \ {0} /\ StepNum \in Nat /\ MathOne \in Nat
    /\ LowTick \in Int /\ HighTick \in Int /\ LowTick <= HighTick
    /\ PriceWord \in Nat \ {0}
    /\ Probes \subseteq 0..(MathWord - 2)
    /\ LibOne \in Nat \ {0} /\ LibLiquidities \cup LibPrices \cup LibInputs \subseteq Nat

VARIABLE probe

MathInit == probe \in Probes
\* The next call of the pure functions, with another argument.
MathNext == probe' \in Probes
MathSpec == MathInit /\ [][MathNext]_probe

\* integer_sqrt, halving; the square of the middle saturates.
IntegerSqrt(n) ==
    LET root[s \in [low : 1..(n + 1), high : 0..n, result : 0..n]] ==
            LET mid == (s.low + s.high) \div 2
                square == IF mid * mid < MathWord THEN mid * mid ELSE MathWord - 1
            IN IF s.low > s.high THEN s.result
               ELSE IF square = n THEN mid
               ELSE IF square < n THEN root[[low |-> mid + 1, high |-> s.high, result |-> mid]]
               ELSE root[[low |-> s.low, high |-> mid - 1, result |-> s.result]]
    IN IF n \in {0, 1} THEN n ELSE root[[low |-> 1, high |-> n, result |-> 0]]

\* isqrt, Newton's iteration from above.
Isqrt(n) ==
    LET root[x \in 1..n] ==
            LET y == (x + n \div x) \div 2 IN IF y < x THEN root[y] ELSE x
    IN IF n = 0 THEN 0 ELSE root[n]

\* saturating_mul, then what was asked of it.
Capped(n) == IF n < PriceWord THEN n ELSE PriceWord - 1

\* 1.0001^abs by squaring, at Scale.
Powered(abs) ==
    LET power[s \in [result : Nat, base : Nat, exp : 0..abs]] ==
            IF s.exp = 0 THEN s.result
            ELSE power[[result |-> IF s.exp % 2 = 1
                                   THEN Capped(s.result * s.base) \div Scale ELSE s.result,
                        base |-> Capped(s.base * s.base) \div Scale,
                        exp |-> s.exp \div 2]]
    IN power[[result |-> Scale, base |-> (StepNum * Scale) \div StepDen, exp |-> abs]]

\* tick_to_sqrt_price of the pool.
PriceOfTick(t) ==
    LET root == Isqrt(Powered(IF t < 0 THEN -t ELSE t))
    IN IF t = 0 THEN MathOne
       ELSE IF t > 0 THEN Capped(root * (MathOne \div Root))
       ELSE IF root = 0 THEN MathOne ELSE Capped(MathOne * Root) \div root

\* The ticks a search is left with.
TickRanges == [lo : LowTick..HighTick, hi : LowTick..HighTick]

\* The search that goes up only from a price below.
TickOfPriceBelow(p) ==
    LET search[s \in TickRanges] ==
            LET mid == s.lo + (s.hi - s.lo + 1) \div 2
            IN IF s.lo >= s.hi THEN s.lo
               ELSE IF PriceOfTick(mid) < p THEN search[[lo |-> mid, hi |-> s.hi]]
               ELSE search[[lo |-> s.lo, hi |-> mid - 1]]
    IN IF p = 0 THEN LowTick ELSE search[[lo |-> LowTick, hi |-> HighTick]]

\* sqrt_price_to_tick of the pool.
TickOfPrice(p) ==
    LET search[s \in TickRanges] ==
            LET mid == s.lo + (s.hi - s.lo + 1) \div 2
            IN IF s.lo >= s.hi THEN s.lo
               ELSE IF PriceOfTick(mid) <= p THEN search[[lo |-> mid, hi |-> s.hi]]
               ELSE search[[lo |-> s.lo, hi |-> mid - 1]]
    IN IF p = 0 THEN LowTick ELSE search[[lo |-> LowTick, hi |-> HighTick]]

\* sqrt_price_to_tick answers a price of zero without a search.
ASSUME LowestPriceAssumption == LowTick < HighTick => PriceOfTick(LowTick + 1) > 0

-----------------------------------------------------------------------------
(* math-lib. Every operation is checked: an error is the negated code of      *)
(* MathError, and the first one is the result.                                *)
Overflow == -3
Underflow == -4
DivisionByZero == -5

Failed(a, b) == IF a < 0 THEN a ELSE b
Checked(n) == IF n < MathWord THEN n ELSE Overflow
Plus(a, b) == IF a < 0 \/ b < 0 THEN Failed(a, b) ELSE Checked(a + b)
Less(a, b) == IF a < 0 \/ b < 0 THEN Failed(a, b) ELSE IF a < b THEN Underflow ELSE a - b
Times(a, b) == IF a < 0 \/ b < 0 THEN Failed(a, b) ELSE Checked(a * b)
Over(a, b) == IF a < 0 \/ b < 0 THEN Failed(a, b) ELSE IF b = 0 THEN DivisionByZero ELSE a \div b

\* liquidity / price
Virtual0(liquidity, price) == Over(Times(liquidity, LibOne), price)

\* get_amount_0_delta
Amount0Delta(liquidity, lower, upper, price) ==
    IF liquidity = 0 \/ lower = upper THEN 0
    ELSE IF price <= lower THEN Virtual0(liquidity, lower)
    ELSE IF price < upper THEN Less(Virtual0(liquidity, price), Virtual0(liquidity, lower))
    ELSE Less(Virtual0(liquidity, lower), Virtual0(liquidity, upper))

\* With the whole range, wherever the price is.
Amount1Whole(liquidity, lower, upper, price) ==
    IF price <= lower THEN 0 ELSE Over(Times(liquidity, upper - lower), LibOne)

\* get_amount_1_delta
Amount1Delta(liquidity, lower, upper, price) ==
    IF liquidity = 0 \/ (price <= lower /\ price < upper) THEN 0
    ELSE Over(Times(liquidity, (IF price >= upper THEN upper ELSE price) - lower), LibOne)

\* next_sqrt_price_0
NextSqrtPrice0(price, liquidity, in, zeroForOne) ==
    IF liquidity = 0 THEN DivisionByZero
    ELSE IF zeroForOne THEN Less(price, Over(Times(liquidity, in), price))
    ELSE Over(Times(liquidity, LibOne), Plus(Over(Times(liquidity, price), LibOne), in))

\* next_sqrt_price_1
NextSqrtPrice1(price, liquidity, in, zeroForOne) ==
    LET quotient == Over(Times(in, LibOne), liquidity)
    IN IF liquidity = 0 THEN DivisionByZero
       ELSE IF zeroForOne THEN Plus(price, quotient) ELSE Less(price, quotient)

\* What math-lib answers fits together: a range cut in two holds as much token1 as
\* the whole but for one unit of rounding, below the price, within and above, and
\* exactly as much token0 when the price is above; an amount that moves the price
\* pays for the move, the price comes back when it is taken out, and a larger one
\* moves it no less far (math-lib/src/lib.rs:191-378).
LibraryAgrees ==
    \A l \in LibLiquidities, lower, middle, upper \in LibPrices :
        lower <= middle /\ middle <= upper =>
            LET whole0 == Amount0Delta(l, lower, upper, probe)
                parts0 == Plus(Amount0Delta(l, lower, middle, probe),
                               Amount0Delta(l, middle, upper, probe))
                whole1 == Amount1Delta(l, lower, upper, probe)
                parts1 == Plus(Amount1Delta(l, lower, middle, probe),
                               Amount1Delta(l, middle, upper, probe))
            IN /\ whole1 >= 0 => whole1 - parts1 \in {0, 1}
               /\ probe >= upper /\ whole0 >= 0 => whole0 = parts0
PricesMove ==
    \A l \in LibLiquidities, in, more \in LibInputs :
        LET next == NextSqrtPrice1(probe, l, in, TRUE)
        IN /\ next >= 0 => /\ NextSqrtPrice1(next, l, in, FALSE) = probe
                           /\ Amount1Delta(l, probe, next, next) <= in
           /\ in <= more => \A zeroForOne \in BOOLEAN :
                 LET near == NextSqrtPrice0(probe, l, in, zeroForOne)
                     far == NextSqrtPrice0(probe, l, more, zeroForOne)
                 IN near >= 0 /\ far >= 0 => near >= far

\* Both square roots are the floor of the root, for every argument but the
\* largest of the word, and the search answers a tick whose price is not above
\* the one given while its neighbour's is. And the amounts and prices of math-lib
\* fit together.
RootsAgree ==
    /\ LET r == Isqrt(probe)
       IN r * r <= probe /\ probe < (r + 1) * (r + 1) /\ IntegerSqrt(probe) = r
    /\ LET t == TickOfPrice(probe)
       IN /\ t \in LowTick..HighTick
          /\ t = LowTick \/ PriceOfTick(t) <= probe
          /\ t = HighTick \/ probe < PriceOfTick(t + 1)
    /\ LibraryAgrees /\ PricesMove

-----------------------------------------------------------------------------
(* The bitmap of initialized ticks in both pool contracts: one bit for each   *)
(* multiple of the spacing, WordBits of them to a word, and the search for    *)
(* the next bit. A word is the set of its bits that are set.                  *)
CONSTANTS WordBits,         \* 128
          Spacing,          \* tick_spacing
          BitLow, BitHigh   \* MIN_TICK, MAX_TICK

ASSUME BitmapAssumption ==
    /\ WordBits \in Nat \ {0} /\ Spacing \in Nat \ {0}
    /\ BitLow \in Int /\ BitHigh \in Nat /\ BitLow <= 0

VARIABLES contract,  \* which contract's bitmap
          words,     \* Bitmap
          marked     \* history: ticks flipped an odd number of times

bitmapVars == <<contract, words, marked>>

\* Rust's division.
Truncated(t) == IF t >= 0 THEN t \div Spacing ELSE -((-t) \div Spacing)

\* cl-pool with the division as it is.
CompressedToZero(t) == Truncated(t)

\* compressed_tick of cl-pool; pool divides.
Compressed(t) == IF contract = "cl-pool" THEN t \div Spacing ELSE Truncated(t)

\* tick_position
WordOf(compressed) == compressed \div WordBits
BitOf(compressed) == compressed % WordBits

TickAt(w, b) == (w * WordBits + b) * Spacing

Words == WordOf(BitLow \div Spacing)..WordOf(BitHigh \div Spacing + 1)

BitmapInit ==
    /\ contract \in {"pool", "cl-pool"}
    /\ words = [w \in Words |-> {}]
    /\ marked = {}

\* flip_tick, flip_bitmap of a boundary that changed sides
Flip(t) ==
    /\ t \in BitLow..BitHigh /\ t % Spacing = 0
    /\ LET bit == {BitOf(Compressed(t))}
       IN words' = [words EXCEPT ![WordOf(Compressed(t))] = (@ \ bit) \cup (bit \ @)]
    /\ marked' = (marked \ {t}) \cup ({t} \ marked)
    /\ UNCHANGED contract

BitmapNext == \E t \in BitLow..BitHigh : Flip(t)

BitmapSpec == BitmapInit /\ [][BitmapNext]_bitmapVars

\* The words after the first that a search reads: pool stops at the words of
\* MIN_TICK and MAX_TICK.
Scanned(from, lte) ==
    {w \in Words : /\ IF lte THEN w < from ELSE w > from
                   /\ contract = "pool" => w \in WordOf(Truncated(BitLow))..WordOf(Truncated(BitHigh))}

\* next_initialized_tick
NextInitializedTick(t, lte) ==
    LET from == IF lte THEN Compressed(t) ELSE Compressed(t) + 1
        here == {b \in words[WordOf(from)] : IF lte THEN b <= BitOf(from) ELSE b >= BitOf(from)}
        others == {w \in Scanned(WordOf(from), lte) : words[w] # {}}
        nearest(S) == IF lte THEN Max(S) ELSE Min(S)
    IN IF here # {} THEN <<TickAt(WordOf(from), nearest(here)), TRUE>>
       ELSE IF others # {} THEN <<TickAt(nearest(others), nearest(words[nearest(others)])), TRUE>>
       ELSE <<IF lte THEN BitLow ELSE BitHigh, FALSE>>

-----------------------------------------------------------------------------
BitmapTypeOK ==
    /\ contract \in {"pool", "cl-pool"}
    /\ words \in [Words -> SUBSET (0..(WordBits - 1))]
    /\ marked \subseteq BitLow..BitHigh

\* The bits are the ticks that were flipped an odd number of times, across words
\* and below zero; and from every tick, aligned or not, the search finds the next
\* of them, at the tick or below and above it, and the end of the range without
\* one (tick_position and next_initialized_tick, cl-pool/src/lib.rs:863-1040,
\* pool/src/lib.rs:239-297). pool takes a tick for the multiple nearest to zero.
BitmapExact ==
    /\ UNION {{TickAt(w, b) : b \in words[w]} : w \in Words} = marked
    /\ \A t \in BitLow..BitHigh :
          LET seen == IF contract = "pool" THEN Truncated(t) * Spacing ELSE t
              below == {m \in marked : m <= seen}
              above == {m \in marked : m > seen}
          IN /\ NextInitializedTick(t, TRUE) =
                   IF below = {} THEN <<BitLow, FALSE>> ELSE <<Max(below), TRUE>>
             /\ NextInitializedTick(t, FALSE) =
                   IF above = {} THEN <<BitHigh, FALSE>> ELSE <<Min(above), TRUE>>

-----------------------------------------------------------------------------
(* What the SDK computes of a concentrated-liquidity pool off chain          *)
(* (packages/sdk/src/position-math.ts) and the API's TVL from it             *)
(* (apps/api/src/stats/pool-tvl.ts), beside the contract it computes about.  *)
(* Its integers have no width.                                               *)

CONSTANTS SdkPrices,   \* prices to convert
          SdkAmounts   \* amounts of a token to open a position with

ASSUME SdkAssumption == SdkPrices \subseteq Nat \ {0} /\ SdkAmounts \subseteq Nat

\* tickToSqrtPriceX96
TickToSqrtPriceX96(t) ==
    LET sub == ((-t) * One) \div TickUnits
    IN IF t >= 0 THEN One + (t * One) \div TickUnits
       ELSE IF sub >= One THEN 1 ELSE One - sub

\* sqrtPriceX96ToTick
SqrtPriceX96ToTick(p) ==
    IF p >= One THEN ((p - One) * TickUnits) \div One
    ELSE -(((One - p) * TickUnits) \div One)

\* getAmountsForLiquidity
GetAmountsForLiquidity(p, lower, upper, liquidity) ==
    LET token0(a, b) == (liquidity * One) \div a - (liquidity * One) \div b
        token1(a, b) == (liquidity * (b - a)) \div One
    IN [t \in Tokens |->
           IF t = 0 THEN IF p <= lower THEN token0(lower, upper)
                         ELSE IF p >= upper THEN 0 ELSE token0(lower, p)
           ELSE IF p <= lower THEN 0 ELSE token1(lower, MinOf(p, upper))]

\* getLiquidityForAmounts
GetLiquidityForAmounts(p, lower, upper, amount0, amount1) ==
    LET of0(a) == (amount0 * a * upper) \div (One * (upper - a))
        of1(b) == (amount1 * One) \div (b - lower)
    IN IF p <= lower THEN of0(lower)
       ELSE IF p >= upper THEN of1(upper)
       ELSE MinOf(of0(p), of1(p))

\* calculatePoolTvl up to the prices of the tokens.
PoolReserves ==
    LET of == [id \in DOMAIN position |->
                  GetAmountsForLiquidity(sqrtPrice, TickToSqrtPriceX96(position[id].lower),
                      TickToSqrtPriceX96(position[id].upper), position[id].liquidity)]
    IN [t \in Tokens |-> MapThenSumSet(LAMBDA id : of[id][t], DOMAIN position)]

\* The SDK converts prices and ticks as the contract does; the token1 the API
\* counts for a pool is what closing every position would return of it; and
\* liquidity computed from two amounts never costs more token1 than given.
\* (token0 differs: see the README.)
SdkAgrees ==
    /\ \A p \in SdkPrices : SqrtPriceX96ToTick(p) = SqrtPriceToTick(p)
    /\ \A t \in Ticks : TickToSqrtPriceX96(t) = MaxOf(1, TickToSqrtPrice(t))
    /\ LET closing == [id \in DOMAIN position |->
                          AmountsForLiquidity(position[id].liquidity,
                              TickToSqrtPrice(position[id].lower),
                              TickToSqrtPrice(position[id].upper))]
       IN PoolReserves[1] = MapThenSumSet(LAMBDA id : closing[id][1], DOMAIN position)
    /\ \A l, u \in Ticks : \A a, b \in SdkAmounts :
           LET lower == TickToSqrtPrice(l)
               upper == TickToSqrtPrice(u)
               liquidity == GetLiquidityForAmounts(sqrtPrice, lower, upper, a, b)
           IN lower < upper => AmountsForLiquidity(liquidity, lower, upper)[1] <= b
=============================================================================
