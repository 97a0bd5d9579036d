------------------------------- MODULE Candles -------------------------------
(* Aggregation of swaps into candles (candles.service.ts): a five-minute     *)
(* candle summarises the swaps of its period, an hour's candle the           *)
(* five-minute candles of its own. A run reads its source once and then      *)
(* writes the pools' candles one by one; the runs of all replicas, a replay  *)
(* of a past period and new swaps interleave. `createdAt` is the time the    *)
(* indexer inserted the swap.                                                *)
EXTENDS Integers, Sequences, SequencesExt

CONSTANTS CandlePools,
          Runners,      \* processes that aggregate
          SwapPrices,   \* prices a swap can be made at
          PerHour,      \* five-minute periods in an hour
          MaxTrades,    \* bound: swaps
          MaxRuns,      \* bound: aggregations
          MaxBreaks     \* bound: writes that fail, processes that die

ASSUME CandleAssumption ==
    /\ SwapPrices \subseteq Nat
    /\ PerHour \in Nat \ {0} /\ MaxTrades \in Nat
    /\ MaxRuns \in Nat /\ MaxBreaks \in Nat

VARIABLES clock,   \* the five-minute period of the present
          swaps,   \* swapProcessed, by pool and period: the prices, in order
          fine,    \* priceCandle '5m': empty, or the candle
          hour,    \* priceCandle '1h' of the hour that is modelled
          runner,  \* what each process is writing
          trades, runs, breaks,
          torn     \* history: an hour was read with a five-minute run unfinished

candleVars == <<clock, swaps, fine, hour, runner, trades, runs, breaks, torn>>

Periods == 0 .. PerHour - 1
Resting == [kind |-> "rest", period |-> 0, todo |-> {}, made |-> [p \in CandlePools |-> {}]]

CandlesInit ==
    /\ clock = 0
    /\ swaps = [p \in CandlePools |-> [t \in Periods |-> <<>>]]
    /\ fine = [p \in CandlePools |-> [t \in Periods |-> {}]]
    /\ hour = [p \in CandlePools |-> {}]
    /\ runner = [w \in Runners |-> Resting]
    /\ trades = 0
    /\ runs = 0
    /\ breaks = 0
    /\ torn = FALSE

-----------------------------------------------------------------------------
(* accumulate *)

\* The amount without its absolute value.
OfSwapSigned(price) == [open |-> price, high |-> price, low |-> price, close |-> price, volume |-> -1]

OfSwap(price) == [open |-> price, high |-> price, low |-> price, close |-> price, volume |-> 1]

\* Keeping the first close.
MergeKeepingClose(c, d) == [c EXCEPT !.high = IF d.high > @ THEN d.high ELSE @,
                                     !.low = IF d.low < @ THEN d.low ELSE @,
                                     !.volume = @ + d.volume]

Merge(c, d) == [c EXCEPT !.high = IF d.high > @ THEN d.high ELSE @,
                         !.low = IF d.low < @ THEN d.low ELSE @,
                         !.close = d.close,
                         !.volume = @ + d.volume]

\* The candle of a non-empty series, none of an empty one.
Summary(cs) == IF cs = <<>> THEN {} ELSE {FoldLeft(Merge, Head(cs), Tail(cs))}

FineSummary(p, t) == Summary([i \in DOMAIN swaps[p][t] |-> OfSwap(swaps[p][t][i])])

\* The hour of p, from the five-minute candles there are, in order.
HourSummary(p) ==
    Summary(FlattenSeq([i \in 1..PerHour |-> IF fine[p][i - 1] = {} THEN <<>>
                                             ELSE <<CHOOSE c \in fine[p][i - 1] : TRUE>>]))

-----------------------------------------------------------------------------
\* The indexer inserts a swap.
RecordSwap(p, price) ==
    /\ clock \in Periods
    /\ trades < MaxTrades
    /\ trades' = trades + 1
    /\ swaps' = [swaps EXCEPT ![p][clock] = Append(@, price)]
    /\ UNCHANGED <<clock, fine, hour, runner, runs, breaks, torn>>

PeriodEnds ==
    /\ clock < PerHour
    /\ clock' = clock + 1
    /\ UNCHANGED <<swaps, fine, hour, runner, trades, runs, breaks, torn>>

\* runExclusive: this process is not at work on this interval and period.
Free(w) == runs < MaxRuns /\ runs' = runs + 1 /\ runner[w].kind = "rest"

Begin(w, kind, t, made) ==
    runner' = [runner EXCEPT ![w] =
        [kind |-> kind, period |-> t, made |-> made,
         todo |-> {p \in CandlePools : made[p] # {}}]]

\* aggregate of the last period, or backfill of an earlier one: the swaps read.
AggregateFine(w, t) ==
    /\ Free(w)
    /\ t < clock
    /\ Begin(w, "5m", t, [p \in CandlePools |-> FineSummary(p, t)])
    /\ UNCHANGED <<clock, swaps, fine, hour, trades, breaks, torn>>

\* assertNoGap: every period of the hour has a candle, of whatever pool.
NoGap == \A t \in Periods : \E p \in CandlePools : fine[p][t] # {}

\* aggregate of an hour that is over; under 'strict' a gap aborts it.
AggregateHour(w, policy) ==
    /\ Free(w)
    /\ clock = PerHour
    /\ policy = "fill" \/ NoGap
    /\ Begin(w, IF policy = "strict" THEN "1h" ELSE "1h-fill", 0,
             [p \in CandlePools |-> HourSummary(p)])
    /\ torn' = (torn \/ policy = "fill" \/ breaks > 0
                     \/ \E v \in Runners : runner[v].kind = "5m")
    /\ UNCHANGED <<clock, swaps, fine, hour, trades, breaks>>

\* upsert of one pool's candle; after the last one the run returns.
Upsert(w, p) ==
    /\ p \in runner[w].todo
    /\ LET r == runner[w]
       IN /\ fine' = IF r.kind = "5m" THEN [fine EXCEPT ![p][r.period] = r.made[p]] ELSE fine
          /\ hour' = IF r.kind # "5m" THEN [hour EXCEPT ![p] = r.made[p]] ELSE hour
          /\ runner' = [runner EXCEPT ![w] = IF r.todo = {p} THEN Resting
                                             ELSE [r EXCEPT !.todo = r.todo \ {p}]]
    /\ UNCHANGED <<clock, swaps, trades, runs, breaks, torn>>

\* A period nobody traded in.
NothingToWrite(w) ==
    /\ runner[w].kind # "rest" /\ runner[w].todo = {}
    /\ runner' = [runner EXCEPT ![w] = Resting]
    /\ UNCHANGED <<clock, swaps, fine, hour, trades, runs, breaks, torn>>

\* An upsert throws, or the process dies: the rest is not written.
BreakOff(w) ==
    /\ breaks < MaxBreaks
    /\ breaks' = breaks + 1
    /\ runner[w].todo # {}
    /\ runner' = [runner EXCEPT ![w] = Resting]
    /\ UNCHANGED <<clock, swaps, fine, hour, trades, runs, torn>>

CandlesNext ==
    \/ \E p \in CandlePools, price \in SwapPrices : RecordSwap(p, price)
    \/ PeriodEnds
    \/ \E w \in Runners, t \in Periods : AggregateFine(w, t)
    \/ \E w \in Runners, policy \in {"strict", "fill"} : AggregateHour(w, policy)
    \/ \E w \in Runners, p \in CandlePools : Upsert(w, p)
    \/ \E w \in Runners : NothingToWrite(w) \/ BreakOff(w)

CandlesSpec == CandlesInit /\ [][CandlesNext]_candleVars

-----------------------------------------------------------------------------
Candle == [open : Nat, high : Nat, low : Nat, close : Nat, volume : Nat]

CandlesTypeOK ==
    /\ clock \in 0..PerHour
    /\ \A p \in CandlePools : \A t \in Periods :
          /\ swaps[p][t] \in Seq(SwapPrices)
          /\ \A c \in fine[p][t] : c \in Candle
    /\ \A p \in CandlePools : \A c \in hour[p] : c \in Candle
    /\ \A w \in Runners : /\ runner[w].kind \in {"rest", "5m", "1h", "1h-fill"}
                          /\ runner[w].period \in Periods
                          /\ runner[w].todo \subseteq CandlePools
    /\ trades \in Nat /\ runs \in Nat /\ breaks \in Nat /\ torn \in BOOLEAN

\* c says what happened: its prices are the first, highest, lowest and last.
Describes(c, series) ==
    LET prices == {series[i] : i \in DOMAIN series}
    IN /\ series # <<>>
       /\ c.open = Head(series) /\ c.close = Last(series)
       /\ {c.high, c.low} \subseteq prices
       /\ \A x \in prices : c.low <= x /\ x <= c.high
       /\ c.volume = Len(series)

\* The trades of p in these periods, in order.
Trades(p, ts) == FlattenSeq([i \in 1..PerHour |-> IF i - 1 \in ts THEN swaps[p][i - 1] ELSE <<>>])

\* A five-minute candle describes exactly the swaps of its period, however often
\* and by whomever it is written again; an hour's candle describes whole
\* periods, and all of them unless it was read while a five-minute run was
\* unfinished or broken off (aggregatePeriod, candles.service.ts:327-388).
CandlesExact ==
    /\ \A p \in CandlePools, t \in Periods : \A c \in fine[p][t] : Describes(c, swaps[p][t])
    /\ \A p \in CandlePools : \A c \in hour[p] :
          \/ Describes(c, Trades(p, Periods))
          \/ torn /\ \E ts \in SUBSET Periods : Describes(c, Trades(p, ts))
=============================================================================
