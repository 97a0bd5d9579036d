----------------------------- MODULE CandleChart -----------------------------
(* The price chart (web, hooks/usePriceCandles.ts) and what the API answers    *)
(* it (price.service.ts): the candles of a pair, asked for at each choice of a *)
(* pair and an interval, nothing of which is called off by the next choice;    *)
(* and a socket whose price events are merged into them.                       *)
EXTENDS Integers, SequencesExt

CONSTANTS Pairs, Steps, \* what can be chosen: a pair, and the length of a bucket
          Rows,         \* priceCandle: times of a pair's rows
          Clock,        \* Date.now()
          Window,       \* 168
          Stamps,       \* whether the API's candles and events carry the time
                        \* under the name the hook reads
          MaxChoices, MaxLive, MaxCuts  \* bounds: choices, events, lost sockets

ASSUME ChartAssumption ==
    /\ Steps \subseteq Nat \ {0} /\ Rows \subseteq Nat
    /\ Window \in Nat \ {0} /\ Clock \in Nat /\ \A s \in Steps : Window * s <= Clock
    /\ Stamps \subseteq BOOLEAN /\ {MaxChoices, MaxLive, MaxCuts} \subseteq Nat

VARIABLES stamped,    \* which of Stamps the API is
          chosen,     \* the pair and the interval
          candles,    \* the series shown
          shownPool,     \* the pool to subscribe to, known from a response
          asked,      \* requests in flight
          waiting,    \* loading
          wire,     \* the WebSocket of the effect that runs
          drawn,      \* history: the choice the series was begun for
          choices, ticks, cuts

chartVars == <<stamped, chosen, candles, shownPool, asked, waiting, wire, drawn,
               choices, ticks, cuts>>

NoPair == "none"
NoChoice == [pair |-> NoPair, step |-> 1]
NoWire == [state |-> "none", timer |-> FALSE, room |-> NoPair]
Connecting == [NoWire EXCEPT !.state = "connecting"]
NoTime == -1

ChartInit ==
    /\ stamped \in Stamps
    /\ chosen = NoChoice /\ drawn = NoChoice
    /\ candles = <<>>
    /\ shownPool = NoPair
    /\ asked = {} /\ waiting = FALSE
    /\ wire = NoWire
    /\ choices = 0 /\ ticks = 0 /\ cuts = 0

-----------------------------------------------------------------------------
(* The API *)

Bar(time, close, of) == [time |-> time, close |-> close, gap |-> FALSE, of |-> of]

\* fillCandleGaps over the default range: every bucket from the oldest on, at most
\* Window of them, with null (read as 0) where there is no row.
FillCandleGaps(pair, step) ==
    LET first == (Clock - Window * step) \div step
        last == Clock \div step
    IN [i \in 1..Min({Window, last - first + 1}) |->
           LET time == (first + i - 1) * step
           IN Bar(time, IF time \in Rows THEN time + 1 ELSE 0, pair)]

-----------------------------------------------------------------------------
(* The series *)

\* fillGaps: flat candles for the buckets between two that are apart. No time
\* compares as smaller than a missing one.
Flats(s, i, step) ==
    IF i = Len(s) \/ s[i].time = NoTime THEN <<>>
    ELSE [k \in 1..Max({0, (s[i + 1].time - s[i].time - 1) \div step}) |->
             [s[i] EXCEPT !.time = @ + k * step, !.gap = TRUE]]
FillGaps(s, step) == FlattenSeq([i \in 1..Len(s) |-> <<s[i]>> \o Flats(s, i, step)])

\* sanitize, after the filter of isApiCandle.
Sanitize(s, step) ==
    FlattenSeq([i \in DOMAIN s |-> IF stamped /\ s[i].time > 0 /\ s[i].time <= Clock + step
                                   THEN <<s[i]>> ELSE <<>>])

Real(s) == FlattenSeq([i \in DOMAIN s |-> IF s[i].gap THEN <<>> ELSE <<s[i]>>])

\* The live path without Rule 1.
MergeBare(prev, incoming, step) ==
    IF prev = <<>> THEN <<incoming>>
    ELSE IF incoming.time < Last(prev).time THEN prev
    ELSE IF incoming.time = Last(prev).time THEN Append(Front(prev), incoming)
    ELSE Append(prev, incoming)

\* mergeLiveCandle
MergeLiveCandle(prev, incoming, step) ==
    IF prev = <<>> THEN <<incoming>>
    ELSE IF incoming.time < Last(prev).time THEN prev
    ELSE IF incoming.time = Last(prev).time THEN Append(Front(prev), incoming)
    ELSE LET withGap == FillGaps(Append(prev, incoming), step)
             real == Real(withGap)
         IN IF Len(real) <= Window THEN withGap
            ELSE FillGaps(SubSeq(real, Len(real) - Window + 1, Len(real)), step)

-----------------------------------------------------------------------------
(* The hook *)

\* The socket effect runs again: the old socket is closed and its timer cleared.
Rejoin(pair) == wire' = IF pair = NoPair THEN NoWire ELSE Connecting

\* Another pair or interval, or none: the series is cleared, a request sent.
Choose(pair, step) ==
    /\ choices < MaxChoices
    /\ choices' = choices + 1
    /\ chosen' = [pair |-> pair, step |-> step]
    /\ chosen' # chosen
    /\ drawn' = chosen'
    /\ candles' = <<>>
    /\ shownPool' = NoPair
    /\ IF pair = NoPair THEN UNCHANGED <<asked, waiting>>
       ELSE asked' = asked \cup {[pair |-> pair, step |-> step, n |-> choices]} /\ waiting' = TRUE
    /\ Rejoin(pair)
    /\ UNCHANGED <<stamped, ticks, cuts>>

\* fetch168 goes on with its answer, whatever was chosen meanwhile: the candles,
\* a refusal, or an exception.
Respond(r) ==
    /\ asked' = asked \ {r}
    /\ waiting' = FALSE
    /\ \/ /\ candles' = FillGaps(Sanitize(FillCandleGaps(r.pair, r.step), r.step), r.step)
          /\ shownPool' = r.pair
          /\ drawn' = [pair |-> r.pair, step |-> r.step]
       \/ /\ candles' = <<>>
          /\ shownPool' \in {shownPool, NoPair}
          /\ drawn' = chosen
    /\ IF shownPool' # shownPool THEN Rejoin(chosen.pair) ELSE UNCHANGED wire
    /\ UNCHANGED <<stamped, chosen, choices, ticks, cuts>>

\* onopen
Opened ==
    /\ wire.state = "connecting"
    /\ wire' = [wire EXCEPT !.state = "open", !.room = shownPool]
    /\ UNCHANGED <<stamped, chosen, candles, shownPool, asked, waiting, drawn, choices, ticks, cuts>>

\* The socket cannot be made, fails or closes: scheduleReconnect.
Cut ==
    /\ cuts < MaxCuts
    /\ cuts' = cuts + 1
    /\ wire.state \in {"connecting", "open"}
    /\ wire' = [NoWire EXCEPT !.state = "closed", !.timer = TRUE]
    /\ UNCHANGED <<stamped, chosen, candles, shownPool, asked, waiting, drawn, choices, ticks>>

Reconnect ==
    /\ wire.timer
    /\ wire' = Connecting
    /\ UNCHANGED <<stamped, chosen, candles, shownPool, asked, waiting, drawn, choices, ticks, cuts>>

\* onmessage: a price event of the pool subscribed to, taken for a candle. The hook
\* takes for granted that a time it carries is the start of a bucket, and so does
\* the model; the stamps of price.service.ts:19 are not aligned.
Live(time) ==
    /\ ticks < MaxLive
    /\ ticks' = ticks + 1
    /\ wire.state = "open" /\ wire.room # NoPair /\ wire.room = shownPool
    /\ time % chosen.step = 0
    /\ candles' = MergeLiveCandle(candles, Bar(IF stamped THEN time ELSE NoTime, time, shownPool),
                                  chosen.step)
    /\ drawn' = IF candles = <<>> THEN chosen ELSE drawn
    /\ UNCHANGED <<stamped, chosen, shownPool, asked, waiting, wire, choices, cuts>>

ChartNext ==
    \/ \E pair \in Pairs, step \in Steps : Choose(pair, step)
    \/ Choose(NoPair, 1)
    \/ \E r \in asked : Respond(r)
    \/ Opened \/ Cut \/ Reconnect
    \/ \E time \in 1..(Clock + 2) : Live(time)

ChartSpec == ChartInit /\ [][ChartNext]_chartVars

-----------------------------------------------------------------------------
ChartTypeOK ==
    /\ stamped \in BOOLEAN
    /\ {chosen, drawn} \subseteq [pair : Pairs \cup {NoPair}, step : Steps \cup {1}]
    /\ \A i \in 1..Len(candles) :
          candles[i] \in [time : Int, close : Nat, gap : BOOLEAN, of : Pairs]
    /\ shownPool \in Pairs \cup {NoPair}
    /\ asked \subseteq [pair : Pairs, step : Steps, n : Nat]
    /\ waiting \in BOOLEAN
    /\ wire \in [state : {"none", "connecting", "open", "closed"}, timer : BOOLEAN,
                   room : Pairs \cup {NoPair}]
    /\ {choices, ticks, cuts} \subseteq Nat

\* Over late answers, choices and lost sockets the chart is of one pool, the one it
\* is subscribed to; its buckets follow one another without a hole, the flat ones at
\* the last close, at most Window of them real; it waits only for a request that is
\* out, and a chosen pair has a socket or a timer that will open one
\* (CANDLE_GAP_POLICY.md, Rules 1 to 5; usePriceCandles.ts:140-278).
ChartHolds ==
    /\ \A i \in 1..Len(candles) : candles[i].of = shownPool
    /\ drawn.step = chosen.step => \A i \in 1..(Len(candles) - 1) :
          candles[i + 1].time = candles[i].time + chosen.step
    /\ \A i \in 1..Len(candles) : candles[i].gap => candles[i].close = candles[i - 1].close
    /\ Len(Real(candles)) <= Window
    /\ waiting => asked # {}
    /\ chosen.pair # NoPair => wire.state \in {"connecting", "open"} \/ wire.timer
    /\ wire.state = "open" => wire.room = shownPool

\* "The chart never receives malformed data" (docs/CANDLE_GAP_POLICY.md:51-52): a
\* candle without a time is dropped, also when it comes over the socket.
ChartWellFormed == \A i \in 1..Len(candles) : candles[i].time # NoTime
=============================================================================
