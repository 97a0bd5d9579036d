--------------------------- MODULE OracleAdapter ---------------------------
(* The TWAP oracle of one pool (contracts/oracle-adapter/src/lib.rs): a ring *)
(* of price observations that the pool writes at the end of every swap, and  *)
(* the average price over a window that get_twap computes from two of them.  *)
(* A contract call is atomic, so an operation is one step. The liquidity     *)
(* accumulator follows the same rule as the price's and is left out.         *)
EXTENDS Integers, FiniteSets

CONSTANTS BufferSize,  \* BUFFER_SIZE, the slots of the ring
          MaxCum,      \* the largest u128, where saturating arithmetic stops
          Prices,      \* the sqrt prices a swap can leave
          MaxTime      \* bound: the last ledger timestamp

ASSUME OracleAssumption ==
    /\ BufferSize \in Nat \ {0}
    /\ MaxCum \in Nat
    /\ Prices \subseteq Nat \ {0}
    /\ MaxTime \in Nat \ {0}

VARIABLES now,          \* the ledger's timestamp
          price,        \* the pool's sqrt price; 0 before its first swap
          wired,        \* the pool knows the adapter (set_oracle)
          initialized,  \* the adapter knows the pool
          writeIndex,   \* DataKey::WriteIndex
          count,        \* DataKey::ObservationCount
          obs,          \* DataKey::Obs(i)
          credit        \* history: second -> the price accumulated for it

vars == <<now, price, wired, initialized, writeIndex, count, obs, credit>>

Slots == 0 .. BufferSize - 1
Seconds == 0 .. MaxTime - 1
Observation == [timestamp : 0 .. MaxTime, cumulative : 0 .. MaxCum]
Unwritten == [timestamp |-> 0, cumulative |-> 0]

OracleInit ==
    /\ now = 1
    /\ price = 0
    /\ wired = FALSE
    /\ initialized = FALSE
    /\ writeIndex = 0
    /\ count = 0
    /\ obs = [i \in Slots |-> Unwritten]
    /\ credit = [t \in Seconds |-> 0]

-----------------------------------------------------------------------------
(* The ring *)

Saturated(n) == IF n > MaxCum THEN MaxCum ELSE n

NewestSlot == IF writeIndex = 0 THEN BufferSize - 1 ELSE writeIndex - 1

\* Forgetting that a full ring starts elsewhere.
OldestZero == 0

OldestSlot == IF count < BufferSize THEN 0 ELSE writeIndex

\* The cumulative price of an observation made now: the new price, times the
\* whole time since the newest observation. The first one starts from zero.
Accumulated(p) ==
    IF count = 0 THEN 0
    ELSE LET prev == obs[NewestSlot]
         IN Saturated(prev.cumulative + Saturated(p * (now - prev.timestamp)))

\* Forgetting to wrap the write index.
AppendUnwrapped(p) ==
    /\ obs' = [obs EXCEPT ![writeIndex] =
                  [timestamp |-> now, cumulative |-> Accumulated(p)]]
    /\ writeIndex' = writeIndex + 1
    /\ count' = IF count < BufferSize THEN count + 1 ELSE BufferSize
    /\ credit' = IF count = 0 THEN credit
                 ELSE [t \in Seconds |->
                          IF obs[NewestSlot].timestamp <= t /\ t < now THEN p
                          ELSE credit[t]]

\* Append an observation in the slot after the newest, over the oldest one
\* when the ring is full.
Append(p) ==
    /\ obs' = [obs EXCEPT ![writeIndex] =
                  [timestamp |-> now, cumulative |-> Accumulated(p)]]
    /\ writeIndex' = (writeIndex + 1) % BufferSize
    /\ count' = IF count < BufferSize THEN count + 1 ELSE BufferSize
    /\ credit' = IF count = 0 THEN credit
                 ELSE [t \in Seconds |->
                          IF obs[NewestSlot].timestamp <= t /\ t < now THEN p
                          ELSE credit[t]]

-----------------------------------------------------------------------------
(* The operations *)

\* The ledger closes.
Tick ==
    /\ now < MaxTime
    /\ now' = now + 1
    /\ UNCHANGED <<price, wired, initialized, writeIndex, count, obs, credit>>

\* initialize: once.
Initialize ==
    /\ ~initialized
    /\ initialized' = TRUE
    /\ writeIndex' = 0
    /\ count' = 0
    /\ UNCHANGED <<now, price, wired, obs, credit>>

\* set_oracle of the pool: once; a second call with the same adapter does nothing.
SetOracle ==
    /\ ~wired
    /\ wired' = TRUE
    /\ UNCHANGED <<now, price, initialized, writeIndex, count, obs, credit>>

\* A swap of a pool that has no oracle.
SwapUnwired(p) ==
    /\ ~wired
    /\ price' = p
    /\ UNCHANGED <<now, wired, initialized, writeIndex, count, obs, credit>>

\* A swap with its write_observation. It is reverted as a whole while the
\* adapter is not initialized, and if time had gone back.
Swap(p) ==
    /\ wired
    /\ initialized
    /\ count > 0 => obs[NewestSlot].timestamp < now
    /\ price' = p
    /\ Append(p)
    /\ UNCHANGED <<now, wired, initialized>>

\* A second observation in the same ledger.
SwapTwice(p) ==
    /\ wired
    /\ initialized
    /\ count > 0
    /\ obs[NewestSlot].timestamp = now
    /\ price' = p
    /\ Append(p)
    /\ UNCHANGED <<now, wired, initialized>>

\* A swap in a ledger that has an observation already: nothing is written.
SwapSameLedger(p) ==
    /\ wired
    /\ initialized
    /\ count > 0
    /\ obs[NewestSlot].timestamp = now
    /\ price' = p
    /\ UNCHANGED <<now, wired, initialized, writeIndex, count, obs, credit>>

OracleNext ==
    \/ Tick
    \/ Initialize
    \/ SetOracle
    \/ \E p \in Prices : SwapUnwired(p) \/ Swap(p) \/ SwapSameLedger(p)

OracleSpec == OracleInit /\ [][OracleNext]_vars

-----------------------------------------------------------------------------
(* get_twap *)

\* The slot of the observation that `age` others are older than.
SlotOf(age) == (OldestSlot + age) % BufferSize

\* What is left to halve: the ages lo .. hi, and the slot found so far.
Halves == [lo : 0 .. BufferSize, hi : Slots, found : Slots]

\* binary_search_observation: the slot of the newest observation at or before
\* target, found by halving the ring's ages.
BinarySearch(target) ==
    LET search[h \in Halves] ==
            LET mid == h.lo + (h.hi - h.lo) \div 2
            IN IF h.lo > h.hi THEN h.found
               ELSE IF obs[SlotOf(mid)].timestamp <= target
                    THEN search[[lo |-> mid + 1, hi |-> h.hi, found |-> SlotOf(mid)]]
               ELSE IF mid = 0 THEN h.found
               ELSE search[[lo |-> h.lo, hi |-> mid - 1, found |-> h.found]]
    IN search[[lo |-> 0, hi |-> count - 1, found |-> OldestSlot]]

WindowStart(window) ==
    IF window > obs[NewestSlot].timestamp THEN 0
    ELSE obs[NewestSlot].timestamp - window

\* The error get_twap panics with, in the order of its checks; "none" otherwise.
Refusal(window) ==
    CASE ~initialized -> "NotInitialized"
      [] initialized /\ count < 2 -> "InsufficientHistory"
      [] count >= 2 /\ obs[NewestSlot].timestamp < now -> "StaleObservation"
      [] count >= 2 /\ obs[NewestSlot].timestamp >= now
                    /\ obs[OldestSlot].timestamp > WindowStart(window) -> "WindowTooLarge"
      [] OTHER -> IF obs[BinarySearch(WindowStart(window))].timestamp
                     = obs[NewestSlot].timestamp
                  THEN "InsufficientHistory" ELSE "none"

Twap(window) ==
    LET latest == obs[NewestSlot]
        start == obs[BinarySearch(WindowStart(window))]
        delta == latest.cumulative - start.cumulative
    IN (IF delta < 0 THEN 0 ELSE delta) \div (latest.timestamp - start.timestamp)

Answered(window) == Refusal(window) = "none"

-----------------------------------------------------------------------------
(* Properties *)

OracleTypeOK ==
    /\ now \in 1 .. MaxTime
    /\ price \in Prices \cup {0}
    /\ wired \in BOOLEAN
    /\ initialized \in BOOLEAN
    /\ writeIndex \in Slots
    /\ count \in 0 .. BufferSize
    /\ obs \in [Slots -> Observation]
    /\ credit \in [Seconds -> Prices \cup {0}]

\* The slots that hold an observation, and which of two was written first.
Written == IF count < BufferSize THEN 0 .. count - 1 ELSE Slots

Before(i, j) ==
    IF count < BufferSize THEN i < j
    ELSE \/ i < j /\ (i < writeIndex <=> j < writeIndex)
         \/ i >= writeIndex /\ j < writeIndex

\* From the oldest slot to the newest the timestamps strictly increase and the
\* accumulator never falls, also across the end of the ring: what makes
\* halving it in binary_search_observation right.
RingOrdered ==
    \A i, j \in Written :
        Before(i, j) => /\ obs[i].timestamp < obs[j].timestamp
                        /\ obs[i].cumulative <= obs[j].cumulative

\* The sum of f over the seconds before t.
SumBefore(f, t) ==
    LET sum[u \in 0 .. MaxTime] == IF u = 0 THEN 0 ELSE sum[u - 1] + f[u - 1]
    IN sum[t]

\* get_twap against its definition: it answers exactly when the ring has an
\* observation of this very second and one at least window seconds old, and
\* then, as long as the accumulator is below its maximum, gives the mean of
\* what was accumulated since the newest such one. So the answer is never
\* stale and never covers less than the window.
TwapSpansWindow ==
    \A window \in 0 .. MaxTime :
        LET times == {obs[i].timestamp : i \in Written}
            starts == {t \in times : t <= now - window}
            covered == initialized /\ now \in times /\ starts # {}
            start == CHOOSE t \in starts : \A u \in starts : u <= t
        IN /\ Answered(window) <=> covered /\ start < now
           /\ Answered(window) /\ obs[NewestSlot].cumulative < MaxCum =>
                 Twap(window) =
                    (SumBefore(credit, now) - SumBefore(credit, start)) \div (now - start)
=============================================================================
