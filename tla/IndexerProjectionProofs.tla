---------------------- MODULE IndexerProjectionProofs ----------------------
(***************************************************************************)
(* What holds of the indexed rows for every stream of events, every number *)
(* of jobs per event, every number of slots, attempts, failing statements  *)
(* and crashes.                                                            *)
(***************************************************************************)
EXTENDS IndexerProjection, TLAPS

USE DeliveriesAssumption, ProjectionLimits

----------------------------------------------------------------------------
(* The inductive invariant                                                 *)

Held == {"minted", "reduced", "burned"}
Priced == {"created", "swap"}

Busy(s) == work[s].pc # "free"

Typed ==
    /\ delivery \in Deliveries
    /\ raw \subseteq Events
    /\ pool \in PoolRow \cup {NoPool}
    /\ swapRows \in [Events -> Fees]
    /\ position \in [liquidity : Events, closed : BOOLEAN] \cup {NoPosition}
    /\ swallowed \subseteq Events
    /\ faults \in 0 .. MaxFaults
    /\ crashes \in 0 .. MaxCrashes

QueueTyped ==
    /\ jobState \in [Jobs -> {"none", "waiting", "active", "done", "dead"}]
    /\ attempts \in [Jobs -> 0 .. MaxAttempts]
    /\ work \in [Slots -> [pc : {"raw", "fee", "pool", "row", "position"},
                           job : Jobs, fee : Fees] \cup {Free}]

\* A busy slot's job is active, and no two slots have the same one.
Slotted ==
    \A s \in Slots : Busy(s) =>
        /\ jobState[work[s].job] = "active"
        /\ \A t \in Slots : Busy(t) /\ work[t].job = work[s].job => t = s

\* A job that is not dead has an attempt left.
Tries == \A j \in Jobs : jobState[j] # "dead" => attempts[j] < MaxAttempts

QueueInv == QueueTyped /\ Slotted /\ Tries

\* A slot is at a statement of its own handler, past the event's row unless it
\* is at that row; past the fee it has one, past the pool the pool is there.
Stage(s) ==
    /\ work[s].pc \notin {"free", "raw"} => EventOf(s) \in raw
    /\ AtStep(s, "fee") => KindOf(s) \in {"swap", "unpriced"}
    /\ AtStep(s, "pool") => /\ KindOf(s) \in Priced
                            /\ KindOf(s) = "swap" => work[s].fee # "none"
    /\ AtStep(s, "row") => /\ KindOf(s) \in {"swap", "unpriced"}
                           /\ work[s].fee # "none"
                           /\ KindOf(s) = "swap" => pool # NoPool
    /\ AtStep(s, "position") => KindOf(s) \in Held

\* What is in a row came from an event of its kind whose own row is there.
Sources ==
    /\ pool.price # None => pool.price \in raw /\ Kind(pool.price) \in Priced
    /\ pool.state # None => pool.state \in raw /\ Kind(pool.state) = "swap"
    /\ position.liquidity # None =>
          position.liquidity \in raw /\ Kind(position.liquidity) \in Held
    /\ position.closed => \E e \in raw : Kind(e) = "burned"

\* An acknowledged job has done what its handler is for.
Settled ==
    /\ Done \subseteq raw
    /\ TokensBackfilled /\ PricedSwapKept /\ PositionNotDropped

Before(e) == \A d \in Events : d < e => Over(d)

\* In order, whatever is begun has only finished events before it.
InOrder ==
    delivery.ordered =>
        /\ \A s \in Slots : Busy(s) => Before(EventOf(s))
        /\ \A e \in raw : Before(e)

\* In order, and with no projection given up, no finished event is later than
\* what the rows hold.
Latest ==
    delivery.ordered /\ swallowed = {} =>
        /\ \A e \in Done :
              /\ Kind(e) \in Priced => e <= pool.price
              /\ Kind(e) = "swap" => e <= pool.state
              /\ Kind(e) \in Held => e <= position.liquidity
              /\ Kind(e) = "burned" => position.closed
        /\ \A s \in Slots : AtStep(s, "row") /\ KindOf(s) = "swap" =>
              EventOf(s) <= pool.price /\ EventOf(s) <= pool.state

RowInv == /\ \A s \in Slots : Stage(s)
          /\ Sources /\ Settled /\ InOrder /\ Latest

ProjectionInv == Typed /\ QueueInv /\ RowInv

----------------------------------------------------------------------------
(* Events and jobs                                                         *)

\* The story is a sequence of kinds, and its events are positive numbers.
LEMMA StoryTyped ==
    ASSUME delivery \in Deliveries
    PROVE  /\ Len(delivery.story) \in Nat
           /\ Events \subseteq Nat
           /\ None \notin Events
           /\ \A e \in Events : Kind(e) \in Kinds
           /\ delivery.copies \in Nat \ {0}
           /\ delivery.ordered \in BOOLEAN
<1>1. /\ delivery.story \in Seq(Kinds)
      /\ delivery.copies \in Nat \ {0}
      /\ delivery.ordered \in BOOLEAN
  BY DEF Delivery
<1>2. /\ Len(delivery.story) \in Nat
      /\ \A e \in 1 .. Len(delivery.story) : delivery.story[e] \in Kinds
  BY <1>1
<1>3. QED
  BY <1>1, <1>2 DEF Events, Kind, None

\* A busy slot has a job, at one of the five statements.
LEMMA BusyTyped ==
    ASSUME delivery \in Deliveries, QueueTyped, NEW s \in Slots, Busy(s)
    PROVE  /\ work[s] \in [pc : {"raw", "fee", "pool", "row", "position"},
                           job : Jobs, fee : Fees]
           /\ work[s].job \in Jobs
           /\ EventOf(s) \in Events
           /\ \E c \in 1 .. delivery.copies : work[s].job = <<EventOf(s), c>>
<1>1. work[s] # Free
  BY DEF Busy, Free
<1>2. work[s] \in [pc : {"raw", "fee", "pool", "row", "position"},
                   job : Jobs, fee : Fees]
  BY <1>1 DEF QueueTyped
<1>3. work[s].job \in Jobs
  BY <1>2
<1>4. QED
  BY <1>2, <1>3 DEF Jobs, EventOf

\* Neither the story nor the names of events and jobs ever change.
LEMMA SameStory ==
    ASSUME UNCHANGED delivery
    PROVE  /\ Events' = Events
           /\ Jobs' = Jobs
           /\ delivery.copies' = delivery.copies
           /\ \A e \in Events : Kind(e)' = Kind(e)
BY DEF Events, Jobs, Kind

\* What a step may do to a job: nothing that is over is ever taken up again.
OverStays == \A e \in Events : Over(e) => Over(e)'

LEMMA OverJobsStay ==
    ASSUME UNCHANGED delivery, delivery \in Deliveries,
           \A j \in Jobs : jobState[j] \in {"done", "dead"} => jobState'[j] = jobState[j]
    PROVE  OverStays
<1>1. ASSUME NEW e \in Events, Over(e)
      PROVE  Over(e)'
  <2>1. ASSUME NEW c \in 1 .. delivery.copies
        PROVE  jobState'[<<e, c>>] \in {"done", "dead"}
    BY <1>1, <2>1 DEF Over, Jobs
  <2>2. QED
    BY <2>1 DEF Over
<1>2. QED
  BY <1>1 DEF OverStays

\* The events that are done, from the jobs that are.
LEMMA DoneFrom ==
    ASSUME UNCHANGED delivery, delivery \in Deliveries, NEW S,
           \A j \in Jobs : jobState'[j] = "done" <=> jobState[j] = "done" \/ j \in S
    PROVE  Done' = Done \cup {e \in Events : \E c \in 1 .. delivery.copies : <<e, c>> \in S}
<1>1. \A e \in Events, c \in 1 .. delivery.copies : <<e, c>> \in Jobs
  BY DEF Jobs
<1>2. Events' = Events /\ delivery.copies' = delivery.copies
  BY SameStory
<1>3. QED
  BY <1>1, <1>2 DEF Done

LEMMA DoneStays ==
    ASSUME UNCHANGED delivery, delivery \in Deliveries,
           \A j \in Jobs : jobState'[j] = "done" <=> jobState[j] = "done"
    PROVE  Done' = Done
<1>1. \A e \in Events, c \in 1 .. delivery.copies : <<e, c>> \in Jobs
  BY DEF Jobs
<1>2. Events' = Events /\ delivery.copies' = delivery.copies
  BY SameStory
<1>3. QED
  BY <1>1, <1>2 DEF Done

\* The names of a queue's step, for the lemmas about the rows.
QueueKept == QueueInv' /\ OverStays

\* A new job, and a slot that takes one.
LEMMA EnqueueQueue ==
    ASSUME delivery \in Deliveries, QueueInv, UNCHANGED delivery,
           NEW j \in Jobs, Enqueue(j)
    PROVE  QueueKept /\ Done' = Done /\ UNCHANGED work
<1> USE DEF QueueInv, QueueTyped
<1>1. /\ jobState[j] = "none"
      /\ jobState' = [jobState EXCEPT ![j] = "waiting"]
      /\ UNCHANGED <<attempts, work>>
  BY DEF Enqueue
<1>2. Jobs' = Jobs
  BY SameStory
<1>3. QueueTyped'
  BY <1>1, <1>2 DEF QueueTyped
<1>4. Slotted'
  BY <1>1 DEF Slotted, Busy
<1>5. Tries'
  BY <1>1, <1>2 DEF Tries
<1>6. OverStays
  BY <1>1, OverJobsStay
<1>7. \A i \in Jobs : jobState'[i] = "done" <=> jobState[i] = "done"
  BY <1>1
<1>8. Done' = Done
  BY <1>7, DoneStays
<1>9. QED
  BY <1>1, <1>3, <1>4, <1>5, <1>6, <1>8 DEF QueueKept

LEMMA TakeQueue ==
    ASSUME delivery \in Deliveries, QueueInv, UNCHANGED delivery,
           NEW s \in Slots, NEW j \in Jobs, Take(s, j)
    PROVE  /\ QueueKept /\ Done' = Done
           /\ work' = [work EXCEPT ![s] = [pc |-> "raw", job |-> j, fee |-> "none"]]
<1> USE DEF QueueInv, QueueTyped
<1>1. /\ work[s] = Free
      /\ jobState[j] = "waiting"
      /\ jobState' = [jobState EXCEPT ![j] = "active"]
      /\ work' = [work EXCEPT ![s] = [pc |-> "raw", job |-> j, fee |-> "none"]]
      /\ UNCHANGED attempts
  BY DEF Take
<1>2. Jobs' = Jobs
  BY SameStory
<1>3. QueueTyped'
  BY <1>1, <1>2 DEF QueueTyped, Fees
<1>4. Slotted'
  <2>1. ASSUME NEW t \in Slots, Busy(t)'
        PROVE  /\ jobState'[work'[t].job] = "active"
               /\ \A u \in Slots : Busy(u)' /\ work'[u].job = work'[t].job => u = t
    <3>1. CASE t = s
      BY <1>1, <2>1, <3>1, BusyTyped DEF Slotted, Busy
    <3>2. CASE t # s
      BY <1>1, <2>1, <3>2, BusyTyped DEF Slotted, Busy
    <3>3. QED
      BY <3>1, <3>2
  <2>2. QED
    BY <2>1 DEF Slotted
<1>5. Tries'
  BY <1>1, <1>2 DEF Tries
<1>6. OverStays
  BY <1>1, OverJobsStay
<1>7. \A i \in Jobs : jobState'[i] = "done" <=> jobState[i] = "done"
  BY <1>1
<1>8. Done' = Done
  BY <1>7, DoneStays
<1>9. QED
  BY <1>1, <1>3, <1>4, <1>5, <1>6, <1>8 DEF QueueKept

\* A slot goes on to another statement of its handler.
LEMMA MoveQueue ==
    ASSUME delivery \in Deliveries, QueueInv, UNCHANGED <<delivery, queue>>,
           NEW s \in Slots, Busy(s),
           NEW pc \in {"raw", "fee", "pool", "row", "position"}, NEW fee \in Fees,
           work' = [work EXCEPT ![s] = [pc |-> pc, job |-> work[s].job, fee |-> fee]]
    PROVE  QueueKept /\ Done' = Done
<1> USE DEF QueueInv, QueueTyped, queue
<1>1. Jobs' = Jobs /\ work[s].job \in Jobs
  BY SameStory, BusyTyped
<1>2. QueueTyped'
  BY <1>1 DEF QueueTyped
<1>3. Slotted'
  BY <1>1 DEF Slotted, Busy
<1>4. Tries'
  BY <1>1 DEF Tries
<1>5. OverStays
  BY OverJobsStay
<1>6. Done' = Done
  BY SameStory DEF Done
<1>7. QED
  BY <1>2, <1>3, <1>4, <1>5, <1>6 DEF QueueKept

\* A slot's job is acknowledged, or has failed.
LEMMA ReturnQueue ==
    ASSUME delivery \in Deliveries, QueueInv, UNCHANGED delivery,
           NEW s \in Slots, Busy(s), Return(s)
    PROVE  /\ QueueKept /\ Done' = Done \cup {EventOf(s)}
           /\ work' = [work EXCEPT ![s] = Free]
<1> USE DEF QueueInv, QueueTyped
<1>1. /\ jobState' = [jobState EXCEPT ![work[s].job] = "done"]
      /\ work' = [work EXCEPT ![s] = Free]
      /\ UNCHANGED attempts
  BY DEF Return
<1>2. Jobs' = Jobs /\ work[s].job \in Jobs /\ jobState[work[s].job] = "active"
  BY SameStory, BusyTyped DEF Slotted
<1>3. QueueTyped'
  BY <1>1, <1>2 DEF QueueTyped
<1>4. Slotted'
  BY <1>1, <1>2 DEF Slotted, Busy, Free
<1>5. Tries'
  BY <1>1, <1>2 DEF Tries
<1>6. OverStays
  BY <1>1, <1>2, OverJobsStay
<1>7. \A i \in Jobs :
          jobState'[i] = "done" <=> jobState[i] = "done" \/ i \in {work[s].job}
  BY <1>1, <1>2
<1>8. Done' = Done \cup {EventOf(s)}
  <2>1. PICK c \in 1 .. delivery.copies : work[s].job = <<EventOf(s), c>>
    BY BusyTyped
  <2>2. EventOf(s) \in Events
    BY BusyTyped
  <2>3. {e \in Events : \E d \in 1 .. delivery.copies : <<e, d>> \in {work[s].job}}
          = {EventOf(s)}
    BY <2>1, <2>2
  <2>4. Done' = Done \cup {e \in Events :
                              \E d \in 1 .. delivery.copies : <<e, d>> \in {work[s].job}}
    BY <1>7, DoneFrom
  <2>5. QED
    BY <2>3, <2>4
<1>9. QED
  BY <1>1, <1>3, <1>4, <1>5, <1>6, <1>8 DEF QueueKept

LEMMA ThrowQueue ==
    ASSUME delivery \in Deliveries, QueueInv, UNCHANGED delivery,
           NEW s \in Slots, Busy(s), Throw(s)
    PROVE  /\ QueueKept /\ Done' = Done
           /\ work' = [work EXCEPT ![s] = Free]
<1> USE DEF QueueInv, QueueTyped
<1> DEFINE tried == attempts[work[s].job] + 1
<1>1. /\ attempts' = [attempts EXCEPT ![work[s].job] = tried]
      /\ jobState' = [jobState EXCEPT ![work[s].job] =
                         IF tried = MaxAttempts THEN "dead" ELSE "waiting"]
      /\ work' = [work EXCEPT ![s] = Free]
  BY DEF Throw
<1>2. Jobs' = Jobs /\ work[s].job \in Jobs /\ jobState[work[s].job] = "active"
  BY SameStory, BusyTyped DEF Slotted
<1>3. tried \in 1 .. MaxAttempts
  BY <1>2 DEF Tries
<1> HIDE DEF tried
<1>4. QueueTyped'
  <2>1. attempts' \in [Jobs -> 0 .. MaxAttempts]
    BY <1>1, <1>2, <1>3
  <2>2. QED
    BY <1>1, <1>2, <2>1 DEF QueueTyped
<1>5. Slotted'
  BY <1>1, <1>2 DEF Slotted, Busy, Free
<1>6. Tries'
  BY <1>1, <1>2, <1>3 DEF Tries
<1>7. OverStays
  BY <1>1, <1>2, OverJobsStay
<1>8. \A i \in Jobs : jobState'[i] = "done" <=> jobState[i] = "done"
  BY <1>1, <1>2
<1>9. Done' = Done
  BY <1>8, DoneStays
<1>10. QED
  BY <1>1, <1>4, <1>5, <1>6, <1>7, <1>9 DEF QueueKept

LEMMA CrashQueue ==
    ASSUME delivery \in Deliveries, QueueInv, UNCHANGED delivery, Crash
    PROVE  QueueKept /\ Done' = Done /\ \A s \in Slots : ~Busy(s)'
<1> USE DEF QueueInv, QueueTyped
<1>1. /\ work' = [s \in Slots |-> Free]
      /\ jobState' = [j \in Jobs |-> IF jobState[j] = "active" THEN "waiting"
                                     ELSE jobState[j]]
      /\ UNCHANGED attempts
  BY DEF Crash
<1>2. Jobs' = Jobs
  BY SameStory
<1>3. QueueTyped'
  BY <1>1, <1>2 DEF QueueTyped
<1>4. \A s \in Slots : ~Busy(s)'
  BY <1>1 DEF Busy, Free
<1>5. Slotted' /\ Tries'
  BY <1>1, <1>2, <1>4 DEF Slotted, Tries
<1>6. OverStays
  BY <1>1, OverJobsStay
<1>7. \A i \in Jobs : jobState'[i] = "done" <=> jobState[i] = "done"
  BY <1>1
<1>8. Done' = Done
  BY <1>7, DoneStays
<1>9. QED
  BY <1>3, <1>4, <1>5, <1>6, <1>8 DEF QueueKept

----------------------------------------------------------------------------
(* Rows                                                                    *)

\* In order, no begun event is later than the one a slot works on, so that the
\* slots that work are at one event.
LEMMA Foremost ==
    ASSUME Typed, QueueInv, InOrder, delivery.ordered, NEW s \in Slots, Busy(s)
    PROVE  /\ \A e \in raw : e <= EventOf(s)
           /\ \A t \in Slots : Busy(t) => EventOf(t) = EventOf(s)
<1>1. delivery \in Deliveries /\ raw \subseteq Events /\ Events \subseteq Nat
  BY StoryTyped DEF Typed
<1>2. ASSUME NEW t \in Slots, Busy(t)
      PROVE  EventOf(t) \in Events /\ ~Over(EventOf(t))
  <2>1. EventOf(t) \in Events
        /\ \E c \in 1 .. delivery.copies : work[t].job = <<EventOf(t), c>>
    BY <1>1, <1>2, BusyTyped DEF QueueInv
  <2>2. jobState[work[t].job] = "active"
    BY <1>2 DEF QueueInv, Slotted
  <2>3. QED
    BY <2>1, <2>2 DEF Over
<1>3. ASSUME NEW e \in Events, Before(e), NEW t \in Slots, Busy(t)
      PROVE  e <= EventOf(t)
  <2>1. EventOf(t) \in Events /\ ~Over(EventOf(t))
    BY <1>2, <1>3
  <2>2. ~(EventOf(t) < e)
    BY <2>1, <1>3 DEF Before
  <2>3. e \in Nat /\ EventOf(t) \in Nat
    BY <1>1, <2>1
  <2>4. QED
    BY <2>2, <2>3
<1>4. \A e \in raw : Before(e)
  BY DEF InOrder
<1>5. \A t \in Slots : Busy(t) => Before(EventOf(t))
  BY DEF InOrder
<1>6. \A e \in raw : e <= EventOf(s)
  BY <1>1, <1>3, <1>4
<1>7. ASSUME NEW t \in Slots, Busy(t)
      PROVE  EventOf(t) = EventOf(s)
  <2>1. EventOf(t) \in Events /\ EventOf(s) \in Events
    BY <1>2, <1>7
  <2>2. EventOf(t) <= EventOf(s) /\ EventOf(s) <= EventOf(t)
    BY <1>3, <1>5, <1>7, <2>1
  <2>3. EventOf(t) \in Nat /\ EventOf(s) \in Nat
    BY <1>1, <2>1
  <2>4. QED
    BY <2>2, <2>3
<1>8. QED
  BY <1>6, <1>7

\* A step that begins no event keeps the order.
LEMMA OrderKept ==
    ASSUME Typed, InOrder, OverStays, UNCHANGED delivery,
           NEW s \in Slots, Busy(s), EventOf(s) \in Events,
           raw' \subseteq raw \cup {EventOf(s)},
           \A t \in Slots : Busy(t)' => Busy(t) /\ EventOf(t)' = EventOf(t)
    PROVE  InOrder'
<1>1. \A e \in Events : Before(e) => Before(e)'
  BY SameStory DEF Before, OverStays
<1> SUFFICES ASSUME delivery.ordered
             PROVE  /\ \A t \in Slots : Busy(t)' => Before(EventOf(t))'
                    /\ \A e \in raw' : Before(e)'
  BY DEF InOrder
<1>2. /\ \A t \in Slots : Busy(t) => Before(EventOf(t))
      /\ \A e \in raw : Before(e)
  BY DEF InOrder
<1>3. ASSUME NEW d \in Events, d \in raw \cup {EventOf(s)}
      PROVE  Before(d)'
  BY <1>1, <1>2, <1>3
<1>4. \A e \in raw' : Before(e)'
  BY <1>3 DEF Typed
<1>5. ASSUME NEW t \in Slots, Busy(t)'
      PROVE  Before(EventOf(t))'
  <2>1. Busy(t) /\ EventOf(t)' = EventOf(t) /\ Before(EventOf(t))
    BY <1>2, <1>5
  <2>2. \A d \in Events : d < EventOf(t) => Over(d)
    BY <2>1 DEF Before
  <2>3. \A d \in Events' : d < EventOf(t)' => Over(d)'
    BY <2>1, <2>2, SameStory DEF OverStays
  <2>4. QED
    BY <2>3 DEF Before
<1>6. QED
  BY <1>4, <1>5

\* A step that writes no row, after which a busy slot is where it was.
LEMMA QuietRows ==
    ASSUME Typed, RowInv, UNCHANGED <<delivery, rows, swallowed>>,
           OverStays, Done' = Done,
           \A t \in Slots : Busy(t)' => work'[t] = work[t]
    PROVE  RowInv'
<1> USE DEF rows
<1>1. \A e \in Events : Kind(e)' = Kind(e) /\ (Before(e) => Before(e)')
  BY SameStory DEF Before, OverStays
<1>2. \A t \in Slots : Stage(t)'
  BY <1>1 DEF RowInv, Stage, Busy, AtStep, EventOf, KindOf, Kind
<1>3. Sources'
  BY <1>1 DEF RowInv, Sources, Kind
<1>4. Settled'
  BY DEF RowInv, Settled, TokensBackfilled, PricedSwapKept, PositionNotDropped, Kind
<1>5. InOrder'
  <2> SUFFICES ASSUME delivery.ordered
               PROVE  /\ \A t \in Slots : Busy(t)' => Before(EventOf(t))'
                      /\ \A e \in raw' : Before(e)'
    BY DEF InOrder
  <2>1. \A e \in raw' : Before(e)'
    BY <1>1 DEF RowInv, InOrder, Typed
  <2>2. ASSUME NEW t \in Slots, Busy(t)'
        PROVE  Before(EventOf(t))'
    <3>1. work'[t] = work[t] /\ Busy(t) /\ EventOf(t)' = EventOf(t)
      BY <2>2 DEF Busy, EventOf
    <3>2. Before(EventOf(t))
      BY <3>1 DEF RowInv, InOrder
    <3>3. \A d \in Events' : d < EventOf(t)' => Over(d)'
      BY <3>1, <3>2, SameStory DEF Before, OverStays
    <3>4. QED
      BY <3>3 DEF Before
  <2>3. QED
    BY <2>1, <2>2
<1>6. Latest'
  BY DEF RowInv, Latest, Kind, AtStep, KindOf, EventOf, Busy
<1>7. QED
  BY <1>2, <1>3, <1>4, <1>5, <1>6 DEF RowInv

\* A slot takes a job: in order, when all the events before are over.
LEMMA TakeRows ==
    ASSUME Typed, QueueInv, RowInv, UNCHANGED delivery,
           NEW s \in Slots, NEW j \in Jobs, Take(s, j)
    PROVE  RowInv'
<1>1. /\ OverStays /\ Done' = Done
      /\ work' = [work EXCEPT ![s] = [pc |-> "raw", job |-> j, fee |-> "none"]]
  BY TakeQueue DEF QueueKept, Typed
<1>2. /\ UNCHANGED <<raw, pool, swapRows, position, swallowed>>
      /\ delivery.ordered => \A e \in Events : e < j[1] => Over(e)
  BY DEF Take, rows
<1>3. \A e \in Events : Kind(e)' = Kind(e) /\ (Before(e) => Before(e)')
  BY <1>1, SameStory DEF Before, OverStays
<1>4. /\ work'[s] = [pc |-> "raw", job |-> j, fee |-> "none"]
      /\ \A t \in Slots : t # s => work'[t] = work[t]
  BY <1>1 DEF QueueInv, QueueTyped
<1>5. \A t \in Slots : Stage(t)'
  <2>1. Stage(s)'
    BY <1>4 DEF Stage, AtStep
  <2>2. ASSUME NEW t \in Slots, t # s
        PROVE  Stage(t)'
    BY <1>2, <1>4, <2>2 DEF RowInv, Stage, AtStep, EventOf, KindOf, Kind
  <2>3. QED
    BY <2>1, <2>2
<1>6. Sources'
  BY <1>2 DEF RowInv, Sources, Kind
<1>7. Settled'
  BY <1>1, <1>2
     DEF RowInv, Settled, TokensBackfilled, PricedSwapKept, PositionNotDropped, Kind
<1>8. InOrder'
  <2> SUFFICES ASSUME delivery.ordered
               PROVE  /\ \A t \in Slots : Busy(t)' => Before(EventOf(t))'
                      /\ \A e \in raw' : Before(e)'
    BY DEF InOrder
  <2>1. \A e \in raw' : Before(e)'
    BY <1>2, <1>3 DEF RowInv, InOrder, Typed
  <2>2. ASSUME NEW t \in Slots, Busy(t)'
        PROVE  Before(EventOf(t))'
    <3>1. \A d \in Events : d < EventOf(t)' => Over(d)
      <4>1. CASE t = s
        BY <1>2, <1>4, <4>1 DEF EventOf
      <4>2. CASE t # s
        <5>1. work'[t] = work[t] /\ Busy(t)
          BY <1>4, <2>2, <4>2 DEF Busy
        <5>2. Before(EventOf(t))
          BY <5>1 DEF RowInv, InOrder
        <5>3. QED
          BY <5>1, <5>2 DEF Before, EventOf
      <4>3. QED
        BY <4>1, <4>2
    <3>2. \A d \in Events' : d < EventOf(t)' => Over(d)'
      BY <1>1, <3>1, SameStory DEF OverStays
    <3>3. QED
      BY <3>2 DEF Before
  <2>3. QED
    BY <2>1, <2>2
<1>9. Latest'
  <2>1. \A t \in Slots : AtStep(t, "row")' => t # s
    BY <1>4 DEF AtStep
  <2>2. QED
    BY <1>1, <1>2, <1>4, <2>1 DEF RowInv, Latest, Kind, AtStep, KindOf, EventOf
<1>10. QED
  BY <1>5, <1>6, <1>7, <1>8, <1>9 DEF RowInv

\* The slots other than the one that moves, when rows are only added to.
OthersKept(s) ==
    \A t \in Slots : t # s => work'[t] = work[t]

LEMMA OtherStages ==
    ASSUME RowInv, UNCHANGED delivery, NEW s \in Slots, OthersKept(s),
           raw \subseteq raw', pool # NoPool => pool' # NoPool
    PROVE  \A t \in Slots : t # s => Stage(t)'
<1> SUFFICES ASSUME NEW t \in Slots, t # s
             PROVE  Stage(t)'
  OBVIOUS
<1>1. work'[t] = work[t]
  BY DEF OthersKept
<1>2. Stage(t)
  BY DEF RowInv
<1>3. QED
  BY <1>1, <1>2 DEF Stage, AtStep, EventOf, KindOf, Kind

\* A busy slot that stays at its job, or is free, disturbs no order.
LEMMA SlotOrder ==
    ASSUME Typed, QueueInv, RowInv, UNCHANGED delivery, OverStays,
           NEW s \in Slots, Busy(s), OthersKept(s),
           Busy(s)' => work'[s].job = work[s].job,
           raw' \subseteq raw \cup {EventOf(s)}
    PROVE  InOrder'
<1>1. EventOf(s) \in Events
  BY BusyTyped DEF Typed, QueueInv
<1>2. \A t \in Slots : Busy(t)' => Busy(t) /\ EventOf(t)' = EventOf(t)
  BY DEF OthersKept, Busy, EventOf
<1>3. QED
  BY <1>1, <1>2, OrderKept DEF RowInv

\* The event's own row is written.
LEMMA WriteRawRows ==
    ASSUME Typed, QueueInv, RowInv, UNCHANGED delivery, NEW s \in Slots, WriteRaw(s)
    PROVE  QueueInv' /\ RowInv'
<1> DEFINE next == CASE KindOf(s) = "created" -> "pool"
                     [] KindOf(s) \in {"swap", "unpriced"} -> "fee"
                     [] OTHER -> "position"
<1>1. /\ work[s].pc = "raw"
      /\ raw' = raw \cup {EventOf(s)}
      /\ work' = [work EXCEPT ![s].pc = next]
      /\ UNCHANGED <<pool, swapRows, position, jobState, attempts, swallowed>>
  BY DEF WriteRaw, AtStep, Goto, queue
<1>2. /\ Busy(s) /\ EventOf(s) \in Events /\ work[s].job \in Jobs
      /\ work[s].fee \in Fees
  BY <1>1, BusyTyped DEF Busy, Typed, QueueInv
<1>3. KindOf(s) \in Kinds
  BY <1>2, StoryTyped DEF Typed, KindOf
<1>4. /\ next \in {"pool", "fee", "position"}
      /\ next = "pool" => KindOf(s) = "created"
      /\ next = "fee" => KindOf(s) \in {"swap", "unpriced"}
      /\ next = "position" => KindOf(s) \in Held
  BY <1>3 DEF Kinds, Held
<1> HIDE DEF next
<1>5. work' = [work EXCEPT ![s] = [pc |-> next, job |-> work[s].job, fee |-> work[s].fee]]
  <2>1. work[s] \in [pc : {"raw", "fee", "pool", "row", "position"},
                     job : Jobs, fee : Fees]
    BY <1>2, BusyTyped DEF Typed, QueueInv
  <2>2. [work[s] EXCEPT !.pc = next]
            = [pc |-> next, job |-> work[s].job, fee |-> work[s].fee]
    BY <2>1
  <2>3. work' = [work EXCEPT ![s] = [work[s] EXCEPT !.pc = next]]
    BY <1>1
  <2>4. QED
    BY <2>2, <2>3
<1>6. QueueInv' /\ OverStays /\ Done' = Done
  BY <1>1, <1>2, <1>4, <1>5, MoveQueue DEF QueueKept, Typed, queue
<1>7. /\ work'[s] = [pc |-> next, job |-> work[s].job, fee |-> work[s].fee]
      /\ OthersKept(s)
  BY <1>5 DEF OthersKept, QueueInv, QueueTyped
<1>8. \A t \in Slots : Stage(t)'
  <2>1. Stage(s)'
    BY <1>1, <1>4, <1>7 DEF Stage, AtStep, EventOf, KindOf, Kind, Priced
  <2>2. \A t \in Slots : t # s => Stage(t)'
    BY <1>1, <1>7, OtherStages
  <2>3. QED
    BY <2>1, <2>2
<1>9. Sources'
  BY <1>1 DEF RowInv, Sources, Kind
<1>10. Settled'
  BY <1>1, <1>6
     DEF RowInv, Settled, TokensBackfilled, PricedSwapKept, PositionNotDropped, Kind
<1>11. InOrder'
  BY <1>1, <1>2, <1>6, <1>7, SlotOrder
<1>12. Latest'
  <2>1. \A t \in Slots : AtStep(t, "row")' => t # s
    BY <1>4, <1>7 DEF AtStep
  <2>2. QED
    BY <1>1, <1>6, <1>7, <2>1
       DEF RowInv, Latest, Kind, AtStep, KindOf, EventOf, OthersKept
<1>13. QED
  BY <1>6, <1>8, <1>9, <1>10, <1>11, <1>12 DEF RowInv

\* The swap's fee is read, or that fails.
LEMMA FeeRows ==
    ASSUME Typed, QueueInv, RowInv, UNCHANGED delivery, NEW s \in Slots,
           ResolveFee(s) \/ ResolveFeeFails(s)
    PROVE  QueueInv' /\ RowInv'
<1> DEFINE next == IF KindOf(s) = "unpriced" THEN "row" ELSE "pool"
<1>1. PICK fee \in {"tier", "zero"} :
          work' = [work EXCEPT ![s].fee = fee, ![s].pc = next]
  BY DEF ResolveFee, ResolveFeeFails
<1>2. /\ work[s].pc = "fee"
      /\ UNCHANGED <<raw, pool, swapRows, position, jobState, attempts, swallowed>>
  BY DEF ResolveFee, ResolveFeeFails, AtStep, queue, rows
<1>3. /\ Busy(s) /\ EventOf(s) \in Events /\ work[s].job \in Jobs
      /\ fee \in Fees /\ fee # "none"
  BY <1>2, BusyTyped DEF Busy, Typed, QueueInv, Fees
<1>4. KindOf(s) \in {"swap", "unpriced"} /\ EventOf(s) \in raw
  BY <1>2 DEF RowInv, Stage, AtStep
<1>5. /\ next \in {"row", "pool"}
      /\ next = "row" => KindOf(s) = "unpriced"
      /\ next = "pool" => KindOf(s) = "swap"
  BY <1>4
<1> HIDE DEF next
<1>6. work' = [work EXCEPT ![s] = [pc |-> next, job |-> work[s].job, fee |-> fee]]
  <2>1. work[s] \in [pc : {"raw", "fee", "pool", "row", "position"},
                     job : Jobs, fee : Fees]
    BY <1>3, BusyTyped DEF Typed, QueueInv
  <2>2. [[work[s] EXCEPT !.fee = fee] EXCEPT !.pc = next]
            = [pc |-> next, job |-> work[s].job, fee |-> fee]
    <3> DEFINE half == [work[s] EXCEPT !.fee = fee]
    <3>1. half = [pc |-> work[s].pc, job |-> work[s].job, fee |-> fee]
      BY <2>1
    <3>2. /\ half \in [pc : {"raw", "fee", "pool", "row", "position"},
                      job : Jobs, fee : Fees]
          /\ half.job = work[s].job /\ half.fee = fee
      BY <1>3, <2>1, <3>1
    <3> HIDE DEF half
    <3>3. [half EXCEPT !.pc = next] = [pc |-> next, job |-> half.job, fee |-> half.fee]
      BY <3>2
    <3>4. [half EXCEPT !.pc = next] = [pc |-> next, job |-> work[s].job, fee |-> fee]
      BY <3>2, <3>3
    <3>5. QED
      BY <3>4 DEF half
  <2>3. work' = [[work EXCEPT ![s].fee = fee] EXCEPT ![s].pc = next]
    BY <1>1
  <2>4. [work EXCEPT ![s].fee = fee][s] = [work[s] EXCEPT !.fee = fee]
    BY DEF QueueInv, QueueTyped
  <2>5. work' = [work EXCEPT ![s] = [[work[s] EXCEPT !.fee = fee] EXCEPT !.pc = next]]
    BY <2>3, <2>4 DEF QueueInv, QueueTyped
  <2>6. QED
    BY <2>2, <2>5
<1>7. QueueInv' /\ OverStays /\ Done' = Done
  BY <1>2, <1>3, <1>5, <1>6, MoveQueue DEF QueueKept, Typed, queue
<1>8. /\ work'[s] = [pc |-> next, job |-> work[s].job, fee |-> fee]
      /\ OthersKept(s)
  BY <1>6 DEF OthersKept, QueueInv, QueueTyped
<1>9. \A t \in Slots : Stage(t)'
  <2>1. Stage(s)'
    BY <1>2, <1>3, <1>4, <1>5, <1>8 DEF Stage, AtStep, EventOf, KindOf, Kind, Priced
  <2>2. \A t \in Slots : t # s => Stage(t)'
    BY <1>2, <1>8, OtherStages
  <2>3. QED
    BY <2>1, <2>2
<1>10. Sources'
  BY <1>2 DEF RowInv, Sources, Kind
<1>11. Settled'
  BY <1>2, <1>7
     DEF RowInv, Settled, TokensBackfilled, PricedSwapKept, PositionNotDropped, Kind
<1>12. InOrder'
  BY <1>2, <1>3, <1>7, <1>8, SlotOrder
<1>13. Latest'
  <2>1. ASSUME NEW t \in Slots, AtStep(t, "row")', KindOf(t)' = "swap"
        PROVE  t # s
    BY <1>5, <1>8, <2>1 DEF AtStep, KindOf, EventOf, Kind
  <2>2. QED
    BY <1>2, <1>7, <1>8, <2>1
       DEF RowInv, Latest, Kind, AtStep, KindOf, EventOf, OthersKept
<1>14. QED
  BY <1>7, <1>9, <1>10, <1>11, <1>12, <1>13 DEF RowInv

\* What the statement on the pool's row leaves behind.
LEMMA PoolWritten ==
    ASSUME Typed, NEW e \in Events
    PROVE  /\ CreatedPool(e) \in PoolRow
           /\ CreatedPool(e).tokens = "known"
           /\ CreatedPool(e).price = e
           /\ CreatedPool(e).state = pool.state
           /\ SwappedPool(e) \in PoolRow
           /\ SwappedPool(e).price = e
           /\ SwappedPool(e).state = e
           /\ pool.tokens = "known" => SwappedPool(e).tokens = "known"
           /\ \A row \in PoolRow : row # NoPool
<1>1. pool \in PoolRow \/ pool = NoPool
  BY DEF Typed
<1>2. None \notin Events
  BY StoryTyped DEF Typed
<1>3. \A row \in PoolRow : row.tokens # "none"
  BY DEF PoolRow
<1>4. /\ CreatedPool(e) \in PoolRow
      /\ CreatedPool(e).tokens = "known"
      /\ CreatedPool(e).price = e
      /\ CreatedPool(e).state = pool.state
  <2>1. CASE pool = NoPool
    <3>1. CreatedPool(e) = [tokens |-> "known", price |-> e, state |-> None]
      BY <2>1 DEF CreatedPool
    <3>2. pool.state = None
      BY <2>1 DEF NoPool
    <3>3. QED
      BY <3>1, <3>2 DEF PoolRow
  <2>2. CASE pool \in PoolRow
    <3>1. pool # NoPool
      BY <1>3, <2>2 DEF NoPool
    <3>2. CreatedPool(e) = [pool EXCEPT !.tokens = "known", !.price = e]
      BY <3>1 DEF CreatedPool
    <3>3. QED
      BY <2>2, <3>2 DEF PoolRow
  <2>3. QED
    BY <1>1, <2>1, <2>2
<1>5. /\ SwappedPool(e) \in PoolRow
      /\ SwappedPool(e).price = e
      /\ SwappedPool(e).state = e
      /\ pool.tokens = "known" => SwappedPool(e).tokens = "known"
  <2>1. CASE pool = NoPool
    <3>1. SwappedPool(e) = [tokens |-> "unknown", price |-> e, state |-> e]
      BY <2>1 DEF SwappedPool
    <3>2. pool.tokens = "none"
      BY <2>1 DEF NoPool
    <3>3. QED
      BY <3>1, <3>2 DEF PoolRow
  <2>2. CASE pool \in PoolRow
    <3>1. pool # NoPool
      BY <1>3, <2>2 DEF NoPool
    <3>2. SwappedPool(e) = [tokens |-> pool.tokens, price |-> e, state |-> e]
      BY <3>1 DEF SwappedPool
    <3>3. QED
      BY <2>2, <3>2 DEF PoolRow
  <2>3. QED
    BY <1>1, <2>1, <2>2
<1>6. QED
  BY <1>3, <1>4, <1>5 DEF NoPool

\* The pool that its creation fills in is created from then on.
LEMMA CreatePoolRows ==
    ASSUME Typed, QueueInv, RowInv, UNCHANGED delivery, NEW s \in Slots, CreatePool(s)
    PROVE  QueueInv' /\ RowInv'
<1> DEFINE e == EventOf(s)
<1>1. /\ work[s].pc = "pool" /\ KindOf(s) = "created"
      /\ pool' = CreatedPool(e)
      /\ UNCHANGED <<raw, swapRows, position, swallowed>>
      /\ Return(s)
  BY DEF CreatePool, AtStep
<1>2. Busy(s) /\ e \in Events /\ Kind(e) = "created"
  BY <1>1, BusyTyped DEF Busy, Typed, QueueInv, KindOf
<1>3. /\ QueueInv' /\ OverStays /\ Done' = Done \cup {e}
      /\ work' = [work EXCEPT ![s] = Free]
  BY <1>1, <1>2, ReturnQueue DEF QueueKept, Typed
<1>4. /\ work'[s] = Free /\ OthersKept(s) /\ ~Busy(s)'
  BY <1>3 DEF OthersKept, QueueInv, QueueTyped, Busy, Free
<1>5. e \in raw
  BY <1>1 DEF RowInv, Stage
<1>6. /\ pool'.tokens = "known" /\ pool'.price = e /\ pool'.state = pool.state
      /\ pool' # NoPool
  BY <1>1, <1>2, PoolWritten
<1> HIDE DEF e
<1>7. \A t \in Slots : Stage(t)'
  <2>1. Stage(s)'
    BY <1>4 DEF Stage, AtStep, Free
  <2>2. \A t \in Slots : t # s => Stage(t)'
    BY <1>1, <1>4, <1>6, OtherStages
  <2>3. QED
    BY <2>1, <2>2
<1>8. Sources'
  BY <1>1, <1>2, <1>5, <1>6 DEF RowInv, Sources, Kind, Priced
<1>9. Settled'
  BY <1>1, <1>2, <1>3, <1>5, <1>6
     DEF RowInv, Settled, TokensBackfilled, PricedSwapKept, PositionNotDropped, Kind
<1>10. InOrder'
  BY <1>1, <1>2, <1>3, <1>4, SlotOrder
<1>11. Latest'
  <2> SUFFICES ASSUME delivery.ordered, swallowed = {}
               PROVE  /\ \A f \in Done' :
                            /\ Kind(f) \in Priced => f <= pool'.price
                            /\ Kind(f) = "swap" => f <= pool'.state
                            /\ Kind(f) \in Held => f <= position.liquidity
                            /\ Kind(f) = "burned" => position.closed
                      /\ \A t \in Slots : ~(AtStep(t, "row") /\ KindOf(t) = "swap")'
    BY <1>1 DEF Latest, Kind
  <2>1. \A f \in raw : f <= e
    BY <1>2, Foremost DEF RowInv, e
  <2>2. \A f \in Done' : f \in raw /\ f <= pool'.price
    BY <1>3, <1>5, <1>6, <2>1 DEF RowInv, Settled
  <2>3. \A f \in Done' : f \in Done \/ Kind(f) = "created"
    BY <1>2, <1>3
  <2>4. ASSUME NEW t \in Slots, AtStep(t, "row")'
        PROVE  KindOf(t)' = "created"
    <3>1. t # s
      BY <1>4, <2>4 DEF AtStep, Free
    <3>2. work'[t] = work[t] /\ Busy(t)
      BY <1>4, <2>4, <3>1 DEF OthersKept, AtStep, Busy
    <3>3. EventOf(t) = e
      BY <1>2, <3>2, Foremost DEF RowInv, e
    <3>4. QED
      BY <1>2, <3>2, <3>3 DEF KindOf, EventOf, Kind
  <2>5. QED
    BY <1>6, <2>2, <2>3, <2>4 DEF RowInv, Latest, Held
<1>12. QED
  BY <1>3, <1>7, <1>8, <1>9, <1>10, <1>11 DEF RowInv

\* The pool has the swap's price from then on, and its slot goes to the row.
LEMMA SwapPoolRows ==
    ASSUME Typed, QueueInv, RowInv, UNCHANGED delivery, NEW s \in Slots, SwapPool(s)
    PROVE  QueueInv' /\ RowInv'
<1> DEFINE e == EventOf(s)
<1>1. /\ work[s].pc = "pool" /\ KindOf(s) = "swap"
      /\ pool' = SwappedPool(e)
      /\ work' = [work EXCEPT ![s].pc = "row"]
      /\ UNCHANGED <<raw, swapRows, position, jobState, attempts, swallowed>>
  BY DEF SwapPool, AtStep, Goto, queue
<1>2. /\ Busy(s) /\ e \in Events /\ Kind(e) = "swap"
      /\ work[s] \in [pc : {"raw", "fee", "pool", "row", "position"},
                      job : Jobs, fee : Fees]
  BY <1>1, BusyTyped DEF Busy, Typed, QueueInv, KindOf
<1>3. e \in raw /\ work[s].fee # "none"
  BY <1>1 DEF RowInv, Stage, AtStep
<1>4. work' = [work EXCEPT ![s] = [pc |-> "row", job |-> work[s].job, fee |-> work[s].fee]]
  <2>1. [work[s] EXCEPT !.pc = "row"]
            = [pc |-> "row", job |-> work[s].job, fee |-> work[s].fee]
    BY <1>2
  <2>2. work' = [work EXCEPT ![s] = [work[s] EXCEPT !.pc = "row"]]
    BY <1>1
  <2>3. QED
    BY <2>1, <2>2
<1>5. work[s].job \in Jobs /\ work[s].fee \in Fees
  BY <1>2
<1>6. QueueInv' /\ OverStays /\ Done' = Done
  BY <1>1, <1>2, <1>4, <1>5, MoveQueue DEF QueueKept, Typed, queue
<1>7. /\ work'[s] = [pc |-> "row", job |-> work[s].job, fee |-> work[s].fee]
      /\ OthersKept(s)
  BY <1>4 DEF OthersKept, QueueInv, QueueTyped
<1>8. /\ pool'.price = e /\ pool'.state = e /\ pool' # NoPool
      /\ pool.tokens = "known" => pool'.tokens = "known"
  BY <1>1, <1>2, PoolWritten
<1> HIDE DEF e
<1>9. \A t \in Slots : Stage(t)'
  <2>1. EventOf(s)' = e /\ KindOf(s)' = "swap"
    BY <1>2, <1>7 DEF EventOf, KindOf, Kind, e
  <2>2. Stage(s)'
    BY <1>1, <1>3, <1>7, <1>8, <2>1 DEF Stage, AtStep
  <2>3. \A t \in Slots : t # s => Stage(t)'
    BY <1>1, <1>7, <1>8, OtherStages
  <2>4. QED
    BY <2>2, <2>3
<1>10. Sources'
  BY <1>1, <1>2, <1>3, <1>8 DEF RowInv, Sources, Kind, Priced
<1>11. Settled'
  BY <1>1, <1>6, <1>8
     DEF RowInv, Settled, TokensBackfilled, PricedSwapKept, PositionNotDropped, Kind
<1>12. InOrder'
  BY <1>1, <1>2, <1>6, <1>7, SlotOrder
<1>13. Latest'
  <2> SUFFICES ASSUME delivery.ordered, swallowed = {}
               PROVE  /\ \A f \in Done' :
                            /\ Kind(f) \in Priced => f <= pool'.price
                            /\ Kind(f) = "swap" => f <= pool'.state
                            /\ Kind(f) \in Held => f <= position.liquidity
                            /\ Kind(f) = "burned" => position.closed
                      /\ \A t \in Slots : AtStep(t, "row")' =>
                            EventOf(t)' <= pool'.price /\ EventOf(t)' <= pool'.state
    BY <1>1 DEF Latest, Kind
  <2>1. \A f \in raw : f <= e
    BY <1>2, Foremost DEF RowInv, e
  <2>2. \A f \in Done' : f \in Done /\ f <= e
    BY <1>6, <2>1 DEF RowInv, Settled
  <2>3. ASSUME NEW t \in Slots, AtStep(t, "row")'
        PROVE  EventOf(t)' = e
    <3>1. EventOf(t)' = EventOf(t) /\ Busy(t)
      BY <1>2, <1>7, <2>3 DEF OthersKept, AtStep, Busy, EventOf
    <3>2. QED
      BY <1>2, <3>1, Foremost DEF RowInv, e
  <2>4. e <= e
    BY <1>2, StoryTyped DEF Typed
  <2>5. QED
    BY <1>8, <2>2, <2>3, <2>4 DEF RowInv, Latest
<1>14. QED
  BY <1>6, <1>9, <1>10, <1>11, <1>12, <1>13 DEF RowInv

\* The swap's row is written, or is there, or its pool is missing.
LEMMA InsertSwapRows ==
    ASSUME Typed, QueueInv, RowInv, UNCHANGED delivery, NEW s \in Slots, InsertSwap(s)
    PROVE  QueueInv' /\ RowInv'
<1> DEFINE e == EventOf(s)
<1>1. /\ work[s].pc = "row"
      /\ swapRows' = IF pool # NoPool /\ swapRows[e] = "none"
                     THEN [swapRows EXCEPT ![e] = work[s].fee] ELSE swapRows
      /\ UNCHANGED <<raw, pool, position, swallowed>>
      /\ Return(s)
  BY DEF InsertSwap, AtStep
<1>2. Busy(s) /\ e \in Events
  BY <1>1, BusyTyped DEF Busy, Typed, QueueInv
<1>3. /\ e \in raw /\ work[s].fee # "none"
      /\ Kind(e) \in {"swap", "unpriced"}
      /\ Kind(e) = "swap" => pool # NoPool
  BY <1>1 DEF RowInv, Stage, AtStep, KindOf
<1>4. /\ QueueInv' /\ OverStays /\ Done' = Done \cup {e}
      /\ work' = [work EXCEPT ![s] = Free]
  BY <1>1, <1>2, ReturnQueue DEF QueueKept, Typed
<1>5. /\ work'[s] = Free /\ OthersKept(s) /\ ~Busy(s)'
  BY <1>4 DEF OthersKept, QueueInv, QueueTyped, Busy, Free
<1>6. /\ pool # NoPool => swapRows'[e] # "none"
      /\ \A f \in Events : swapRows[f] # "none" => swapRows'[f] # "none"
  BY <1>1, <1>2, <1>3 DEF Typed
<1>7. Kind(e) = "swap" /\ delivery.ordered /\ swallowed = {} =>
          e <= pool.price /\ e <= pool.state
  BY <1>1 DEF RowInv, Latest, AtStep, KindOf
<1> HIDE DEF e
<1>8. \A t \in Slots : Stage(t)'
  <2>1. Stage(s)'
    BY <1>5 DEF Stage, AtStep, Free
  <2>2. \A t \in Slots : t # s => Stage(t)'
    BY <1>1, <1>5, OtherStages
  <2>3. QED
    BY <2>1, <2>2
<1>9. Sources'
  BY <1>1 DEF RowInv, Sources, Kind
<1>10. Settled'
  <2>1. Done' \subseteq raw'
    BY <1>1, <1>3, <1>4 DEF RowInv, Settled
  <2>2. TokensBackfilled' /\ PositionNotDropped'
    BY <1>1, <1>3, <1>4
       DEF RowInv, Settled, TokensBackfilled, PositionNotDropped, Kind
  <2>3. PricedSwapKept'
    <3>1. raw \subseteq Events
      BY DEF Typed
    <3>2. ASSUME NEW f \in Done' \ swallowed', Kind(f)' = "swap"
          PROVE  swapRows'[f] # "none"
      <4>1. CASE f = e
        BY <1>3, <1>6, <3>2, <4>1 DEF Kind
      <4>2. CASE f # e
        <5>1. f \in Done \ swallowed /\ Kind(f) = "swap"
          BY <1>1, <1>4, <3>2, <4>2 DEF Kind
        <5>2. f \in Events /\ swapRows[f] # "none"
          BY <3>1, <5>1 DEF RowInv, Settled, PricedSwapKept
        <5>3. QED
          BY <1>6, <5>2
      <4>3. QED
        BY <4>1, <4>2
    <3>3. QED
      BY <3>2 DEF PricedSwapKept
  <2>4. QED
    BY <2>1, <2>2, <2>3 DEF Settled
<1>11. InOrder'
  BY <1>1, <1>2, <1>4, <1>5, SlotOrder
<1>12. Latest'
  <2> SUFFICES ASSUME delivery.ordered, swallowed = {}
               PROVE  /\ \A f \in Done' :
                            /\ Kind(f) \in Priced => f <= pool.price
                            /\ Kind(f) = "swap" => f <= pool.state
                            /\ Kind(f) \in Held => f <= position.liquidity
                            /\ Kind(f) = "burned" => position.closed
                      /\ \A t \in Slots : AtStep(t, "row")' /\ KindOf(t)' = "swap" =>
                            EventOf(t)' <= pool.price /\ EventOf(t)' <= pool.state
    BY <1>1 DEF Latest, Kind
  <2>1. \A f \in Done' : f \in Done \/ f = e
    BY <1>4
  <2>2. ASSUME NEW t \in Slots, AtStep(t, "row")', KindOf(t)' = "swap"
        PROVE  EventOf(t)' <= pool.price /\ EventOf(t)' <= pool.state
    <3>1. t # s
      BY <1>5, <2>2 DEF AtStep, Free
    <3>2. AtStep(t, "row") /\ KindOf(t) = "swap" /\ EventOf(t)' = EventOf(t)
      BY <1>5, <2>2, <3>1 DEF OthersKept, AtStep, KindOf, EventOf, Kind
    <3>3. QED
      BY <3>2 DEF RowInv, Latest
  <2>3. QED
    BY <1>3, <1>7, <2>1, <2>2 DEF RowInv, Latest, Priced, Held
<1>13. QED
  BY <1>4, <1>8, <1>9, <1>10, <1>11, <1>12 DEF RowInv

\* What the statement on the position's row leaves behind.
LEMMA PositionWritten ==
    ASSUME Typed, NEW e \in Events, Kind(e) \in Held
    PROVE  /\ HeldPosition(e) \in [liquidity : Events, closed : BOOLEAN]
           /\ HeldPosition(e) # NoPosition
           /\ HeldPosition(e).liquidity = e
           /\ HeldPosition(e).closed <=> position.closed \/ Kind(e) = "burned"
<1>1. position.closed \in BOOLEAN
  <2>1. CASE position = NoPosition
    BY <2>1 DEF NoPosition
  <2>2. CASE position \in [liquidity : Events, closed : BOOLEAN]
    BY <2>2
  <2>3. QED
    BY <2>1, <2>2 DEF Typed
<1>2. HeldPosition(e) = [liquidity |-> e, closed |-> position.closed \/ Kind(e) = "burned"]
  BY DEF HeldPosition
<1>3. e # None
  BY StoryTyped DEF Typed
<1>4. HeldPosition(e).liquidity = e
  BY <1>2
<1>5. HeldPosition(e).closed <=> position.closed \/ Kind(e) = "burned"
  <2>1. HeldPosition(e).closed = (position.closed \/ Kind(e) = "burned")
    BY <1>2
  <2>2. QED
    BY <2>1
<1>6. HeldPosition(e) # NoPosition
  BY <1>3, <1>4 DEF NoPosition
<1>7. HeldPosition(e) \in [liquidity : Events, closed : BOOLEAN]
  BY <1>1, <1>2
<1>8. QED
  BY <1>4, <1>5, <1>6, <1>7

\* A slot's statement on the position's row is carried out, and its job is over
\* or will be tried again.
LEMMA PositionRows ==
    ASSUME Typed, QueueInv, RowInv, NEW s \in Slots, work[s].pc = "position",
           UNCHANGED <<delivery, raw, pool, swapRows, swallowed>>,
           position' = HeldPosition(EventOf(s)),
           OverStays, Done' \in {Done, Done \cup {EventOf(s)}},
           work' = [work EXCEPT ![s] = Free]
    PROVE  RowInv'
<1> DEFINE e == EventOf(s)
<1>1. Busy(s) /\ e \in Events
  BY BusyTyped DEF Busy, Typed, QueueInv
<1>2. e \in raw /\ Kind(e) \in Held
  BY DEF RowInv, Stage, AtStep, KindOf
<1>3. /\ work'[s] = Free /\ OthersKept(s) /\ ~Busy(s)'
  BY DEF OthersKept, QueueInv, QueueTyped, Busy, Free
<1>4. /\ position' # NoPosition
      /\ position'.liquidity = e
      /\ position'.closed <=> position.closed \/ Kind(e) = "burned"
  BY <1>1, <1>2, PositionWritten
<1>5. Done' \in {Done, Done \cup {e}}
  OBVIOUS
<1> HIDE DEF e
<1>6. \A t \in Slots : Stage(t)'
  <2>1. Stage(s)'
    BY <1>3 DEF Stage, AtStep, Free
  <2>2. \A t \in Slots : t # s => Stage(t)'
    BY <1>3, OtherStages
  <2>3. QED
    BY <2>1, <2>2
<1>7. Sources'
  <2>1. /\ position'.liquidity \in raw'
        /\ delivery'.story[position'.liquidity] \in Held
    BY <1>2, <1>4 DEF Kind
  <2>2. position'.closed => \E f \in raw' : delivery'.story[f] = "burned"
    <3>1. ASSUME Kind(e) = "burned"
          PROVE  \E f \in raw' : delivery'.story[f] = "burned"
      BY <1>2, <3>1 DEF Kind
    <3>2. ASSUME position.closed
          PROVE  \E f \in raw' : delivery'.story[f] = "burned"
      BY <3>2 DEF RowInv, Sources, Kind
    <3>3. QED
      BY <1>4, <3>1, <3>2
  <2>3. /\ pool'.price # None =>
              pool'.price \in raw' /\ delivery'.story[pool'.price] \in Priced
        /\ pool'.state # None =>
              pool'.state \in raw' /\ delivery'.story[pool'.state] = "swap"
    BY DEF RowInv, Sources, Kind
  <2>4. QED
    BY <2>1, <2>2, <2>3 DEF Sources, Kind
<1>8. Settled'
  BY <1>2, <1>4, <1>5
     DEF RowInv, Settled, TokensBackfilled, PricedSwapKept, PositionNotDropped, Kind, Held
<1>9. InOrder'
  BY <1>1, <1>3, SlotOrder
<1>10. Latest'
  <2> SUFFICES ASSUME delivery.ordered, swallowed = {}
               PROVE  /\ \A f \in Done' :
                            /\ Kind(f) \in Priced => f <= pool.price
                            /\ Kind(f) = "swap" => f <= pool.state
                            /\ Kind(f) \in Held => f <= position'.liquidity
                            /\ Kind(f) = "burned" => position'.closed
                      /\ \A t \in Slots : AtStep(t, "row")' /\ KindOf(t)' = "swap" =>
                            EventOf(t)' <= pool.price /\ EventOf(t)' <= pool.state
    BY DEF Latest, Kind
  <2>1. \A f \in raw : f <= e
    BY <1>1, Foremost DEF RowInv, e
  <2>2. \A f \in Done' : (f \in Done \/ f = e) /\ f <= e
    BY <1>2, <1>5, <2>1 DEF RowInv, Settled
  <2>3. ASSUME NEW t \in Slots, AtStep(t, "row")', KindOf(t)' = "swap"
        PROVE  EventOf(t)' <= pool.price /\ EventOf(t)' <= pool.state
    <3>1. t # s
      BY <1>3, <2>3 DEF AtStep, Free
    <3>2. AtStep(t, "row") /\ KindOf(t) = "swap" /\ EventOf(t)' = EventOf(t)
      BY <1>3, <2>3, <3>1 DEF OthersKept, AtStep, KindOf, EventOf, Kind
    <3>3. QED
      BY <3>2 DEF RowInv, Latest
  <2>4. QED
    BY <1>2, <1>4, <2>2, <2>3 DEF RowInv, Latest, Priced, Held
<1>11. QED
  BY <1>6, <1>7, <1>8, <1>9, <1>10 DEF RowInv

\* The position has the event's liquidity from then on.
LEMMA UpsertPositionRows ==
    ASSUME Typed, QueueInv, RowInv, UNCHANGED delivery, NEW s \in Slots,
           UpsertPosition(s)
    PROVE  QueueInv' /\ RowInv'
<1>1. /\ work[s].pc = "position"
      /\ position' = HeldPosition(EventOf(s))
      /\ UNCHANGED <<raw, pool, swapRows, swallowed>>
      /\ Return(s)
  BY DEF UpsertPosition, AtStep
<1>2. /\ QueueInv' /\ OverStays /\ Done' = Done \cup {EventOf(s)}
      /\ work' = [work EXCEPT ![s] = Free]
  BY <1>1, ReturnQueue DEF QueueKept, Typed, Busy
<1>3. RowInv'
  BY <1>1, <1>2, PositionRows
<1>4. QED
  BY <1>2, <1>3

LEMMA PositionWithoutPoolRows ==
    ASSUME Typed, QueueInv, RowInv, UNCHANGED delivery, NEW s \in Slots,
           PositionWithoutPool(s)
    PROVE  QueueInv' /\ RowInv'
<1>1. work[s].pc = "position" /\ Throw(s) /\ UNCHANGED <<rows, swallowed>>
  BY DEF PositionWithoutPool, AtStep
<1>2. /\ QueueInv' /\ OverStays /\ Done' = Done
      /\ work' = [work EXCEPT ![s] = Free]
  BY <1>1, ThrowQueue DEF QueueKept, Typed, Busy
<1>3. \A t \in Slots : Busy(t)' => work'[t] = work[t]
  BY <1>2 DEF Busy, Free, QueueInv, QueueTyped
<1>4. QED
  BY <1>1, <1>2, <1>3, QuietRows

\* The event's own row is written, and the handler does not hear of it.
LEMMA RawLeftRows ==
    ASSUME Typed, QueueInv, RowInv, NEW s \in Slots, work[s].pc = "raw",
           UNCHANGED <<delivery, pool, swapRows, position, swallowed>>,
           raw' = raw \cup {EventOf(s)},
           OverStays, Done' = Done, work' = [work EXCEPT ![s] = Free]
    PROVE  RowInv'
<1>1. Busy(s)
  BY DEF Busy
<1>2. /\ work'[s] = Free /\ OthersKept(s) /\ ~Busy(s)'
  BY DEF OthersKept, QueueInv, QueueTyped, Busy, Free
<1>3. \A t \in Slots : Stage(t)'
  <2>1. Stage(s)'
    BY <1>2 DEF Stage, AtStep, Free
  <2>2. \A t \in Slots : t # s => Stage(t)'
    BY <1>2, OtherStages
  <2>3. QED
    BY <2>1, <2>2
<1>4. Sources'
  BY DEF RowInv, Sources, Kind
<1>5. Settled'
  BY DEF RowInv, Settled, TokensBackfilled, PricedSwapKept, PositionNotDropped, Kind
<1>6. InOrder'
  BY <1>1, <1>2, SlotOrder
<1>7. Latest'
  <2>1. \A t \in Slots : AtStep(t, "row")' => t # s
    BY <1>2 DEF AtStep, Free
  <2>2. QED
    BY <1>2, <2>1 DEF RowInv, Latest, Kind, AtStep, KindOf, EventOf, OthersKept
<1>8. QED
  BY <1>3, <1>4, <1>5, <1>6, <1>7 DEF RowInv

\* A statement outside the projections fails: nothing of it is there, or all.
LEMMA WriteFailsRows ==
    ASSUME Typed, QueueInv, RowInv, UNCHANGED delivery, NEW s \in Slots,
           WriteFails(s)
    PROVE  QueueInv' /\ RowInv'
<1>1. /\ work[s].pc \in {"raw", "position"}
      /\ Throw(s) /\ UNCHANGED <<pool, swapRows, swallowed>>
  BY DEF WriteFails, AtStep
<1>2. /\ QueueInv' /\ OverStays /\ Done' = Done
      /\ work' = [work EXCEPT ![s] = Free]
  BY <1>1, ThrowQueue DEF QueueKept, Typed, Busy
<1>3. CASE UNCHANGED <<raw, position>>
  <2>1. \A t \in Slots : Busy(t)' => work'[t] = work[t]
    BY <1>2 DEF Busy, Free, QueueInv, QueueTyped
  <2>2. QED
    BY <1>1, <1>2, <1>3, <2>1, QuietRows DEF rows
<1>4. CASE /\ work[s].pc = "raw" /\ raw' = raw \cup {EventOf(s)}
           /\ UNCHANGED position
  BY <1>1, <1>2, <1>4, RawLeftRows
<1>5. CASE /\ work[s].pc = "position" /\ position' = HeldPosition(EventOf(s))
           /\ UNCHANGED raw
  BY <1>1, <1>2, <1>5, PositionRows
<1>6. QED
  BY <1>3, <1>4, <1>5 DEF WriteFails, AtStep

\* A projection fails: nothing is claimed of its event any more, and the pool's
\* row holds what it held, or what the statement put there.
LEMMA ProjectFailsRows ==
    ASSUME Typed, QueueInv, RowInv, UNCHANGED delivery, NEW s \in Slots,
           ProjectFails(s)
    PROVE  QueueInv' /\ RowInv'
<1> DEFINE e == EventOf(s)
<1>1. /\ work[s].pc \in {"pool", "row"}
      /\ swallowed' = swallowed \cup {e}
      /\ UNCHANGED <<raw, swapRows, position>>
      /\ Return(s)
  BY DEF ProjectFails, AtStep
<1>2. Busy(s) /\ e \in Events
  BY <1>1, BusyTyped DEF Busy, Typed, QueueInv
<1>3. e \in raw /\ Kind(e) \notin Held
  BY <1>1 DEF RowInv, Stage, AtStep, KindOf, Priced, Held
<1>4. /\ QueueInv' /\ OverStays /\ Done' = Done \cup {e}
      /\ work' = [work EXCEPT ![s] = Free]
  BY <1>1, <1>2, ReturnQueue DEF QueueKept, Typed
<1>5. /\ work'[s] = Free /\ OthersKept(s) /\ ~Busy(s)'
  BY <1>4 DEF OthersKept, QueueInv, QueueTyped, Busy, Free
<1>6. \/ pool' = pool
      \/ Kind(e) = "created" /\ pool' = CreatedPool(e)
      \/ Kind(e) = "swap" /\ pool' = SwappedPool(e)
  BY DEF ProjectFails, AtStep, RowInv, Stage, KindOf, Priced
<1> HIDE DEF e
<1>7. /\ pool # NoPool => pool' # NoPool
      /\ pool.tokens = "known" => pool'.tokens = "known"
      /\ pool'.price = pool.price \/ (pool'.price = e /\ Kind(e) \in Priced)
      /\ pool'.state = pool.state \/ (pool'.state = e /\ Kind(e) = "swap")
  BY <1>2, <1>6, PoolWritten DEF Priced
<1>8. \A t \in Slots : Stage(t)'
  <2>1. Stage(s)'
    BY <1>5 DEF Stage, AtStep, Free
  <2>2. \A t \in Slots : t # s => Stage(t)'
    BY <1>1, <1>5, <1>7, OtherStages
  <2>3. QED
    BY <2>1, <2>2
<1>9. Sources'
  <2>1. pool'.price # None =>
            pool'.price \in raw' /\ delivery'.story[pool'.price] \in Priced
    BY <1>1, <1>3, <1>7 DEF RowInv, Sources, Kind
  <2>2. pool'.state # None =>
            pool'.state \in raw' /\ delivery'.story[pool'.state] = "swap"
    BY <1>1, <1>3, <1>7 DEF RowInv, Sources, Kind
  <2>3. /\ position'.liquidity # None =>
              /\ position'.liquidity \in raw'
              /\ delivery'.story[position'.liquidity] \in Held
        /\ position'.closed => \E f \in raw' : delivery'.story[f] = "burned"
    BY <1>1 DEF RowInv, Sources, Kind
  <2>4. QED
    BY <2>1, <2>2, <2>3 DEF Sources, Kind
<1>10. Settled'
  BY <1>1, <1>3, <1>4, <1>7
     DEF RowInv, Settled, TokensBackfilled, PricedSwapKept, PositionNotDropped, Kind, Held
<1>11. InOrder'
  BY <1>1, <1>2, <1>4, <1>5, SlotOrder
<1>12. Latest'
  BY <1>1 DEF Latest
<1>13. QED
  BY <1>4, <1>8, <1>9, <1>10, <1>11, <1>12 DEF RowInv

----------------------------------------------------------------------------
(* The invariant                                                           *)

\* The rows keep their types.
LEMMA TypedKept ==
    ASSUME Typed, QueueInv, RowInv, ProjectionNext
    PROVE  Typed'
<1>1. delivery' = delivery /\ Events' = Events
  BY SameStory DEF ProjectionNext
<1>2. PoolRow' = PoolRow
  BY <1>1 DEF PoolRow
<1>3. \A s \in Slots : Busy(s) => EventOf(s) \in Events
  BY BusyTyped DEF Typed, QueueInv
<1>4. delivery' \in Deliveries
  BY <1>1 DEF Typed
<1> USE DEF Typed, Busy, AtStep
<1>5. raw' \subseteq Events /\ swallowed' \subseteq Events
      /\ faults' \in 0 .. MaxFaults /\ crashes' \in 0 .. MaxCrashes
  <2>1. ASSUME NEW j \in Jobs, Enqueue(j)
        PROVE  UNCHANGED <<raw, swallowed, faults, crashes>>
    BY <2>1 DEF Enqueue, rows
  <2>2. ASSUME NEW s \in Slots, NEW j \in Jobs, Take(s, j)
        PROVE  UNCHANGED <<raw, swallowed, faults, crashes>>
    BY <2>2 DEF Take, rows
  <2>3. ASSUME NEW s \in Slots, Run(s)
        PROVE  /\ raw' \subseteq raw \cup {EventOf(s)}
               /\ swallowed' \subseteq swallowed \cup {EventOf(s)}
               /\ EventOf(s) \in Events
               /\ faults' = faults \/ Fault
               /\ crashes' = crashes
    <3>1. Busy(s)
      BY <2>3 DEF Run, WriteRaw, ResolveFee, ResolveFeeFails, CreatePool, SwapPool,
                  InsertSwap, UpsertPosition, PositionWithoutPool, WriteFails,
                  ProjectFails
    <3>2. QED
      BY <1>3, <2>3, <3>1
         DEF Run, WriteRaw, ResolveFee, ResolveFeeFails, CreatePool, SwapPool,
             InsertSwap, UpsertPosition, PositionWithoutPool, WriteFails,
             ProjectFails, rows
  <2>4. CASE Crash
    BY <2>4 DEF Crash, rows
  <2>5. QED
    BY <2>1, <2>2, <2>3, <2>4 DEF ProjectionNext, Fault
<1>6. pool' \in PoolRow \cup {NoPool}
  <2>1. ASSUME NEW s \in Slots, Run(s)
        PROVE  \/ pool' = pool
               \/ /\ EventOf(s) \in Events
                  /\ pool' \in {CreatedPool(EventOf(s)), SwappedPool(EventOf(s))}
    BY <1>3, <2>1
       DEF Run, WriteRaw, ResolveFee, ResolveFeeFails, CreatePool, SwapPool,
           InsertSwap, UpsertPosition, PositionWithoutPool, WriteFails,
           ProjectFails, rows
  <2>2. ASSUME NEW s \in Slots, Run(s)
        PROVE  pool' \in PoolRow \cup {NoPool}
    BY <2>1, <2>2, PoolWritten
  <2>3. QED
    BY <2>2 DEF ProjectionNext, Enqueue, Take, Crash, rows
<1>7. position' \in [liquidity : Events, closed : BOOLEAN] \cup {NoPosition}
  <2>1. ASSUME NEW s \in Slots, Run(s)
        PROVE  \/ position' = position
               \/ /\ EventOf(s) \in Events /\ Kind(EventOf(s)) \in Held
                  /\ position' = HeldPosition(EventOf(s))
    <3>1. AtStep(s, "position") => EventOf(s) \in Events /\ Kind(EventOf(s)) \in Held
      BY <1>3 DEF RowInv, Stage, KindOf
    <3>2. QED
      BY <2>1, <3>1
         DEF Run, WriteRaw, ResolveFee, ResolveFeeFails, CreatePool, SwapPool,
             InsertSwap, UpsertPosition, PositionWithoutPool, WriteFails,
             ProjectFails, rows
  <2>2. ASSUME NEW s \in Slots, Run(s)
        PROVE  position' \in [liquidity : Events, closed : BOOLEAN] \cup {NoPosition}
    BY <2>1, <2>2, PositionWritten
  <2>3. QED
    BY <2>2 DEF ProjectionNext, Enqueue, Take, Crash, rows
<1>8. swapRows' \in [Events -> Fees]
  <2>1. ASSUME NEW s \in Slots, InsertSwap(s)
        PROVE  swapRows' \in [Events -> Fees]
    <3>1. EventOf(s) \in Events /\ work[s].fee \in Fees
      BY <2>1, BusyTyped DEF InsertSwap, QueueInv
    <3>2. QED
      BY <2>1, <3>1 DEF InsertSwap
  <2>2. ASSUME NEW s \in Slots, Run(s)
        PROVE  swapRows' = swapRows \/ InsertSwap(s)
    BY <2>2
       DEF Run, WriteRaw, ResolveFee, ResolveFeeFails, CreatePool, SwapPool,
           UpsertPosition, PositionWithoutPool, WriteFails, ProjectFails, rows
  <2>3. QED
    BY <2>1, <2>2 DEF ProjectionNext, Enqueue, Take, Crash, rows
<1>9. QED
  BY <1>1, <1>2, <1>4, <1>5, <1>6, <1>7, <1>8

\* The invariant holds at the start, of empty tables and queues.
LEMMA ProjectionInvInit ==
    ASSUME ProjectionInit
    PROVE  ProjectionInv
<1>1. Typed
  BY DEF ProjectionInit, Typed, Fees
<1>2. \A s \in Slots : ~Busy(s)
  BY DEF ProjectionInit, Busy, Free
<1>3. QueueInv
  <2>1. QueueTyped
    BY DEF ProjectionInit, QueueTyped
  <2>2. Slotted
    BY <1>2 DEF Slotted
  <2>3. Tries
    BY DEF ProjectionInit, Tries
  <2>4. QED
    BY <2>1, <2>2, <2>3 DEF QueueInv
<1>4. Done = {}
  BY DEF ProjectionInit, Done, Jobs
<1>5. RowInv
  <2>1. \A s \in Slots : Stage(s)
    BY <1>2 DEF Stage, Busy, AtStep
  <2>2. Sources
    BY DEF ProjectionInit, Sources, NoPool, NoPosition
  <2>3. Settled
    BY <1>4 DEF Settled, TokensBackfilled, PricedSwapKept, PositionNotDropped
  <2>4. InOrder
    BY <1>2 DEF InOrder, ProjectionInit
  <2>5. Latest
    BY <1>2, <1>4 DEF Latest, AtStep, Busy
  <2>6. QED
    BY <2>1, <2>2, <2>3, <2>4, <2>5 DEF RowInv
<1>6. QED
  BY <1>1, <1>3, <1>5 DEF ProjectionInv

\* Every step keeps it.
LEMMA ProjectionInvNext ==
    ASSUME ProjectionInv, [ProjectionNext]_vars
    PROVE  ProjectionInv'
<1> USE DEF ProjectionInv
<1>1. CASE ProjectionNext
  <2>1. UNCHANGED delivery /\ delivery \in Deliveries
    BY <1>1 DEF ProjectionNext, Typed
  <2>2. Typed'
    BY <1>1, TypedKept
  <2>3. ASSUME NEW j \in Jobs, Enqueue(j)
        PROVE  QueueInv' /\ RowInv'
    <3>1. QueueInv' /\ OverStays /\ Done' = Done /\ UNCHANGED work
      BY <2>1, <2>3, EnqueueQueue DEF QueueKept
    <3>2. UNCHANGED <<rows, swallowed>>
      BY <2>3 DEF Enqueue
    <3>3. RowInv'
      BY <2>1, <3>1, <3>2, QuietRows
    <3>4. QED
      BY <3>1, <3>3
  <2>4. ASSUME NEW s \in Slots, NEW j \in Jobs, Take(s, j)
        PROVE  QueueInv' /\ RowInv'
    BY <2>1, <2>4, TakeQueue, TakeRows DEF QueueKept
  <2>5. ASSUME NEW s \in Slots, Run(s)
        PROVE  QueueInv' /\ RowInv'
    BY <2>1, <2>5, WriteRawRows, FeeRows, CreatePoolRows, SwapPoolRows,
       InsertSwapRows, UpsertPositionRows, PositionWithoutPoolRows, WriteFailsRows,
       ProjectFailsRows
       DEF Run
  <2>6. ASSUME Crash
        PROVE  QueueInv' /\ RowInv'
    <3>1. QueueInv' /\ OverStays /\ Done' = Done /\ \A s \in Slots : ~Busy(s)'
      BY <2>1, <2>6, CrashQueue DEF QueueKept
    <3>2. UNCHANGED <<rows, swallowed>>
      BY <2>6 DEF Crash
    <3>3. RowInv'
      BY <2>1, <3>1, <3>2, QuietRows
    <3>4. QED
      BY <3>1, <3>3
  <2>7. QED
    BY <1>1, <2>2, <2>3, <2>4, <2>5, <2>6 DEF ProjectionNext
<1>2. CASE UNCHANGED vars
  <2>1. UNCHANGED <<delivery, raw, pool, swapRows, position, jobState, attempts, work,
                    swallowed, faults, crashes>>
    BY <1>2 DEF vars, rows, queue
  <2>2. Typed' /\ QueueInv'
    BY <2>1 DEF Typed, QueueInv, QueueTyped, Slotted, Tries, Busy, Events, Jobs, PoolRow
  <2>3. OverStays /\ Done' = Done
    BY <2>1, SameStory DEF OverStays, Over, Done
  <2>4. RowInv'
    BY <2>1, <2>3, QuietRows DEF rows
  <2>5. QED
    BY <2>2, <2>4
<1>3. QED
  BY <1>1, <1>2

\* Whatever the events and however their jobs interleave.
LEMMA ProjectionInvAlways == ProjectionSpec => []ProjectionInv
<1>1. ProjectionInit => ProjectionInv
  BY ProjectionInvInit
<1>2. ProjectionInv /\ [ProjectionNext]_vars => ProjectionInv'
  BY ProjectionInvNext
<1>3. QED
  BY <1>1, <1>2, PTL DEF ProjectionSpec

----------------------------------------------------------------------------
(* The theorems                                                            *)

\* Rows, jobs and slots keep their types.
THEOREM ProjectionTypeCorrect == ProjectionSpec => []ProjectionTypeOK
<1>1. ProjectionInv => ProjectionTypeOK
  BY DEF ProjectionInv, Typed, QueueInv, QueueTyped, ProjectionTypeOK
<1>2. QED
  BY <1>1, ProjectionInvAlways, PTL

\* An acknowledged pool.created whose projection did not fail has put the pool's
\* tokens in place for good, whatever swaps came before it or run beside it.
THEOREM TokensBackfilledCorrect == ProjectionSpec => []TokensBackfilled
<1>1. ProjectionInv => TokensBackfilled
  BY DEF ProjectionInv, RowInv, Settled
<1>2. QED
  BY <1>1, ProjectionInvAlways, PTL

\* An acknowledged swap with a price has its row unless its projection failed.
THEOREM PricedSwapKeptCorrect == ProjectionSpec => []PricedSwapKept
<1>1. ProjectionInv => PricedSwapKept
  BY DEF ProjectionInv, RowInv, Settled
<1>2. QED
  BY <1>1, ProjectionInvAlways, PTL

\* No job of a position's event is acknowledged without the position's row.
THEOREM PositionNotDroppedCorrect == ProjectionSpec => []PositionNotDropped
<1>1. ProjectionInv => PositionNotDropped
  BY DEF ProjectionInv, RowInv, Settled
<1>2. QED
  BY <1>1, ProjectionInvAlways, PTL

\* The last of some events is the one of them that none exceeds.
LEMMA LastIs ==
    ASSUME NEW S, S \subseteq Nat, NEW x,
           x = None => S = {}, x # None => x \in S, \A e \in S : e <= x
    PROVE  x = IF S = {} THEN None ELSE CHOOSE e \in S : \A f \in S : f <= e
<1>1. CASE S = {}
  BY <1>1
<1>2. CASE S # {}
  <2>1. x \in S /\ \A f \in S : f <= x
    BY <1>2
  <2>2. \A y \in S : (\A f \in S : f <= y) => y = x
    BY <2>1
  <2> DEFINE best == CHOOSE e \in S : \A f \in S : f <= e
  <2>3. best \in S /\ \A f \in S : f <= best
    BY <2>1
  <2>4. best = x
    BY <2>2, <2>3
  <2>5. (IF S = {} THEN None ELSE best) = best
    BY <1>2
  <2>6. QED
    BY <2>4, <2>5
<1>3. QED
  BY <1>1, <1>2

\* Events are positive, so none of them is at most None.
LEMMA NoneBelowNone ==
    ASSUME NEW S, S \subseteq Nat, None \notin S, NEW x, \A e \in S : e <= x
    PROVE  x = None => S = {}
BY DEF None

\* Indexed in the chain's order, the rows are what the chain's events add up to,
\* for every story, any retries and crashes and any number of jobs per event.
THEOREM RowsMatchChainCorrect == ProjectionSpec => []RowsMatchChain
<1>1. ProjectionInv => RowsMatchChain
  <2> SUFFICES ASSUME ProjectionInv, delivery.ordered, swallowed = {}, raw = Done
               PROVE  RowsMatchChain
    BY DEF RowsMatchChain
  <2> DEFINE done(kinds) == {e \in Done : Kind(e) \in kinds}
             Last(S) == IF S = {} THEN None ELSE CHOOSE e \in S : \A f \in S : f <= e
  <2>1. Done \subseteq Nat /\ None \notin Done
    BY StoryTyped DEF ProjectionInv, Typed
  <2>2. pool.price = Last(done(Priced))
    <3>1. pool.price # None => pool.price \in done(Priced)
      BY DEF ProjectionInv, RowInv, Sources
    <3>2. \A e \in done(Priced) : e <= pool.price
      BY DEF ProjectionInv, RowInv, Latest
    <3>3. pool.price = None => done(Priced) = {}
      BY <2>1, <3>2, NoneBelowNone
    <3>4. QED
      BY <2>1, <3>1, <3>2, <3>3, LastIs
  <2>3. pool.state = Last(done({"swap"}))
    <3>1. pool.state # None => pool.state \in done({"swap"})
      BY DEF ProjectionInv, RowInv, Sources
    <3>2. \A e \in done({"swap"}) : e <= pool.state
      BY DEF ProjectionInv, RowInv, Latest
    <3>3. pool.state = None => done({"swap"}) = {}
      BY <2>1, <3>2, NoneBelowNone
    <3>4. QED
      BY <2>1, <3>1, <3>2, <3>3, LastIs
  <2>4. position.liquidity = Last(done(Held))
    <3>1. position.liquidity # None => position.liquidity \in done(Held)
      BY DEF ProjectionInv, RowInv, Sources
    <3>2. \A e \in done(Held) : e <= position.liquidity
      BY DEF ProjectionInv, RowInv, Latest
    <3>3. position.liquidity = None => done(Held) = {}
      BY <2>1, <3>2, NoneBelowNone
    <3>4. QED
      BY <2>1, <3>1, <3>2, <3>3, LastIs
  <2>5. position.closed <=> done({"burned"}) # {}
    BY DEF ProjectionInv, RowInv, Sources, Latest
  <2>6. QED
    BY <2>2, <2>3, <2>4, <2>5 DEF RowsMatchChain, Priced, Held
<1>2. QED
  BY <1>1, ProjectionInvAlways, PTL
=============================================================================
