-------------------------- MODULE IndexerProjection --------------------------
(***************************************************************************)
(* The rows the indexer's handlers write for one pool and one position of  *)
(* it (apps/api/src/indexer/indexer.worker.ts: the handlers and the        *)
(* project* methods).                                                      *)
(*                                                                         *)
(* IndexerPipeline says when a job is run; here a job is waiting, running, *)
(* done or dead, an event can have several jobs (a page enqueued again, a  *)
(* dead-letter or ledger replay), and every statement a handler sends to   *)
(* Postgres is a step of its own, so that the jobs of several slots        *)
(* interleave between them.                                                *)
(*                                                                         *)
(* An event is its position on the chain.  A column is represented by the  *)
(* event its value came from; None stands for the value of a placeholder.  *)
(***************************************************************************)
EXTENDS Naturals, Sequences, FiniteSets

CONSTANTS
    Deliveries,     \* what the jobs can be about, and how they come
    Slots,          \* jobs that run side by side
    MaxAttempts,    \* attempts per job
    MaxFaults,      \* bound: statements that fail
    MaxCrashes      \* bound: crashes

\* A swap without a valid sqrtPriceX96 is "unpriced"; a position.burned event
\* that leaves liquidity is "reduced", one that leaves none "burned".
Kinds == {"created", "swap", "unpriced", "minted", "reduced", "burned"}

\* story: the kind of each event, in the order of the chain.  copies: the bound
\* on jobs per event.  ordered: the events are handled one by one, none before
\* the earlier ones are over.
Delivery == [story : Seq(Kinds), copies : Nat \ {0}, ordered : BOOLEAN]

ASSUME DeliveriesAssumption == Deliveries \subseteq Delivery
ASSUME ProjectionLimits ==
    MaxAttempts \in Nat \ {0} /\ {MaxFaults, MaxCrashes} \subseteq Nat

VARIABLES
    delivery,   \* which of the deliveries this is: it never changes
    raw,        \* events with a row in their event table
    pool,       \* the pool's row
    swapRows,   \* the fee of each swap row, "none" where there is none
    position,   \* the position's row
    jobState,   \* what BullMQ knows of each job
    attempts,   \* failed attempts of each job
    work,       \* what each slot is doing
    swallowed,  \* history: events whose projection failed without the job failing
    faults, crashes

rows == <<raw, pool, swapRows, position>>
queue == <<jobState, attempts>>
vars == <<delivery, rows, queue, work, swallowed, faults, crashes>>

Events == 1..Len(delivery.story)

Kind(e) == delivery.story[e]

Jobs == Events \X (1..delivery.copies)

None == 0
NoPool == [tokens |-> "none", price |-> None, state |-> None]
NoPosition == [liquidity |-> None, closed |-> FALSE]
Free == [pc |-> "free", job |-> <<0, 0>>, fee |-> "none"]

Fees == {"none", "zero", "tier"}

\* price: currentSqrtPrice; state: currentTick and liquidity.
PoolRow == [tokens : {"unknown", "known"}, price : Events, state : Events \cup {None}]

ProjectionTypeOK ==
    /\ delivery \in Deliveries
    /\ raw \subseteq Events
    /\ pool \in PoolRow \cup {NoPool}
    /\ swapRows \in [Events -> Fees]
    /\ position \in [liquidity : Events, closed : BOOLEAN] \cup {NoPosition}
    /\ jobState \in [Jobs -> {"none", "waiting", "active", "done", "dead"}]
    /\ attempts \in [Jobs -> 0..MaxAttempts]
    /\ work \in [Slots -> [pc : {"raw", "fee", "pool", "row", "position"},
                           job : Jobs, fee : Fees] \cup {Free}]
    /\ swallowed \subseteq Events
    /\ faults \in 0..MaxFaults
    /\ crashes \in 0..MaxCrashes

ProjectionInit ==
    /\ delivery \in Deliveries
    /\ raw = {}
    /\ pool = NoPool
    /\ swapRows = [e \in Events |-> "none"]
    /\ position = NoPosition
    /\ jobState = [j \in Jobs |-> "none"]
    /\ attempts = [j \in Jobs |-> 0]
    /\ work = [s \in Slots |-> Free]
    /\ swallowed = {}
    /\ faults = 0 /\ crashes = 0

----------------------------------------------------------------------------
(* Jobs                                                                    *)

\* A page, or a replay, adds a job for an event.
Enqueue(j) ==
    /\ jobState[j] = "none"
    /\ jobState' = [jobState EXCEPT ![j] = "waiting"]
    /\ UNCHANGED <<rows, attempts, work, swallowed, faults, crashes>>

Over(e) == \A c \in 1..delivery.copies : jobState[<<e, c>>] \in {"done", "dead"}

Take(s, j) ==
    /\ work[s] = Free
    /\ jobState[j] = "waiting"
    /\ delivery.ordered => \A e \in Events : e < j[1] => Over(e)
    /\ jobState' = [jobState EXCEPT ![j] = "active"]
    /\ work' = [work EXCEPT ![s] = [pc |-> "raw", job |-> j, fee |-> "none"]]
    /\ UNCHANGED <<rows, attempts, swallowed, faults, crashes>>

EventOf(s) == work[s].job[1]

KindOf(s) == Kind(EventOf(s))

AtStep(s, pc) == work[s].pc = pc

Goto(s, pc) == work' = [work EXCEPT ![s].pc = pc]

\* The handler returns: the job is acknowledged.
Return(s) ==
    /\ jobState' = [jobState EXCEPT ![work[s].job] = "done"]
    /\ work' = [work EXCEPT ![s] = Free]
    /\ UNCHANGED attempts

\* Mistake: the attempts are counted but nobody looks at the count.
ThrowForever(s) ==
    /\ attempts' = [attempts EXCEPT ![work[s].job] = @ + 1]
    /\ jobState' = [jobState EXCEPT ![work[s].job] = "waiting"]
    /\ work' = [work EXCEPT ![s] = Free]

\* The handler throws: the job waits for its next attempt, or is a dead letter.
Throw(s) ==
    LET j == work[s].job
        tried == attempts[j] + 1
    IN  /\ attempts' = [attempts EXCEPT ![j] = tried]
        /\ jobState' = [jobState EXCEPT ![j] = IF tried = MaxAttempts THEN "dead"
                                               ELSE "waiting"]
        /\ work' = [work EXCEPT ![s] = Free]

Fault == faults < MaxFaults /\ faults' = faults + 1

----------------------------------------------------------------------------
(* Statements                                                              *)

\* The upsert of the event's own row, which never changes one that is there.
WriteRaw(s) ==
    /\ AtStep(s, "raw")
    /\ raw' = raw \cup {EventOf(s)}
    /\ Goto(s, CASE KindOf(s) = "created" -> "pool"
                 [] KindOf(s) \in {"swap", "unpriced"} -> "fee"
                 [] OTHER -> "position")
    /\ UNCHANGED <<pool, swapRows, position, queue, swallowed, faults, crashes>>

\* resolveFeeAmount: the events Horizon is polled for carry no fee, so it is
\* derived from the pool's fee tier, which is 0 in a placeholder, and is '0'
\* when there is no pool.
ResolveFee(s) ==
    /\ AtStep(s, "fee")
    /\ work' = [work EXCEPT
                  ![s].fee = IF pool.tokens = "known" THEN "tier" ELSE "zero",
                  ![s].pc = IF KindOf(s) = "unpriced" THEN "row" ELSE "pool"]
    /\ UNCHANGED <<rows, queue, swallowed, faults, crashes>>

\* A failure of that read must not block the swap.
ResolveFeeFails(s) ==
    /\ AtStep(s, "fee")
    /\ Fault
    /\ work' = [work EXCEPT ![s].fee = "zero",
                            ![s].pc = IF KindOf(s) = "unpriced" THEN "row" ELSE "pool"]
    /\ UNCHANGED <<rows, queue, swallowed, crashes>>

\* Mistake: a pool that is there is left alone.
CreatedPoolOnce(e) ==
    IF pool = NoPool THEN [tokens |-> "known", price |-> e, state |-> None] ELSE pool

\* projectPoolCreated: the pool's tokens, fee tier and initial price replace
\* those of a placeholder, and of any other row that is there.
CreatedPool(e) ==
    IF pool = NoPool THEN [tokens |-> "known", price |-> e, state |-> None]
    ELSE [pool EXCEPT !.tokens = "known", !.price = e]

\* Mistake: only a pool that is there is updated.
SwappedPoolUpdate(e) ==
    IF pool = NoPool THEN pool ELSE [pool EXCEPT !.price = e, !.state = e]

\* Mistake: the tick and liquidity are left to later.
SwappedPoolPrice(e) ==
    [tokens |-> IF pool = NoPool THEN "unknown" ELSE pool.tokens,
     price |-> e, state |-> pool.state]

\* projectSwapProcessed: the pool takes the swap's price, tick and liquidity; one
\* that is not there yet is created with unknown tokens.
SwappedPool(e) ==
    [tokens |-> IF pool = NoPool THEN "unknown" ELSE pool.tokens,
     price |-> e, state |-> e]

CreatePool(s) ==
    /\ AtStep(s, "pool")
    /\ KindOf(s) = "created"
    /\ pool' = CreatedPool(EventOf(s))
    /\ Return(s)
    /\ UNCHANGED <<raw, swapRows, position, swallowed, faults, crashes>>

SwapPool(s) ==
    /\ AtStep(s, "pool")
    /\ KindOf(s) = "swap"
    /\ pool' = SwappedPool(EventOf(s))
    /\ Goto(s, "row")
    /\ UNCHANGED <<raw, swapRows, position, queue, swallowed, faults, crashes>>

\* The swap's row references the pool's.  An upsert changes nothing in a row that
\* is there; the error of a missing pool is logged and swallowed.
InsertSwap(s) ==
    /\ AtStep(s, "row")
    /\ swapRows' = IF pool # NoPool /\ swapRows[EventOf(s)] = "none"
                   THEN [swapRows EXCEPT ![EventOf(s)] = work[s].fee] ELSE swapRows
    /\ Return(s)
    /\ UNCHANGED <<raw, pool, position, swallowed, faults, crashes>>

\* The position takes the event's liquidity; one that is left without is closed,
\* and nothing opens it again.
HeldPosition(e) ==
    [liquidity |-> e, closed |-> position.closed \/ Kind(e) = "burned"]

\* Mistake: a missing pool is swallowed here too.
UpsertPositionQuiet(s) ==
    /\ AtStep(s, "position")
    /\ position' = IF pool = NoPool THEN position ELSE HeldPosition(EventOf(s))
    /\ Return(s)
    /\ UNCHANGED <<raw, pool, swapRows, swallowed, faults, crashes>>

UpsertPosition(s) ==
    /\ AtStep(s, "position")
    /\ pool # NoPool
    /\ position' = HeldPosition(EventOf(s))
    /\ Return(s)
    /\ UNCHANGED <<raw, pool, swapRows, swallowed, faults, crashes>>

\* The position's row references the pool's: without it the handler throws.
PositionWithoutPool(s) ==
    /\ AtStep(s, "position")
    /\ pool = NoPool
    /\ Throw(s)
    /\ UNCHANGED <<rows, swallowed, faults, crashes>>

\* A statement outside the projections fails, before or after Postgres has
\* carried it out, and the handler throws.
WriteFails(s) ==
    /\ Fault
    /\ \/ /\ AtStep(s, "raw")
          /\ raw' \in {raw, raw \cup {EventOf(s)}}
          /\ UNCHANGED position
       \/ /\ AtStep(s, "position")
          /\ pool # NoPool
          /\ position' \in {position, HeldPosition(EventOf(s))}
          /\ UNCHANGED raw
    /\ Throw(s)
    /\ UNCHANGED <<pool, swapRows, swallowed, crashes>>

\* A statement of a projection fails, that on the pool's row before or after
\* Postgres has carried it out: the error is logged and swallowed, and the projection is given up.
ProjectFails(s) ==
    /\ Fault
    /\ \/ AtStep(s, "pool") /\ pool' \in {pool, IF KindOf(s) = "created"
                                               THEN CreatedPool(EventOf(s))
                                               ELSE SwappedPool(EventOf(s))}
       \/ AtStep(s, "row") /\ UNCHANGED pool
    /\ swallowed' = swallowed \cup {EventOf(s)}
    /\ Return(s)
    /\ UNCHANGED <<raw, swapRows, position, crashes>>

\* The process dies: BullMQ finds its jobs stalled and runs them again.
Crash ==
    /\ crashes < MaxCrashes
    /\ crashes' = crashes + 1
    /\ work' = [s \in Slots |-> Free]
    /\ jobState' = [j \in Jobs |-> IF jobState[j] = "active" THEN "waiting"
                                   ELSE jobState[j]]
    /\ UNCHANGED <<rows, attempts, swallowed, faults>>

----------------------------------------------------------------------------
Run(s) ==
    \/ WriteRaw(s)
    \/ ResolveFee(s) \/ ResolveFeeFails(s)
    \/ CreatePool(s) \/ SwapPool(s) \/ InsertSwap(s)
    \/ UpsertPosition(s) \/ PositionWithoutPool(s)
    \/ WriteFails(s) \/ ProjectFails(s)

ProjectionNext ==
    /\ \/ \E j \in Jobs : Enqueue(j)
       \/ \E s \in Slots, j \in Jobs : Take(s, j)
       \/ \E s \in Slots : Run(s)
       \/ Crash
    /\ UNCHANGED delivery

ProjectionSpec == ProjectionInit /\ [][ProjectionNext]_vars

----------------------------------------------------------------------------
(* Properties                                                              *)

Done == {e \in Events : \E c \in 1..delivery.copies : jobState[<<e, c>>] = "done"}

\* "projectPoolCreated backfills the real token addresses and fee tier once the
\* authoritative event is processed" (indexer.worker.ts:872), whatever swaps are
\* handled before, between and after its statements, and no swap undoes it.
TokensBackfilled ==
    \A e \in Done \ swallowed : Kind(e) = "created" => pool.tokens = "known"

\* A priced swap whose job is acknowledged has its swap row, unless Postgres
\* failed in the projection: the pool's row is always there before the swap's.
PricedSwapKept ==
    \A e \in Done \ swallowed : Kind(e) = "swap" => swapRows[e] # "none"

\* A job of a position event is never acknowledged without the position's row:
\* while the pool is missing it is tried again, and ends as a dead letter.
PositionNotDropped ==
    \A e \in Done : Kind(e) \in {"minted", "reduced", "burned"}
                      => position # NoPosition

\* Handled in the chain's order, through failed attempts, retries and crashes,
\* the rows are what the chain's events add up to when none is half done: the
\* pool has the price of the last event that set one and the tick and liquidity
\* of the last swap, the position has the liquidity of its last event and is
\* closed by a full burn only.
RowsMatchChain ==
    LET Last(S) == IF S = {} THEN None ELSE CHOOSE e \in S : \A f \in S : f <= e
        done(kinds) == {e \in Done : Kind(e) \in kinds}
        held == {"minted", "reduced", "burned"}
    IN  (delivery.ordered /\ swallowed = {} /\ raw = Done)
          => /\ pool.price = Last(done({"created", "swap"}))
             /\ pool.state = Last(done({"swap"}))
             /\ position.liquidity = Last(done(held))
             /\ position.closed <=> done({"burned"}) # {}
=============================================================================
