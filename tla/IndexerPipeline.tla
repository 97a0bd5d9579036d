-------------------------- MODULE IndexerPipeline --------------------------
(***************************************************************************)
(* From a Horizon effect to a row in Postgres: HorizonService              *)
(* (apps/api/src/horizon/horizon.service.ts) polls the effects of the      *)
(* tracked accounts and adds a job per event to the five BullMQ queues;    *)
(* IndexerWorker (apps/api/src/indexer/indexer.worker.ts) runs the jobs    *)
(* concurrently, writes the event's row and advances the checkpoint of     *)
(* IndexerCursor; jobs that keep failing go to the dead-letter table.      *)
(* The process can crash, be shut down and start again at any moment.      *)
(*                                                                         *)
(* An event is its position in Stream, the order of Horizon's paging       *)
(* tokens.  What the handlers write besides the event's own row is in      *)
(* IndexerProjection.                                                      *)
(***************************************************************************)
EXTENDS IndexerCursor, FiniteSets, Sequences

CONSTANTS
    Stream,         \* the effects, in paging order
    Accounts,       \* the accounts they belong to
    Configured,     \* the accounts polled from the start: factory, legacy pool
    Starter,        \* the caller of getLastLedger when the process starts
    Backlog,        \* how many effects an earlier process has indexed
    PageSize,       \* effects per page (50 in the code)
    MaxAttempts,    \* attempts per job (3 in the code)
    MaxStalled,     \* maxStalledCount (2 in the code)
    MaxFaults,      \* bound: failed requests, enqueues and writes
    MaxCrashes,     \* bound: crashes
    MaxShutdowns    \* bound: SIGTERMs

Queues == {"pool.created", "swap.processed", "position.minted",
           "position.burned", "fees.collected"}

\* A complete event has every field; HorizonService drops an incomplete one, and
\* guardEmptyData skips a blank one, which has its addresses but an empty field.
Shapes == {"complete", "incomplete", "blank"}

Length == Len(Stream)
Events == 1..Length

Effect == [account : Accounts, queue : Queues, pool : Accounts,
           ledger : Ledgers \cup {NoLedger}, shape : Shapes]

ASSUME StreamAssumption == Stream \in Seq(Effect)
ASSUME AccountsAssumption == Configured \subseteq Accounts
ASSUME StarterAssumption == Starter \in Callers
ASSUME LimitsAssumption ==
    /\ Backlog \in 0..Length
    /\ PageSize \in Nat \ {0}
    /\ MaxAttempts \in Nat \ {0}
    /\ {MaxStalled, MaxFaults, MaxCrashes, MaxShutdowns} \subseteq Nat

Slots == Callers \ {Starter}

VARIABLES
    emitted,    \* effects Horizon serves by now
    status,     \* the process: "down", "up", "closing"
    tracked,    \* HorizonService.trackedAccounts
    cursors,    \* HorizonService.cursors
    toPoll,     \* accounts the running poll() has still to visit
    page,       \* the page pollAccount is working on
    jobs,       \* the jobs BullMQ holds
    lastId,     \* BullMQ's job id counter of each queue
    enqueued,   \* history: events a job was ever added for
    slot,       \* what each worker slot is doing
    raw,        \* events with a row in their event table
    reports,    \* failed jobs whose recordDeadLetter call is under way
    deadLetter, \* IndexerDeadLetter: the row of each job id
    faults, crashes, shutdowns

pollVars == <<tracked, cursors, toPoll, page>>
queueVars == <<jobs, lastId, enqueued>>
workVars == <<slot, raw, reports, deadLetter>>
envVars == <<emitted, status, faults, crashes, shutdowns>>
vars == <<cursorVars, pollVars, queueVars, workVars, envVars>>

----------------------------------------------------------------------------
Now == -1          \* the cursor 'now'
NoPage == [account |-> "none", from |-> 0, left |-> {}]
NoJob == [queue |-> "none", id |-> 0, event |-> 0,
          state |-> "none", attempts |-> 0, stalls |-> 0]
Free == [pc |-> "free", job |-> NoJob]

Job == [queue : Queues, id : Nat, event : Events,
        state : {"waiting", "active", "failed", "dead"},
        attempts : Nat, stalls : Nat]

PollTypeOK ==
    /\ tracked \subseteq Accounts
    /\ cursors \in [Accounts -> Events \cup {0, Now}]
    /\ toPoll \subseteq Accounts
    /\ page \in [account : Accounts, from : Events \cup {0, Now}, left : SUBSET Events]
                \cup {NoPage}

QueueTypeOK ==
    /\ jobs \subseteq Job
    /\ lastId \in [Queues -> Nat]
    /\ enqueued \subseteq Events

WorkTypeOK ==
    /\ slot \in [Slots -> [pc : {"fetched", "persist", "checkpoint"}, job : Job]
                          \cup {Free}]
    /\ raw \subseteq Events
    /\ reports \subseteq Job
    /\ \A id \in DOMAIN deadLetter :
         deadLetter[id] \in [queue : Queues, event : Events]

EnvTypeOK ==
    /\ emitted \in Events \cup {0}
    /\ status \in {"down", "up", "closing"}
    /\ faults \in 0..MaxFaults
    /\ crashes \in 0..MaxCrashes
    /\ shutdowns \in 0..MaxShutdowns

PipelineTypeOK ==
    CursorTypeOK /\ PollTypeOK /\ QueueTypeOK /\ WorkTypeOK /\ EnvTypeOK

LedgerOf(e) == Stream[e].ledger

LedgersOf(S) == {LedgerOf(e) : e \in S}

\* An earlier process has indexed the first Backlog effects and gone.
Indexed == {e \in 1..Backlog : Stream[e].shape = "complete"}

PipelineInit ==
    /\ CursorInit
    /\ dbLedger \in LedgersOf(Indexed) \cup {NoLedger}
    /\ \A l \in LedgersOf(Indexed) : l <= dbLedger
    /\ emitted = Backlog
    /\ status = "down"
    /\ tracked = {}
    /\ cursors = [a \in Accounts |-> Now]
    /\ toPoll = {}
    /\ page = NoPage
    /\ jobs = {}
    /\ lastId = [q \in Queues |-> 0]
    /\ enqueued = {}
    /\ slot = [s \in Slots |-> Free]
    /\ raw = Indexed
    /\ reports = {}
    /\ deadLetter = <<>>
    /\ faults = 0 /\ crashes = 0 /\ shutdowns = 0

Fault == faults < MaxFaults /\ faults' = faults + 1

----------------------------------------------------------------------------
(* Horizon                                                                 *)

\* More ledgers close; the effects of a ledger appear together.
Emit ==
    /\ emitted' \in {n \in emitted + 1 .. Length :
                        n = Length \/ LedgerOf(n) # LedgerOf(n + 1)}
    /\ UNCHANGED <<cursorVars, pollVars, queueVars, workVars, status, faults,
                   crashes, shutdowns>>

\* What a request for the effects of account a after its cursor answers, page
\* size apart.  'now' is resolved by Horizon when the request arrives, after
\* everything it has: such a request finds nothing.
Following(a) ==
    {e \in 1..emitted : /\ Stream[e].account = a
                        /\ cursors[a] # Now
                        /\ e > cursors[a]}

FirstOf(S) == {e \in S : Cardinality({f \in S : f < e}) < PageSize}

----------------------------------------------------------------------------
(* HorizonService                                                          *)

\* The process starts: the workers are ready and the poller asks for the last
\* ledger.
Boot ==
    /\ status = "down"
    /\ status' = "up"
    /\ tracked' = Configured
    /\ BeginGet(Starter)
    /\ UNCHANGED <<cursors, toPoll, page, queueVars, workVars, emitted, faults,
                   crashes, shutdowns>>

\* Mistake: polling always starts from 'now'.
StartPollingNow ==
    /\ UseResult(Starter)
    /\ toPoll' = tracked
    /\ UNCHANGED <<tracked, cursors, page, queueVars, workVars, envVars>>

\* The poller starts from the last ledger.  Horizon's tokens hold the ledger in
\* their upper half, so a bare ledger number precedes every effect.
StartPolling ==
    /\ UseResult(Starter)
    /\ cursors' = [a \in Accounts |->
                     IF a \in tracked /\ call[Starter].ledger > 0 THEN 0 ELSE Now]
    /\ toPoll' = tracked
    /\ UNCHANGED <<tracked, page, queueVars, workVars, envVars>>

\* poll(): the timer fires, and the previous poll is over.
Poll ==
    /\ status = "up"
    /\ At(Starter, "idle")
    /\ toPoll = {}
    /\ toPoll' = tracked
    /\ toPoll' # {}
    /\ UNCHANGED <<cursorVars, tracked, cursors, page, queueVars, workVars, envVars>>

\* pollAccount: the page of an account arrives, perhaps empty.
FetchPage(a) ==
    /\ a \in toPoll
    /\ page = NoPage
    /\ At(Starter, "idle")
    /\ LET records == FirstOf(Following(a)) IN
       IF records = {}
       THEN toPoll' = toPoll \ {a} /\ UNCHANGED page
       ELSE /\ page' = [account |-> a, from |-> cursors[a], left |-> records]
            /\ UNCHANGED toPoll
    /\ UNCHANGED <<cursorVars, tracked, cursors, queueVars, workVars, envVars>>

\* The request fails or times out: the account waits for the next poll.
FetchFails(a) ==
    /\ a \in toPoll
    /\ page = NoPage
    /\ At(Starter, "idle")
    /\ Fault
    /\ toPoll' = toPoll \ {a}
    /\ UNCHANGED <<cursorVars, tracked, cursors, page, queueVars, workVars,
                   emitted, status, crashes, shutdowns>>

\* byLedger: the records left on the page that share the ledger of the first.
Window ==
    LET first == CHOOSE e \in page.left : \A f \in page.left : e <= f
    IN  {e \in page.left : LedgerOf(e) = LedgerOf(first)}

\* The window's effects queue q gets a job for, and those jobs in paging order.
Batch(q) == {e \in Window : Stream[e].queue = q /\ Stream[e].shape # "incomplete"}

NewJobs(q) ==
    {[queue |-> q, event |-> e, state |-> "waiting", attempts |-> 0, stalls |-> 0,
      id |-> lastId[q] + Cardinality({f \in Batch(q) : f <= e})] : e \in Batch(q)}

\* The addBulk of each queue in Q: BullMQ numbers the jobs per queue.
AddJobs(Q) ==
    /\ jobs' = jobs \cup UNION {NewJobs(q) : q \in Q}
    /\ lastId' = [q \in Queues |-> IF q \in Q THEN lastId[q] + Cardinality(Batch(q))
                                   ELSE lastId[q]]
    /\ enqueued' = enqueued \cup UNION {Batch(q) : q \in Q}

\* Pools the window creates that are not polled yet: they are from now on, from
\* the place this page was asked from.
Discovered == {Stream[e].pool : e \in {f \in Window : Stream[f].queue = "pool.created"}}
                \ tracked

Discover == [a \in Accounts |-> IF a \in Discovered THEN page.from ELSE cursors[a]]

\* batchEnqueueLedgerWindow succeeds: the cursor takes the window's last token.
EnqueueWindow ==
    /\ page # NoPage
    /\ AddJobs(Queues)
    /\ tracked' = tracked \cup Discovered
    /\ cursors' = [Discover EXCEPT ![page.account] =
                     CHOOSE e \in Window : \A f \in Window : f <= e]
    /\ IF page.left = Window
       THEN page' = NoPage /\ toPoll' = toPoll \ {page.account}
       ELSE page' = [page EXCEPT !.left = @ \ Window] /\ UNCHANGED toPoll
    /\ UNCHANGED <<cursorVars, workVars, envVars>>

\* Mistake: the cursor moves before the window is enqueued.
EnqueueFailsPast(Q) ==
    /\ page # NoPage
    /\ Fault
    /\ AddJobs(Q)
    /\ tracked' = tracked \cup Discovered
    /\ cursors' = [Discover EXCEPT ![page.account] =
                     CHOOSE e \in Window : \A f \in Window : f <= e]
    /\ page' = NoPage
    /\ toPoll' = toPoll \ {page.account}
    /\ UNCHANGED <<cursorVars, workVars, emitted, status, crashes, shutdowns>>

\* The price update or one of the addBulk calls throws.  The calls are made
\* together, so those in Q may have gone through; the page is given up.
EnqueueFails(Q) ==
    /\ page # NoPage
    /\ Fault
    /\ AddJobs(Q)
    /\ tracked' = tracked \cup Discovered
    /\ cursors' = Discover
    /\ page' = NoPage
    /\ toPoll' = toPoll \ {page.account}
    /\ UNCHANGED <<cursorVars, workVars, emitted, status, crashes, shutdowns>>

----------------------------------------------------------------------------
(* IndexerWorker                                                           *)

Replace(old, new) == jobs' = (jobs \ {old}) \cup {new}

\* Mistake: the job leaves the queue when it is taken.
FetchPops(s, j) ==
    /\ status = "up"
    /\ slot[s] = Free
    /\ j.state = "waiting"
    /\ jobs' = jobs \ {j}
    /\ slot' = [slot EXCEPT ![s] = [pc |-> "fetched", job |-> [j EXCEPT !.state = "active"]]]
    /\ UNCHANGED <<cursorVars, pollVars, lastId, enqueued, raw, reports, deadLetter,
                   envVars>>

\* A slot takes a waiting job: only while the worker is not closing.
Fetch(s, j) ==
    /\ status = "up"
    /\ slot[s] = Free
    /\ j.state = "waiting"
    /\ LET active == [j EXCEPT !.state = "active"] IN
         /\ Replace(j, active)
         /\ slot' = [slot EXCEPT ![s] = [pc |-> "fetched", job |-> active]]
    /\ UNCHANGED <<cursorVars, pollVars, lastId, enqueued, raw, reports, deadLetter,
                   envVars>>

\* The job is acknowledged; removeOnComplete drops it.
Finish(s) ==
    /\ jobs' = jobs \ {slot[s].job}
    /\ slot' = [slot EXCEPT ![s] = Free]

\* guardedHandler and guardEmptyData: a worker that is no longer ready, or an
\* event with an empty field, completes the job without doing anything.
Skip(s) ==
    /\ slot[s].pc = "fetched"
    /\ status # "up" \/ Stream[slot[s].job.event].shape = "blank"
    /\ Finish(s)
    /\ UNCHANGED <<cursorVars, pollVars, lastId, enqueued, raw, reports, deadLetter,
                   envVars>>

\* Mistake: the checkpoint is advanced before the event is written.
HandleAhead(s) ==
    /\ slot[s].pc = "fetched"
    /\ status = "up"
    /\ Stream[slot[s].job.event].shape # "blank"
    /\ slot' = [slot EXCEPT ![s].pc = "persist"]
    /\ BeginAdvance(s, LedgerOf(slot[s].job.event))
    /\ UNCHANGED <<pollVars, queueVars, raw, reports, deadLetter, envVars>>

Handle(s) ==
    /\ slot[s].pc = "fetched"
    /\ status = "up"
    /\ Stream[slot[s].job.event].shape # "blank"
    /\ slot' = [slot EXCEPT ![s].pc = "persist"]
    /\ UNCHANGED <<cursorVars, pollVars, queueVars, raw, reports, deadLetter, envVars>>

\* The upsert by eventId and the projection succeed; the checkpoint is next,
\* for an event that has a ledger.
Persist(s) ==
    LET e == slot[s].job.event IN
    /\ slot[s].pc = "persist"
    /\ raw' = raw \cup {e}
    /\ slot' = [slot EXCEPT ![s].pc = "checkpoint"]
    /\ IF LedgerOf(e) = NoLedger
       THEN UNCHANGED cursorVars
       ELSE BeginAdvance(s, LedgerOf(e))
    /\ UNCHANGED <<pollVars, queueVars, reports, deadLetter, envVars>>

\* Mistake: the listener's count of attempts is one short of the queue's.
PersistFailsEarly(s) ==
    LET j == slot[s].job
        tried == [j EXCEPT !.attempts = j.attempts + 1]
        last == tried.attempts >= MaxAttempts
        next == [tried EXCEPT !.state = IF last THEN "failed" ELSE "waiting"]
    IN
    /\ slot[s].pc = "persist"
    /\ Fault
    /\ raw' \in {raw, raw \cup {j.event}}
    /\ Replace(j, next)
    /\ reports' = IF tried.attempts >= MaxAttempts - 1 THEN reports \cup {next} ELSE reports
    /\ slot' = [slot EXCEPT ![s] = Free]
    /\ UNCHANGED <<cursorVars, pollVars, lastId, enqueued, deadLetter, emitted,
                   status, crashes, shutdowns>>

\* The handler throws, before or after the event's row is written.  After the
\* last attempt the job stays in BullMQ as failed and is reported.
PersistFails(s) ==
    LET j == slot[s].job
        tried == [j EXCEPT !.attempts = j.attempts + 1]
        last == tried.attempts >= MaxAttempts
        next == [tried EXCEPT !.state = IF last THEN "failed" ELSE "waiting"]
    IN
    /\ slot[s].pc = "persist"
    /\ Fault
    /\ raw' \in {raw, raw \cup {j.event}}
    /\ Replace(j, next)
    /\ reports' = IF last THEN reports \cup {next} ELSE reports
    /\ slot' = [slot EXCEPT ![s] = Free]
    /\ UNCHANGED <<cursorVars, pollVars, lastId, enqueued, deadLetter, emitted,
                   status, crashes, shutdowns>>

\* advanceLedger takes its steps, and the handler returns after it.
Advance(s) ==
    /\ CallStep(s)
    /\ UNCHANGED <<pollVars, queueVars, workVars, envVars>>

Complete(s) ==
    /\ slot[s].pc = "checkpoint"
    /\ At(s, "idle")
    /\ Finish(s)
    /\ UNCHANGED <<cursorVars, pollVars, lastId, enqueued, raw, reports, deadLetter,
                   envVars>>

\* recordDeadLetter: an upsert by job id alone, whose update keeps the queue,
\* the event and the data of the row that is there.
RecordDeadLetter(j) ==
    /\ reports' = reports \ {j}
    /\ Replace(j, [j EXCEPT !.state = "dead"])
    /\ deadLetter' =
         IF j.id \in DOMAIN deadLetter THEN deadLetter
         ELSE [id \in DOMAIN deadLetter \cup {j.id} |->
                 IF id = j.id THEN [queue |-> j.queue, event |-> j.event]
                 ELSE deadLetter[id]]
    /\ UNCHANGED <<cursorVars, pollVars, lastId, enqueued, slot, raw, envVars>>

\* Its error is logged and swallowed.
RecordFails(j) ==
    /\ Fault
    /\ reports' = reports \ {j}
    /\ UNCHANGED <<cursorVars, pollVars, queueVars, slot, raw, deadLetter, emitted,
                   status, crashes, shutdowns>>

\* BullMQ finds an active job nobody works on: it waits again, or fails when
\* that has happened too often.  Such a failure has too few attempts to be
\* reported.
Stall(j) ==
    /\ status = "up"
    /\ j.state = "active"
    /\ \A s \in Slots : slot[s].job # j
    /\ Replace(j, [j EXCEPT !.stalls = j.stalls + 1,
                            !.state = IF j.stalls + 1 > MaxStalled THEN "failed"
                                      ELSE "waiting"])
    /\ UNCHANGED <<cursorVars, pollVars, lastId, enqueued, workVars, envVars>>

----------------------------------------------------------------------------
(* The process ends: everything it held in memory is gone.                 *)

Gone ==
    /\ status' = "down"
    /\ CrashCalls
    /\ tracked' = {}
    /\ cursors' = [a \in Accounts |-> Now]
    /\ toPoll' = {}
    /\ page' = NoPage
    /\ slot' = [s \in Slots |-> Free]
    /\ reports' = {}
    /\ UNCHANGED <<queueVars, raw, deadLetter, emitted, faults>>

Crash ==
    /\ status # "down"
    /\ crashes < MaxCrashes
    /\ crashes' = crashes + 1
    /\ Gone
    /\ UNCHANGED shutdowns

\* onModuleDestroy: the worker stops being ready at once and closes.
Shutdown ==
    /\ status = "up"
    /\ shutdowns < MaxShutdowns
    /\ shutdowns' = shutdowns + 1
    /\ status' = "closing"
    /\ UNCHANGED <<cursorVars, pollVars, queueVars, workVars, emitted, faults, crashes>>

\* The jobs in flight are done, or the drain timeout has passed.
Exit ==
    /\ status = "closing"
    /\ Gone
    /\ UNCHANGED <<crashes, shutdowns>>

----------------------------------------------------------------------------
Poller ==
    \/ Boot \/ StartPolling \/ Poll \/ Advance(Starter)
    \/ \E a \in Accounts : FetchPage(a) \/ FetchFails(a)
    \/ EnqueueWindow
    \/ \E Q \in SUBSET Queues : EnqueueFails(Q)

Worker(s) ==
    \/ \E j \in jobs : Fetch(s, j)
    \/ Skip(s) \/ Handle(s) \/ Persist(s) \/ PersistFails(s)
    \/ Advance(s) \/ Complete(s)

DeadLetters == \E j \in reports : RecordDeadLetter(j) \/ RecordFails(j)

PipelineNext ==
    \/ Emit
    \/ Poller
    \/ \E s \in Slots : Worker(s)
    \/ DeadLetters
    \/ \E j \in jobs : Stall(j)
    \/ Crash \/ Shutdown \/ Exit

PipelineSpec == PipelineInit /\ [][PipelineNext]_vars

\* Timers fire, requests are answered, BullMQ hands out waiting jobs and checks
\* for stalled ones, the platform restarts the process: every step of the code
\* that stays enabled is taken.  Effects, failures, crashes, shutdowns and
\* lapses of Redis may happen or not.
Fairness ==
    /\ WF_vars(Boot) /\ WF_vars(StartPolling) /\ WF_vars(Poll)
    /\ WF_vars(EnqueueWindow) /\ WF_vars(Advance(Starter))
    /\ \A a \in Accounts : WF_vars(FetchPage(a))
    /\ \A s \in Slots : /\ WF_vars(\E j \in jobs : Fetch(s, j))
                        /\ WF_vars(Skip(s) \/ Handle(s) \/ Persist(s) \/ Complete(s))
                        /\ WF_vars(Advance(s))
    /\ WF_vars(DeadLetters)
    /\ WF_vars(\E j \in jobs : Stall(j))
    /\ WF_vars(Exit)

FairPipelineSpec == PipelineSpec /\ Fairness

----------------------------------------------------------------------------
(* Properties                                                              *)

\* "the ledger checkpoint only advances after a successful persist"
\* (docs/ARCHITECTURE.md:147): both copies of the checkpoint are the ledger of
\* an event whose row is in Postgres, through crashes, retries and restarts.
CheckpointPersisted ==
    {cacheLedger, dbLedger} \subseteq LedgersOf(raw) \cup {NoLedger}

\* What paging by ledger takes the stream to be: of one account, the effects that
\* share a ledger follow one another. Horizon's order grants it for effects that
\* carry a ledger; one without would have to be the account's last, or be among
\* its like (byLedger, horizon.service.ts:162-166).
LedgersTogether ==
    \A e, f, g \in Events :
        (/\ e <= f /\ f <= g
         /\ Stream[e].account = Stream[f].account /\ Stream[f].account = Stream[g].account
         /\ LedgerOf(e) = LedgerOf(g)) => LedgerOf(f) = LedgerOf(e)

\* And a pool that is not configured has no effect before those that announce it.
CreationsFirst ==
    \A p, e \in Events :
        (/\ Stream[p].queue = "pool.created" /\ Stream[p].pool \notin Configured
         /\ Stream[e].account = Stream[p].pool) => p <= e

\* "we never skip a failed batch" (horizon.service.ts:194): every complete
\* effect an account's paging cursor has passed was handed to BullMQ, or was
\* indexed by the earlier process.
PagedMeansEnqueued ==
    \A a \in tracked : \A e \in Events :
        (Stream[e].account = a /\ e <= cursors[a] /\ Stream[e].shape = "complete")
            => e \in enqueued \cup raw

\* "At-least-once delivery" (docs/ARCHITECTURE.md:159): an event handed to
\* BullMQ has its row, or BullMQ still holds a job for it, through failures and
\* crashes. Only a worker told to stop acknowledges what it has not begun
\* (guardedHandler, indexer.worker.ts); the restart then makes up for it
\* (EventuallySettled).
EnqueuedNotLost ==
  shutdowns = 0 =>
    \A e \in enqueued : \/ Stream[e].shape # "complete"
                        \/ e \in raw
                        \/ \E j \in jobs : j.event = e

\* A dead-letter row is about a job that used up its attempts: never about one
\* that is still running, waiting or was acknowledged.
DeadLetterIsFinal ==
    \A id \in DOMAIN deadLetter :
        \E j \in jobs : /\ j.id = id
                        /\ j.queue = deadLetter[id].queue
                        /\ j.event = deadLetter[id].event
                        /\ j.state = "dead"
                        /\ j.attempts >= MaxAttempts

\* Every effect of a polled account is eventually in its table, or its job is
\* left as failed for the operator.
Settled(e) == \/ e \in raw
              \/ \E j \in jobs : j.event = e /\ j.state \in {"failed", "dead"}

EventuallySettled ==
    \A e \in Events :
        (Stream[e].shape = "complete" /\ e <= emitted) ~> Settled(e)
=============================================================================
