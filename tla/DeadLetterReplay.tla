-------------------------- MODULE DeadLetterReplay --------------------------
(* Replaying dead letters (indexer-replay.service.ts): operators' requests   *)
(* load rows of indexer_dead_letter, enqueue a job for each and mark the row *)
(* recovered, while the worker runs the jobs and records the ones that fail. *)
(* Between the awaits of one request anything else may happen.               *)
(*                                                                           *)
(* A replay's job is named after the row it replays (dlq-replay:<jobId>), so *)
(* a job or row is named by its event and the times that prefix was put      *)
(* before the event's first job id. The five queues differ in nothing here,  *)
(* and BullMQ's attempts are the IndexerPipeline's: a job fails once.        *)
EXTENDS Naturals, FiniteSets

CONSTANTS Troubled,     \* the events whose first job may fail
          Requests,     \* POST /indexer/dead-letters/replay
          Keys,         \* idempotency keys
          NoKey,        \* no x-idempotency-key
          MaxFailures,  \* bound: jobs that fail, so the depth of a prefix
          MaxHiccups,   \* bound: round trips to Postgres or Redis that fail
          MaxDeaths     \* bound: deaths of the API process

ASSUME ReplayAssumption ==
    /\ MaxFailures \in Nat
    /\ MaxHiccups \in Nat
    /\ MaxDeaths \in Nat
    /\ NoKey \notin Keys

VARIABLES rows,       \* indexer_dead_letter: none, dead or recovered, by jobId
          dlqJobs,    \* BullMQ: none, waiting, active, failing or failed, by id
          indexed,    \* the events that are in their table
          unrecorded, \* history: the events with a failure nobody recorded
          request,    \* the requests
          inFlight,   \* inFlightDlqReplays: the request that runs, by key
          remembered, \* completedDlqReplays: the summary kept, by key
          failures, hiccups, deaths

replayVars == <<rows, dlqJobs, indexed, unrecorded, request, inFlight, remembered,
          failures, hiccups, deaths>>

Ids == Troubled \X (0 .. MaxFailures)
EventOf(id) == id[1]

\* enqueueDeadLetter's job id, `dlq-replay:${entry.jobId}`.
ReplayId(id) == <<id[1], id[2] + 1>>

\* The target is "all" or one job id; an execution is known by target|key.
All == << >>
Targets == Ids \cup {All}
RunKeys == Targets \X (Keys \cup {NoKey})

Summary == [replayed : SUBSET Ids, skipped : SUBSET Ids]
Empty == [replayed |-> {}, skipped |-> {}]

\* A request: where it is, its execution's key, the rows still to be replayed,
\* the one between its job and its mark, and the summary so far.
Unasked == [pc |-> "idle", key |-> <<All, NoKey>>, todo |-> {}, entry |-> {},
         summary |-> Empty]

Running == {"load", "loop", "clear"}
Answered == {"done", "notfound", "unavailable", "error"}

ReplayInit ==
    /\ rows = [id \in Ids |-> "none"]
    /\ dlqJobs = [id \in Ids |-> IF id[2] = 0 THEN "waiting" ELSE "none"]
    /\ indexed = {}
    /\ unrecorded = {}
    /\ request = [r \in Requests |-> Unasked]
    /\ inFlight = [k \in RunKeys |-> {}]
    /\ remembered = [k \in RunKeys |-> {}]
    /\ failures = 0
    /\ hiccups = 0
    /\ deaths = 0

Hiccup == hiccups < MaxHiccups /\ hiccups' = hiccups + 1

WithStore == <<rows, dlqJobs, indexed, unrecorded, failures, deaths>>

-----------------------------------------------------------------------------
(* replayDeadLettersIdempotent, up to its first await *)

\* A keyed retry of a replay that completed less than ten minutes ago.
SubmitRemembered(r, k) ==
    /\ request[r].pc = "idle"
    /\ k[2] # NoKey
    /\ \E summary \in remembered[k] :
          request' = [request EXCEPT ![r].pc = "done", ![r].key = k,
                                     ![r].summary = summary]
    /\ UNCHANGED <<WithStore, inFlight, remembered, hiccups>>

\* An execution of the same target and key is under way: await it.
SubmitShared(r, k) ==
    /\ request[r].pc = "idle"
    /\ k[2] = NoKey \/ remembered[k] = {}
    /\ inFlight[k] # {}
    /\ request' = [request EXCEPT ![r].pc = "wait", ![r].key = k]
    /\ UNCHANGED <<WithStore, inFlight, remembered, hiccups>>

\* Starting one without looking at the map.
SubmitAnyway(r, k) ==
    /\ request[r].pc = "idle"
    /\ k[2] = NoKey \/ remembered[k] = {}
    /\ request' = [request EXCEPT ![r].pc = "load", ![r].key = k]
    /\ inFlight' = [inFlight EXCEPT ![k] = {r}]
    /\ UNCHANGED <<WithStore, remembered, hiccups>>

\* Start an execution.
SubmitRun(r, k) ==
    /\ request[r].pc = "idle"
    /\ k[2] = NoKey \/ remembered[k] = {}
    /\ inFlight[k] = {}
    /\ request' = [request EXCEPT ![r].pc = "load", ![r].key = k]
    /\ inFlight' = [inFlight EXCEPT ![k] = {r}]
    /\ UNCHANGED <<WithStore, remembered, hiccups>>

-----------------------------------------------------------------------------
(* The execution: replayDeadLetters *)

Waiting(k) == {w \in Requests : request[w].pc = "wait" /\ request[w].key = k}

\* Without the finally that forgets the execution.
RejectKept(r, answer) ==
    LET k == request[r].key
    IN /\ request' = [w \in Requests |->
                         IF w = r THEN [request[w] EXCEPT !.pc = answer]
                         ELSE IF w \in Waiting(k) THEN [request[w] EXCEPT !.pc = "error"]
                         ELSE request[w]]
       /\ UNCHANGED inFlight

\* The execution of r throws. Its own request maps the error to an answer;
\* the requests that await it let it through as it is.
Reject(r, answer) ==
    LET k == request[r].key
    IN /\ request' = [w \in Requests |->
                         IF w = r THEN [request[w] EXCEPT !.pc = answer]
                         ELSE IF w \in Waiting(k) THEN [request[w] EXCEPT !.pc = "error"]
                         ELSE request[w]]
       /\ inFlight' = [inFlight EXCEPT ![k] = {}]

\* Looking "all" up as if it were a job id.
LoadTarget(r) ==
    /\ request[r].pc = "load"
    /\ request' = [request EXCEPT ![r].pc = "loop", ![r].todo = {request[r].key[1]}]
    /\ UNCHANGED <<WithStore, inFlight, remembered, hiccups>>

\* Read the rows to replay: the unrecovered ones, or the one asked for in
\* whatever state. The order and the cap of 500 are left open by later steps.
Load(r) ==
    /\ request[r].pc = "load"
    /\ LET target == request[r].key[1]
           found == IF target = All THEN {id \in Ids : rows[id] = "dead"}
                    ELSE {id \in {target} : rows[id] # "none"}
       IN IF target # All /\ found = {}
          THEN Reject(r, "notfound")
          ELSE /\ request' = [request EXCEPT ![r].pc = "loop", ![r].todo = found]
               /\ UNCHANGED inFlight
    /\ UNCHANGED <<WithStore, remembered, hiccups>>

\* failClosed: Postgres does not answer, so nothing is replayed.
LoadFails(r) ==
    /\ request[r].pc = "load"
    /\ Hiccup
    /\ Reject(r, "unavailable")
    /\ UNCHANGED <<WithStore, remembered>>

\* Queue.add: nothing, while a job with that id exists in whatever state.
Added(id) ==
    IF dlqJobs[id] = "none" THEN [dlqJobs EXCEPT ![id] = "waiting"] ELSE dlqJobs

\* enqueueDeadLetter.
Enqueue(r, id) ==
    /\ request[r].pc = "loop"
    /\ id \in request[r].todo
    /\ dlqJobs' = Added(ReplayId(id))
    /\ request' = [request EXCEPT ![r].pc = "clear", ![r].entry = {id},
                                  ![r].todo = @ \ {id}]
    /\ UNCHANGED <<rows, indexed, unrecorded, inFlight, remembered,
                   failures, hiccups, deaths>>

\* Taking any error of Redis for the one of a duplicate id.
AddFailsQuiet(r, id) ==
    /\ request[r].pc = "loop"
    /\ id \in request[r].todo
    /\ Hiccup
    /\ request' = [request EXCEPT ![r].pc = "clear", ![r].entry = {id},
                                  ![r].todo = @ \ {id}]
    /\ UNCHANGED <<rows, dlqJobs, indexed, unrecorded, inFlight, remembered,
                   failures, deaths>>

\* Redis fails, before or after it took the job: the row is skipped.
AddFails(r, id) ==
    /\ request[r].pc = "loop"
    /\ id \in request[r].todo
    /\ Hiccup
    /\ dlqJobs' \in {dlqJobs, Added(ReplayId(id))}
    /\ request' = [request EXCEPT ![r].todo = @ \ {id},
                                  ![r].summary.skipped = @ \cup {id}]
    /\ UNCHANGED <<rows, indexed, unrecorded, inFlight, remembered,
                   failures, deaths>>

\* clearDeadLetter, which swallows its error; the row counts as replayed.
Clear(r) ==
    /\ request[r].pc = "clear"
    /\ \/ /\ rows' = [id \in Ids |->
                         IF id \in request[r].entry THEN "recovered" ELSE rows[id]]
          /\ UNCHANGED hiccups
       \/ Hiccup /\ UNCHANGED rows
    /\ request' = [request EXCEPT ![r].pc = "loop", ![r].entry = {},
                      ![r].summary.replayed = @ \cup request[r].entry]
    /\ UNCHANGED <<dlqJobs, indexed, unrecorded, inFlight, remembered,
                   failures, deaths>>

\* The execution ends: everyone who awaits it has the summary, and a keyed
\* one is remembered.
Answer(r) ==
    /\ request[r].pc = "loop"
    /\ request[r].todo = {}
    /\ LET k == request[r].key
       IN /\ request' = [w \in Requests |->
                            IF w \in Waiting(k) \cup {r}
                            THEN [request[w] EXCEPT !.pc = "done",
                                                    !.summary = request[r].summary]
                            ELSE request[w]]
          /\ inFlight' = [inFlight EXCEPT ![k] = {}]
          /\ remembered' = IF k[2] = NoKey THEN remembered
                           ELSE [remembered EXCEPT ![k] = {request[r].summary}]
    /\ UNCHANGED <<WithStore, hiccups>>

\* Ten minutes have passed, or a thousand newer keys.
Expire(k) ==
    /\ remembered[k] # {}
    /\ remembered' = [remembered EXCEPT ![k] = {}]
    /\ UNCHANGED <<WithStore, request, inFlight, hiccups>>

-----------------------------------------------------------------------------
(* The worker *)

Take(id) ==
    /\ dlqJobs[id] = "waiting"
    /\ dlqJobs' = [dlqJobs EXCEPT ![id] = "active"]
    /\ UNCHANGED <<rows, indexed, unrecorded, request, inFlight, remembered,
                   failures, hiccups, deaths>>

\* The handler writes the event, and the completed job is removed.
Succeed(id) ==
    /\ dlqJobs[id] = "active"
    /\ dlqJobs' = [dlqJobs EXCEPT ![id] = "none"]
    /\ indexed' = indexed \cup {EventOf(id)}
    /\ UNCHANGED <<rows, unrecorded, request, inFlight, remembered,
                   failures, hiccups, deaths>>

\* The job has failed for good and stays in BullMQ (removeOnFail: false).
JobFails(id) ==
    /\ dlqJobs[id] = "active"
    /\ failures < MaxFailures
    /\ failures' = failures + 1
    /\ dlqJobs' = [dlqJobs EXCEPT ![id] = "failing"]
    /\ UNCHANGED <<rows, indexed, unrecorded, request, inFlight, remembered,
                   hiccups, deaths>>

\* The failed listener records it, under the job's own id.
Record(id) ==
    /\ dlqJobs[id] = "failing"
    /\ dlqJobs' = [dlqJobs EXCEPT ![id] = "failed"]
    /\ \/ /\ rows' = [rows EXCEPT ![id] = "dead"]
          /\ UNCHANGED <<unrecorded, hiccups>>
       \/ /\ Hiccup
          /\ unrecorded' = unrecorded \cup {EventOf(id)}
          /\ UNCHANGED rows
    /\ UNCHANGED <<indexed, request, inFlight, remembered, failures, deaths>>

\* The process dies and is started again: its maps are empty, its requests
\* have no answer, and its active jobs stall and wait once more.
ApiDies ==
    /\ deaths < MaxDeaths
    /\ deaths' = deaths + 1
    /\ dlqJobs' = [id \in Ids |-> CASE dlqJobs[id] = "active" -> "waiting"
                                 [] dlqJobs[id] = "failing" -> "failed"
                                 [] OTHER -> dlqJobs[id]]
    /\ unrecorded' = unrecorded \cup {EventOf(id) : id \in {j \in Ids : dlqJobs[j] = "failing"}}
    /\ request' = [r \in Requests |->
                      IF request[r].pc \in Running \cup {"wait"}
                      THEN [request[r] EXCEPT !.pc = "lost"] ELSE request[r]]
    /\ inFlight' = [k \in RunKeys |-> {}]
    /\ remembered' = [k \in RunKeys |-> {}]
    /\ UNCHANGED <<rows, indexed, failures, hiccups>>

-----------------------------------------------------------------------------

Submit(r) == \E k \in RunKeys :
                 SubmitRemembered(r, k) \/ SubmitShared(r, k) \/ SubmitRun(r, k)

Execute(r) ==
    \/ Load(r) \/ LoadFails(r) \/ Clear(r) \/ Answer(r)
    \/ \E id \in Ids : Enqueue(r, id) \/ AddFails(r, id)

Work(id) == Take(id) \/ Succeed(id) \/ JobFails(id) \/ Record(id)

ReplayNext ==
    \/ \E r \in Requests : Submit(r) \/ Execute(r)
    \/ \E k \in RunKeys : Expire(k)
    \/ \E id \in Ids : Work(id)
    \/ ApiDies

ReplaySpec == ReplayInit /\ [][ReplayNext]_replayVars

\* Node resumes an execution when its round trip has ended, one way or the other.
ReplayFairness == \A r \in Requests : WF_replayVars(Execute(r))

FairReplaySpec == ReplaySpec /\ ReplayFairness

-----------------------------------------------------------------------------
(* Properties *)

ReplayTypeOK ==
    /\ rows \in [Ids -> {"none", "dead", "recovered"}]
    /\ dlqJobs \in [Ids -> {"none", "waiting", "active", "failing", "failed"}]
    /\ indexed \subseteq Troubled
    /\ unrecorded \subseteq Troubled
    /\ \A r \in Requests :
          /\ request[r].pc \in {"idle", "wait", "lost"} \cup Running \cup Answered
          /\ request[r].key \in RunKeys
          /\ request[r].todo \subseteq Ids
          /\ request[r].entry \subseteq Ids
          /\ request[r].summary \in Summary
    /\ inFlight \in [RunKeys -> SUBSET Requests]
    /\ \A k \in RunKeys : remembered[k] \subseteq Summary
    /\ failures \in 0 .. MaxFailures
    /\ hiccups \in 0 .. MaxHiccups
    /\ deaths \in 0 .. MaxDeaths

\* However requests, jobs, failures and deaths interleave, an event that is
\* not indexed has a job that will run or an unrecovered dead letter, unless
\* recording one failed: replaying never makes the last trace of it disappear.
EventAccounted ==
    \A e \in Troubled \ (indexed \cup unrecorded) :
        \E id \in Ids : /\ EventOf(id) = e
                        /\ \/ rows[id] = "dead"
                           \/ dlqJobs[id] \in {"waiting", "active", "failing"}

\* "Concurrent requests for the same target and key share one execution", and
\* none of them awaits an execution that has ended.
SharedExecution ==
    /\ \A r, s \in Requests :
          /\ request[r].pc \in Running
          /\ request[s].pc \in Running
          /\ request[r].key = request[s].key
          => r = s
    /\ \A w \in Requests :
          request[w].pc = "wait" =>
              \E r \in Requests : /\ request[r].pc \in Running
                                  /\ request[r].key = request[w].key

\* Every request that is accepted is answered, whatever fails, or its process
\* has died: none waits for ever on an execution that is over.
EventuallyAnswered ==
    \A r \in Requests : request[r].pc \in Running \cup {"wait"}
                            ~> request[r].pc \in Answered \cup {"lost"}
=============================================================================
