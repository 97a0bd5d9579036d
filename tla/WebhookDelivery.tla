-------------------------- MODULE WebhookDelivery --------------------------
(* Delivering events to one webhook (webhook.processor.ts). Every replica of *)
(* the API runs one delivery at a time: it reads the webhook's row, POSTs,   *)
(* writes the delivery and the audit entry, and updates the row with what    *)
(* the row said before the POST. The deliveries of different replicas, the   *)
(* owner who removes the webhook or retries failed jobs, and failures and    *)
(* crashes interleave with these steps.                                      *)
EXTENDS Naturals

CONSTANTS Jobs,         \* the deliveries dispatched
          Replicas,     \* processes with a WebhookWorker
          MaxFails,     \* MAX_CONSECUTIVE_FAILS
          MaxAttempts,  \* WEBHOOK_RETRY_ATTEMPTS
          MaxRetries,   \* bound: calls of retryFailedDeliveries
          MaxFaults,    \* bound: Postgres not answering
          MaxCrashes    \* bound: deaths of a replica

ASSUME WebhookAssumption ==
    /\ MaxFails \in Nat \ {0}
    /\ MaxAttempts \in Nat \ {0}
    /\ MaxRetries \in Nat
    /\ MaxFaults \in Nat
    /\ MaxCrashes \in Nat

VARIABLES hook,      \* the row of the webhook
          job,       \* BullMQ's job of each delivery
          worker,    \* what each replica is doing
          recorded,  \* rows of WebhookDelivery
          posts,     \* history: requests sent
          received,  \* history: accepted requests, by delivery
          streak,    \* history: failed requests since the last accepted one
          overlapped, \* history: two deliveries held the row at the same time
          retries, faults, crashes

vars == <<hook, job, worker, recorded, posts, received, streak,
          overlapped, retries, faults, crashes>>

Idle == [pc |-> "idle", job |-> {}, seen |-> 0, ok |-> FALSE]

WebhookInit ==
    /\ hook = [exists |-> TRUE, disabled |-> FALSE, fails |-> 0]
    /\ job = [j \in Jobs |-> [state |-> "none", attempts |-> 0]]
    /\ worker = [w \in Replicas |-> Idle]
    /\ recorded = 0
    /\ posts = 0
    /\ received = [j \in Jobs |-> 0]
    /\ streak = 0
    /\ overlapped = FALSE
    /\ retries = 0
    /\ faults = 0
    /\ crashes = 0

Fault == faults < MaxFaults /\ faults' = faults + 1

\* What only a request to the endpoint changes, all of the history, the bounds.
Requests == <<posts, received, streak>>
History == <<Requests, overlapped>>
Budget == <<retries, faults, crashes>>

-----------------------------------------------------------------------------
(* The queue and the owner *)

\* dispatch of the fan-out or of a ping; the webhook may be disabled or gone
\* since it was looked up.
Dispatch(j) ==
    /\ job[j].state = "none"
    /\ job' = [job EXCEPT ![j].state = "waiting"]
    /\ UNCHANGED <<hook, worker, recorded, History, Budget>>

\* remove: the deliveries' rows go with the webhook's (onDelete: Cascade), so
\* the count of them means nothing from here on.
RemoveWebhook ==
    /\ hook.exists
    /\ hook' = [hook EXCEPT !.exists = FALSE]
    /\ UNCHANGED <<job, worker, recorded, History, Budget>>

\* retryFailedDeliveries: each failed job goes back to wait, or not, if Redis
\* fails on it.
RetryFailed ==
    /\ retries < MaxRetries
    /\ retries' = retries + 1
    /\ hook.exists
    /\ \E again \in SUBSET {j \in Jobs : job[j].state = "failed"} :
          /\ again # {}
          /\ job' = [j \in Jobs |-> IF j \in again
                                    THEN [job[j] EXCEPT !.state = "waiting"]
                                    ELSE job[j]]
    /\ UNCHANGED <<hook, worker, recorded, History, faults, crashes>>

-----------------------------------------------------------------------------
(* deliver *)

\* BullMQ hands a waiting job to a replica.
Fetch(w, j) ==
    /\ worker[w].pc = "idle"
    /\ job[j].state = "waiting"
    /\ job' = [job EXCEPT ![j].state = "active"]
    /\ worker' = [worker EXCEPT ![w] = [Idle EXCEPT !.pc = "read", !.job = {j}]]
    /\ UNCHANGED <<hook, recorded, History, Budget>>

\* The delivery returns: BullMQ completes its job.
Return(w) ==
    /\ job' = [j \in Jobs |-> IF j \in worker[w].job
                              THEN [job[j] EXCEPT !.state = "done"] ELSE job[j]]
    /\ worker' = [worker EXCEPT ![w] = Idle]

\* The delivery throws: another attempt, or the job has failed.
Throw(w) ==
    /\ job' = [j \in Jobs |->
                  IF j \in worker[w].job
                  THEN [attempts |-> job[j].attempts + 1,
                        state |-> IF job[j].attempts + 1 < MaxAttempts
                                  THEN "waiting" ELSE "failed"]
                  ELSE job[j]]
    /\ worker' = [worker EXCEPT ![w] = Idle]

\* The replica knows the row as it was before its request.
Holding(w) == worker[w].pc \in {"post", "record", "audit", "update"}

\* findUnique; nothing is delivered to a webhook that is gone or disabled.
Read(w) ==
    /\ worker[w].pc = "read"
    /\ IF hook.exists /\ ~hook.disabled
       THEN /\ worker' = [worker EXCEPT ![w].pc = "post", ![w].seen = hook.fails]
            /\ overlapped' = (overlapped \/ \E v \in Replicas \ {w} : Holding(v))
            /\ UNCHANGED job
       ELSE Return(w) /\ UNCHANGED overlapped
    /\ UNCHANGED <<hook, recorded, Requests, Budget>>

\* The POST: answered below 400 or not, whether or not the endpoint got it.
Post(w, ok) ==
    /\ worker[w].pc = "post"
    /\ worker' = [worker EXCEPT ![w].pc = "record", ![w].ok = ok]
    /\ posts' = posts + 1
    /\ received' = [j \in Jobs |-> IF ok /\ j \in worker[w].job
                                   THEN received[j] + 1 ELSE received[j]]
    /\ streak' = IF ok THEN 0 ELSE streak + 1
    /\ UNCHANGED <<hook, job, recorded, overlapped, Budget>>

\* webhookDelivery.create, which needs the webhook to exist.
Record(w) ==
    /\ worker[w].pc = "record"
    /\ IF hook.exists
       THEN /\ recorded' = recorded + 1
            /\ worker' = [worker EXCEPT ![w].pc = "audit"]
            /\ UNCHANGED job
       ELSE Throw(w) /\ UNCHANGED recorded
    /\ UNCHANGED <<hook, History, Budget>>

\* webhookAuditLog.create.
Audit(w) ==
    /\ worker[w].pc = "audit"
    /\ worker' = [worker EXCEPT ![w].pc = "update"]
    /\ UNCHANGED <<hook, job, recorded, History, Budget>>

\* Without the throw at the end.
UpdateFailedQuiet(w) ==
    /\ worker[w].pc = "update"
    /\ ~worker[w].ok
    /\ LET fails == worker[w].seen + 1
       IN hook' = [hook EXCEPT !.fails = fails, !.disabled = fails >= MaxFails]
    /\ Return(w)
    /\ UNCHANGED <<recorded, History, Budget>>

\* Comparing with > instead of >=.
UpdateFailedLate(w) ==
    /\ worker[w].pc = "update"
    /\ ~worker[w].ok
    /\ LET fails == worker[w].seen + 1
       IN hook' = IF hook.exists
                  THEN [hook EXCEPT !.fails = fails, !.disabled = fails > MaxFails]
                  ELSE hook
    /\ Throw(w)
    /\ UNCHANGED <<recorded, History, Budget>>

\* The update after a failed request: the count read before it, plus one.
\* The job throws, also when the row is gone.
UpdateFailed(w) ==
    /\ worker[w].pc = "update"
    /\ ~worker[w].ok
    /\ LET fails == worker[w].seen + 1
       IN hook' = IF hook.exists
                  THEN [hook EXCEPT !.fails = fails, !.disabled = fails >= MaxFails]
                  ELSE hook
    /\ Throw(w)
    /\ UNCHANGED <<recorded, History, Budget>>

\* Without the reset.
UpdateDeliveredOnly(w) ==
    /\ worker[w].pc = "update"
    /\ worker[w].ok
    /\ Return(w)
    /\ UNCHANGED <<hook, recorded, History, Budget>>

\* The throw behind the update of both outcomes.
UpdateDeliveredThrows(w) ==
    /\ worker[w].pc = "update"
    /\ worker[w].ok
    /\ hook' = IF hook.exists THEN [hook EXCEPT !.fails = 0] ELSE hook
    /\ Throw(w)
    /\ UNCHANGED <<recorded, History, Budget>>

\* The update after an accepted request.
UpdateDelivered(w) ==
    /\ worker[w].pc = "update"
    /\ worker[w].ok
    /\ IF hook.exists
       THEN hook' = [hook EXCEPT !.fails = 0] /\ Return(w)
       ELSE UNCHANGED hook /\ Throw(w)
    /\ UNCHANGED <<recorded, History, Budget>>

\* Postgres fails at one of the four statements.
StatementFails(w) ==
    /\ worker[w].pc \in {"read", "record", "audit", "update"}
    /\ Fault
    /\ Throw(w)
    /\ UNCHANGED <<hook, recorded, History, retries, crashes>>

\* The replica dies; the stalled check puts its job back.
Crash(w) ==
    /\ crashes < MaxCrashes
    /\ worker[w].pc # "idle"
    /\ crashes' = crashes + 1
    /\ job' = [j \in Jobs |-> IF j \in worker[w].job
                              THEN [job[j] EXCEPT !.state = "waiting"] ELSE job[j]]
    /\ worker' = [worker EXCEPT ![w] = Idle]
    /\ UNCHANGED <<hook, recorded, History, retries, faults>>

-----------------------------------------------------------------------------

Deliver(w) ==
    \/ Read(w) \/ Record(w) \/ Audit(w) \/ UpdateFailed(w) \/ UpdateDelivered(w)
    \/ StatementFails(w)
    \/ \E ok \in BOOLEAN : Post(w, ok)

WebhookNext ==
    \/ \E j \in Jobs : Dispatch(j)
    \/ RemoveWebhook
    \/ RetryFailed
    \/ \E w \in Replicas : Deliver(w) \/ Crash(w) \/ \E j \in Jobs : Fetch(w, j)

WebhookSpec == WebhookInit /\ [][WebhookNext]_vars

-----------------------------------------------------------------------------
(* Properties *)

WebhookTypeOK ==
    /\ hook \in [exists : BOOLEAN, disabled : BOOLEAN, fails : 0 .. MaxFails]
    /\ job \in [Jobs -> [state : {"none", "waiting", "active", "done", "failed"},
                         attempts : Nat]]
    /\ \A w \in Replicas :
          /\ worker[w].pc \in {"idle", "read", "post", "record", "audit", "update"}
          /\ worker[w].job \subseteq Jobs
          /\ worker[w].seen \in 0 .. MaxFails - 1
    /\ recorded \in 0 .. posts
    /\ received \in [Jobs -> Nat]
    /\ streak \in 0 .. posts
    /\ overlapped \in BOOLEAN

\* A job is only ever finished when the endpoint has accepted its event, or the
\* webhook is disabled or removed: no order of attempts, failures, removals and
\* crashes of replicas drops it in silence.
PayloadAccounted ==
    [][\A j \in Jobs :
          job[j].state # "done" /\ job'[j].state = "done" =>
              received[j] > 0 \/ ~hook.exists \/ hook.disabled]_vars

\* While Postgres answers and no replica dies, an accepted event is not sent
\* again, by no other replica, retry or attempt.
AcceptedOnce == faults = 0 /\ crashes = 0 => \A j \in Jobs : received[j] <= 1

\* "After WEBHOOK_MAX_CONSECUTIVE_FAILS consecutive failures a webhook is
\* automatically disabled", and not before: as long as no two deliveries have
\* overlapped and nothing failed between a request and its update, the row's
\* count is the number of failures since the last accepted request.
DisabledByStreak ==
    (/\ hook.exists /\ ~overlapped /\ faults = 0 /\ crashes = 0
     /\ \A w \in Replicas : ~Holding(w)) =>
        /\ hook.fails = streak
        /\ hook.disabled <=> streak >= MaxFails
=============================================================================
