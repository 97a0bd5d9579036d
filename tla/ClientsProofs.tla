---------------------------- MODULE ClientsProofs ----------------------------
(* What stands between the API and its clients: webhooks and the alerts that *)
(* end in one, the guards, and the screens, for any number of deliveries,    *)
(* replicas, owners, addresses, pages, ticks and loads.                      *)
EXTENDS MCClients, FiniteSetTheorems, WellFoundedInduction, TLAPS

-----------------------------------------------------------------------------
(* WebhookDelivery: a delivery is in one replica's hands, and what the row    *)
(* said before a request still holds when the request's update is written, as *)
(* long as no other delivery read it meanwhile.                               *)

WorkerPcs == {"idle", "read", "post", "record", "audit", "update"}
WorkerState == [pc : WorkerPcs, job : SUBSET Jobs, seen : 0 .. MaxFails - 1, ok : BOOLEAN]
AfterPost(w) == worker[w].pc \in {"record", "audit", "update"}

\* The types, without how many deliveries are recorded.
WebhookTyped ==
    /\ hook \in [exists : BOOLEAN, disabled : BOOLEAN, fails : 0 .. MaxFails]
    /\ job \in [Jobs -> [state : {"none", "waiting", "active", "done", "failed"},
                         attempts : Nat]]
    /\ worker \in [Replicas -> WorkerState]
    /\ recorded \in Nat
    /\ posts \in Nat
    /\ received \in [Jobs -> Nat]
    /\ streak \in 0 .. posts
    /\ overlapped \in BOOLEAN
    /\ retries \in Nat
    /\ faults \in Nat
    /\ crashes \in Nat

\* The row is enabled only below the limit.
EnabledBelowLimit == ~hook.disabled => hook.fails < MaxFails

\* A busy replica has one job, which BullMQ counts as active, and no other
\* replica has it.
HeldByOne ==
    /\ \A w \in Replicas : worker[w].pc = "idle" => worker[w].job = {}
    /\ \A w \in Replicas : worker[w].pc # "idle" =>
          \E j \in Jobs : worker[w].job = {j} /\ job[j].state = "active"
    /\ \A v, w \in Replicas : v # w => worker[v].job \cap worker[w].job = {}

\* What the endpoint accepted is counted.
OkIsReceived ==
    \A w \in Replicas : AfterPost(w) /\ worker[w].ok =>
        \A j \in worker[w].job : received[j] > 0

\* Until something fails, an accepted event is done with, in the hands of the
\* replica that sent it, or of a webhook that is gone; a request goes out only
\* for an event that was not accepted.
AcceptedSettled ==
    faults = 0 /\ crashes = 0 =>
        /\ \A j \in Jobs : received[j] <= 1
        /\ \A j \in Jobs : received[j] = 1 =>
              \/ job[j].state = "done"
              \/ ~hook.exists
              \/ \E w \in Replicas : j \in worker[w].job /\ AfterPost(w) /\ worker[w].ok
        /\ \A w \in Replicas : worker[w].pc = "post" =>
              \A j \in worker[w].job : received[j] = 0

Undisturbed == hook.exists /\ ~overlapped /\ faults = 0 /\ crashes = 0

\* The row counts the failures since the last accepted request, but for the one
\* of the replica between its request and its update.
RowCounts ==
    Undisturbed =>
        /\ hook.disabled <=> hook.fails >= MaxFails
        /\ (\A w \in Replicas : ~Holding(w)) => hook.fails = streak
        /\ \A v, w \in Replicas : Holding(v) /\ Holding(w) => v = w
        /\ \A w \in Replicas : Holding(w) =>
              /\ ~hook.disabled
              /\ worker[w].seen = hook.fails
              /\ worker[w].pc = "post" => streak = hook.fails
              /\ AfterPost(w) => streak = IF worker[w].ok THEN 0 ELSE hook.fails + 1

WebhookInv ==
    /\ WebhookTyped
    /\ EnabledBelowLimit
    /\ HeldByOne
    /\ OkIsReceived
    /\ AcceptedSettled
    /\ RowCounts


\* A replica that moves keeps the types.
LEMMA WorkerMoves ==
    ASSUME NEW w \in Replicas, NEW state \in WorkerState, worker \in [Replicas -> WorkerState],
           worker' = [worker EXCEPT ![w] = state]
    PROVE  worker' \in [Replicas -> WorkerState]
  OBVIOUS

LEMMA IdleTyped == Idle \in WorkerState /\ Idle.pc = "idle" /\ Idle.job = {}
  BY WebhookAssumption DEF Idle, WorkerState, WorkerPcs

\* Nobody takes or leaves a job.
LEMMA HeldStays ==
    ASSUME HeldByOne, job' = job,
           \A v \in Replicas : /\ worker'[v].job = worker[v].job
                               /\ worker'[v].pc = "idle" <=> worker[v].pc = "idle"
    PROVE  HeldByOne'
  BY DEF HeldByOne

\* A replica leaves its job, and nothing happens to another one.
LEMMA HeldReleased ==
    ASSUME HeldByOne, NEW w \in Replicas, worker \in [Replicas -> WorkerState],
           worker' = [worker EXCEPT ![w] = Idle],
           \A j \in Jobs \ worker[w].job : job'[j] = job[j]
    PROVE  HeldByOne'
  <1>1. /\ worker'[w].pc = "idle" /\ worker'[w].job = {}
        /\ \A v \in Replicas \ {w} : worker'[v] = worker[v]
    BY IdleTyped
  <1>2. ASSUME NEW v \in Replicas, worker'[v].pc # "idle"
        PROVE  \E j \in Jobs : worker'[v].job = {j} /\ job'[j].state = "active"
    <2>1. v # w /\ worker'[v] = worker[v]
      BY <1>1, <1>2
    <2>2. PICK j \in Jobs : worker[v].job = {j} /\ job[j].state = "active"
      BY <1>2, <2>1 DEF HeldByOne
    <2>3. j \notin worker[w].job
      BY <2>1, <2>2 DEF HeldByOne
    <2> QED BY <2>1, <2>2, <2>3
  <1>3. \A v \in Replicas : worker'[v].job \subseteq worker[v].job
    BY <1>1
  <1> QED BY <1>1, <1>2, <1>3 DEF HeldByOne

LEMMA WebhookInitial == WebhookInit => WebhookInv
  <1> SUFFICES ASSUME WebhookInit PROVE WebhookInv
    OBVIOUS
  <1>1. WebhookTyped
    <2>1. worker \in [Replicas -> WorkerState]
      BY IdleTyped DEF WebhookInit
    <2>2. hook \in [exists : BOOLEAN, disabled : BOOLEAN, fails : 0 .. MaxFails]
      BY WebhookAssumption DEF WebhookInit
    <2>3. job \in [Jobs -> [state : {"none", "waiting", "active", "done", "failed"}, attempts : Nat]]
      BY DEF WebhookInit
    <2>4. received \in [Jobs -> Nat] /\ streak \in 0 .. posts
      BY DEF WebhookInit
    <2> QED BY <2>1, <2>2, <2>3, <2>4 DEF WebhookInit, WebhookTyped
  <1>2. \A w \in Replicas : worker[w].pc = "idle" /\ worker[w].job = {}
    BY IdleTyped DEF WebhookInit
  <1>3. HeldByOne /\ OkIsReceived
    BY <1>2 DEF HeldByOne, OkIsReceived, AfterPost
  <1>4. AcceptedSettled
    BY <1>2 DEF WebhookInit, AcceptedSettled
  <1>5. EnabledBelowLimit /\ RowCounts
    BY <1>2, WebhookAssumption DEF WebhookInit, EnabledBelowLimit, RowCounts, Undisturbed, Holding
  <1> QED BY <1>1, <1>3, <1>4, <1>5 DEF WebhookInv

LEMMA WebhookStep == WebhookInv /\ [WebhookNext]_vars => WebhookInv'
  <1> SUFFICES ASSUME WebhookInv, [WebhookNext]_vars PROVE WebhookInv'
    OBVIOUS
  <1> USE WebhookAssumption
  <1>0. /\ WebhookTyped /\ EnabledBelowLimit /\ HeldByOne
        /\ OkIsReceived /\ AcceptedSettled /\ RowCounts
    BY DEF WebhookInv
  <1>1. ASSUME NEW j \in Jobs, Dispatch(j) PROVE WebhookInv'
    <2>1. WebhookTyped'
      BY <1>0, <1>1 DEF Dispatch, History, Requests, Budget, WebhookTyped, WorkerState, WorkerPcs
    <2>2. EnabledBelowLimit'
      BY <1>0, <1>1 DEF Dispatch, History, Requests, Budget, EnabledBelowLimit, WebhookTyped
    <2>3. HeldByOne'
      BY <1>0, <1>1 DEF Dispatch, History, Requests, Budget, HeldByOne, WebhookTyped, WorkerState, WorkerPcs
    <2>4. OkIsReceived'
      BY <1>0, <1>1 DEF Dispatch, History, Requests, Budget, OkIsReceived, HeldByOne, AfterPost, WebhookTyped, WorkerState, WorkerPcs
    <2>5. AcceptedSettled'
      BY <1>0, <1>1 DEF Dispatch, History, Requests, Budget, AcceptedSettled, HeldByOne, AfterPost, WebhookTyped, WorkerState, WorkerPcs
    <2>6. RowCounts'
      BY <1>0, <1>1 DEF Dispatch, History, Requests, Budget, RowCounts, Undisturbed, Holding, AfterPost, EnabledBelowLimit, WebhookTyped, WorkerState, WorkerPcs
    <2> QED BY <2>1, <2>2, <2>3, <2>4, <2>5, <2>6 DEF WebhookInv
  <1>2. ASSUME RemoveWebhook PROVE WebhookInv'
    <2>1. WebhookTyped'
      BY <1>0, <1>2 DEF RemoveWebhook, History, Requests, Budget, WebhookTyped, WorkerState, WorkerPcs
    <2>2. EnabledBelowLimit'
      BY <1>0, <1>2 DEF RemoveWebhook, History, Requests, Budget, EnabledBelowLimit, WebhookTyped
    <2>3. HeldByOne'
      BY <1>0, <1>2 DEF RemoveWebhook, History, Requests, Budget, HeldByOne, WebhookTyped, WorkerState, WorkerPcs
    <2>4. OkIsReceived'
      BY <1>0, <1>2 DEF RemoveWebhook, History, Requests, Budget, OkIsReceived, HeldByOne, AfterPost, WebhookTyped, WorkerState, WorkerPcs
    <2>5. AcceptedSettled'
      BY <1>0, <1>2 DEF RemoveWebhook, History, Requests, Budget, AcceptedSettled, HeldByOne, AfterPost, WebhookTyped, WorkerState, WorkerPcs
    <2>6. RowCounts'
      BY <1>0, <1>2 DEF RemoveWebhook, History, Requests, Budget, RowCounts, Undisturbed, Holding, AfterPost, EnabledBelowLimit, WebhookTyped, WorkerState, WorkerPcs
    <2> QED BY <2>1, <2>2, <2>3, <2>4, <2>5, <2>6 DEF WebhookInv
  <1>3. ASSUME RetryFailed PROVE WebhookInv'
    <2>1. WebhookTyped'
      BY <1>0, <1>3 DEF RetryFailed, History, Requests, Budget, WebhookTyped, WorkerState, WorkerPcs
    <2>2. EnabledBelowLimit'
      BY <1>0, <1>3 DEF RetryFailed, History, Requests, Budget, EnabledBelowLimit, WebhookTyped
    <2>3. HeldByOne'
      BY <1>0, <1>3 DEF RetryFailed, History, Requests, Budget, HeldByOne, WebhookTyped, WorkerState, WorkerPcs
    <2>4. OkIsReceived'
      BY <1>0, <1>3 DEF RetryFailed, History, Requests, Budget, OkIsReceived, HeldByOne, AfterPost, WebhookTyped, WorkerState, WorkerPcs
    <2>5. AcceptedSettled'
      BY <1>0, <1>3 DEF RetryFailed, History, Requests, Budget, AcceptedSettled, HeldByOne, AfterPost, WebhookTyped, WorkerState, WorkerPcs
    <2>6. RowCounts'
      BY <1>0, <1>3 DEF RetryFailed, History, Requests, Budget, RowCounts, Undisturbed, Holding, AfterPost, EnabledBelowLimit, WebhookTyped, WorkerState, WorkerPcs
    <2> QED BY <2>1, <2>2, <2>3, <2>4, <2>5, <2>6 DEF WebhookInv
  <1>4. ASSUME NEW w \in Replicas, NEW j \in Jobs, Fetch(w, j) PROVE WebhookInv'
    <2> DEFINE new == [Idle EXCEPT !.pc = "read", !.job = {j}]
    <2>a. /\ new \in WorkerState /\ new.pc = "read" /\ new.job = {j}
          /\ worker' = [worker EXCEPT ![w] = new]
      BY <1>4, IdleTyped DEF Fetch, WorkerState, WorkerPcs
    <2> HIDE DEF new
    <2>1. WebhookTyped'
      <3>1. worker' \in [Replicas -> WorkerState]
        BY <1>0, <2>a DEF WebhookTyped
      <3> QED BY <1>0, <1>4, <3>1 DEF Fetch, History, Requests, Budget, WebhookTyped
    <2>2. EnabledBelowLimit'
      BY <1>0, <1>4 DEF Fetch, Idle, History, Requests, Budget, EnabledBelowLimit, WebhookTyped
    <2>3. HeldByOne'
      <3>1. job[j].state = "waiting" /\ worker[w].job = {}
        BY <1>0, <1>4 DEF Fetch, HeldByOne
      <3>2. /\ job'[j].state = "active" /\ \A k \in Jobs \ {j} : job'[k] = job[k]
            /\ worker'[w].job = {j} /\ worker'[w].pc = "read"
            /\ \A v \in Replicas \ {w} : worker'[v] = worker[v]
        BY <1>0, <1>4, <2>a DEF Fetch, WebhookTyped
      <3>3. \A v \in Replicas : j \notin worker[v].job
        BY <1>0, <3>1 DEF HeldByOne
      <3> QED BY <1>0, <3>2, <3>3 DEF HeldByOne
    <2>4. OkIsReceived'
      BY <1>0, <1>4 DEF Fetch, Idle, History, Requests, Budget, OkIsReceived, HeldByOne, AfterPost, WebhookTyped, WorkerState, WorkerPcs
    <2>5. AcceptedSettled'
      BY <1>0, <1>4 DEF Fetch, Idle, History, Requests, Budget, AcceptedSettled, HeldByOne, AfterPost, WebhookTyped, WorkerState, WorkerPcs
    <2>6. RowCounts'
      BY <1>0, <1>4 DEF Fetch, Idle, History, Requests, Budget, RowCounts, Undisturbed, Holding, AfterPost, EnabledBelowLimit, WebhookTyped, WorkerState, WorkerPcs
    <2> QED BY <2>1, <2>2, <2>3, <2>4, <2>5, <2>6 DEF WebhookInv
  <1>5. ASSUME NEW w \in Replicas, Read(w) PROVE WebhookInv'
    <2>1. WebhookTyped'
      <3>1. \E state \in WorkerState : worker' = [worker EXCEPT ![w] = state]
        <4>1. CASE hook.exists /\ ~hook.disabled
          <5> DEFINE new == [worker[w] EXCEPT !.pc = "post", !.seen = hook.fails]
          <5>1. hook.fails \in 0 .. MaxFails - 1
            BY <1>0, <4>1 DEF WebhookTyped, EnabledBelowLimit
          <5>2. worker[w] \in WorkerState
            BY <1>0 DEF WebhookTyped
          <5>3. new \in WorkerState
            BY <5>1, <5>2 DEF WorkerState, WorkerPcs
          <5>4. worker' = [worker EXCEPT ![w] = new]
            BY <1>0, <1>5, <4>1 DEF Read, WebhookTyped
          <5> QED BY <5>3, <5>4
        <4>2. CASE ~(hook.exists /\ ~hook.disabled)
          BY <1>5, <4>2, IdleTyped DEF Read, Return
        <4> QED BY <4>1, <4>2
      <3>2. worker' \in [Replicas -> WorkerState]
        BY <1>0, <3>1, WorkerMoves DEF WebhookTyped
      <3>3. job' \in [Jobs -> [state : {"none", "waiting", "active", "done", "failed"}, attempts : Nat]]
        BY <1>0, <1>5 DEF Read, Return, WebhookTyped
      <3> QED BY <1>0, <1>5, <3>2, <3>3 DEF Read, Return, History, Requests, Budget, WebhookTyped, EnabledBelowLimit, WorkerState
    <2>2. EnabledBelowLimit'
      BY <1>0, <1>5 DEF Read, Return, Idle, History, Requests, Budget, EnabledBelowLimit, WebhookTyped
    <2>3. HeldByOne'
      <3>1. CASE hook.exists /\ ~hook.disabled
        <4>1. /\ job' = job
              /\ \A v \in Replicas : /\ worker'[v].job = worker[v].job
                                     /\ worker'[v].pc = "idle" <=> worker[v].pc = "idle"
          BY <1>0, <1>5, <3>1 DEF Read, WebhookTyped, WorkerState
        <4> QED BY <1>0, <4>1, HeldStays
      <3>2. CASE ~(hook.exists /\ ~hook.disabled)
        <4>1. /\ worker' = [worker EXCEPT ![w] = Idle]
              /\ \A j \in Jobs \ worker[w].job : job'[j] = job[j]
          BY <1>5, <3>2 DEF Read, Return
        <4> QED BY <1>0, <4>1, HeldReleased DEF WebhookTyped
      <3> QED BY <3>1, <3>2
    <2>4. OkIsReceived'
      BY <1>0, <1>5 DEF Read, Return, Idle, History, Requests, Budget, OkIsReceived, HeldByOne, AfterPost, WebhookTyped, WorkerState, WorkerPcs
    <2>5. AcceptedSettled'
      <3>1. CASE hook.exists /\ ~hook.disabled
        <4>1. /\ worker' = [worker EXCEPT ![w].pc = "post", ![w].seen = hook.fails]
              /\ worker[w].pc = "read" /\ UNCHANGED <<hook, job, received, faults, crashes>>
          BY <1>5, <3>1 DEF Read, Requests, Budget
        <4>2. /\ \A v \in Replicas \ {w} : worker'[v] = worker[v]
              /\ worker'[w].pc = "post" /\ worker'[w].job = worker[w].job
          BY <1>0, <4>1 DEF WebhookTyped, WorkerState
        <4>3. SUFFICES ASSUME faults = 0, crashes = 0
                       PROVE  AcceptedSettled'
          BY <4>1 DEF AcceptedSettled
        <4>4. \A j \in worker[w].job : job[j].state = "active" /\ \A v \in Replicas \ {w} : j \notin worker[v].job
          BY <1>0, <4>1 DEF HeldByOne
        <4>5. \A j \in worker[w].job : j \in Jobs /\ received[j] = 0
          <5>1. ASSUME NEW j \in worker[w].job PROVE j \in Jobs /\ received[j] = 0
            <6>1. j \in Jobs /\ received[j] \in Nat /\ received[j] <= 1
              BY <1>0, <4>3, <5>1 DEF AcceptedSettled, WebhookTyped, WorkerState
            <6>2. /\ job[j].state # "done" /\ hook.exists
                  /\ \A v \in Replicas : j \in worker[v].job => ~AfterPost(v)
              BY <3>1, <4>1, <4>4, <5>1 DEF AfterPost
            <6>3. received[j] # 1
              BY <1>0, <4>3, <6>1, <6>2 DEF AcceptedSettled
            <6> QED BY <6>1, <6>3
          <5> QED BY <5>1
        <4>6. \A v \in Replicas : AfterPost(v) => v # w
          BY <4>1 DEF AfterPost
        <4>7. \A j \in Jobs : received'[j] <= 1
          BY <1>0, <4>1, <4>3 DEF AcceptedSettled
        <4>8. ASSUME NEW j \in Jobs, received'[j] = 1
              PROVE  \/ job'[j].state = "done"
                     \/ ~hook'.exists
                     \/ \E v \in Replicas : j \in worker'[v].job /\ AfterPost(v)' /\ worker'[v].ok
          BY <1>0, <4>1, <4>2, <4>3, <4>6, <4>8 DEF AcceptedSettled, AfterPost
        <4>9. \A v \in Replicas : worker'[v].pc = "post" => \A j \in worker'[v].job : received'[j] = 0
          BY <1>0, <4>1, <4>2, <4>3, <4>5 DEF AcceptedSettled
        <4> QED BY <4>7, <4>8, <4>9 DEF AcceptedSettled, AfterPost
      <3>2. CASE ~(hook.exists /\ ~hook.disabled)
        <4>1. /\ worker[w].pc = "read" /\ UNCHANGED <<hook, received, faults, crashes>>
              /\ worker'[w].pc = "idle" /\ \A v \in Replicas \ {w} : worker'[v] = worker[v]
              /\ \A j \in Jobs : job'[j].state \in {"done", job[j].state}
          BY <1>0, <1>5, <3>2, IdleTyped DEF Read, Return, Requests, Budget, WebhookTyped
        <4> QED BY <1>0, <4>1 DEF AcceptedSettled, AfterPost
      <3> QED BY <3>1, <3>2
    <2>6. RowCounts'
      BY <1>0, <1>5 DEF Read, Return, Idle, History, Requests, Budget, RowCounts, Undisturbed, Holding, AfterPost, EnabledBelowLimit, WebhookTyped, WorkerState, WorkerPcs
    <2> QED BY <2>1, <2>2, <2>3, <2>4, <2>5, <2>6 DEF WebhookInv
  <1>6. ASSUME NEW w \in Replicas, NEW ok \in BOOLEAN, Post(w, ok) PROVE WebhookInv'
    <2>1. WebhookTyped'
      <3>1. \E state \in WorkerState : worker' = [worker EXCEPT ![w] = state]
        BY <1>0, <1>6, IdleTyped DEF Post, WebhookTyped, EnabledBelowLimit, WorkerState, WorkerPcs
      <3>2. worker' \in [Replicas -> WorkerState]
        BY <1>0, <3>1, WorkerMoves DEF WebhookTyped
      <3>3. job' \in [Jobs -> [state : {"none", "waiting", "active", "done", "failed"}, attempts : Nat]]
        BY <1>0, <1>6 DEF Post, WebhookTyped
      <3> QED BY <1>0, <1>6, <3>2, <3>3 DEF Post, History, Requests, Budget, WebhookTyped, EnabledBelowLimit, WorkerState
    <2>2. EnabledBelowLimit'
      BY <1>0, <1>6 DEF Post, History, Requests, Budget, EnabledBelowLimit, WebhookTyped
    <2>3. HeldByOne'
      <3>1. /\ job' = job
            /\ \A v \in Replicas : /\ worker'[v].job = worker[v].job
                                   /\ worker'[v].pc = "idle" <=> worker[v].pc = "idle"
        BY <1>0, <1>6 DEF Post, Budget, WebhookTyped, WorkerState
      <3> QED BY <1>0, <3>1, HeldStays
    <2>4. OkIsReceived'
      BY <1>0, <1>6 DEF Post, History, Requests, Budget, OkIsReceived, HeldByOne, AfterPost, WebhookTyped, WorkerState, WorkerPcs
    <2>5. AcceptedSettled'
      BY <1>0, <1>6 DEF Post, History, Requests, Budget, AcceptedSettled, HeldByOne, AfterPost, WebhookTyped, WorkerState, WorkerPcs
    <2>6. RowCounts'
      BY <1>0, <1>6 DEF Post, History, Requests, Budget, RowCounts, Undisturbed, Holding, AfterPost, EnabledBelowLimit, WebhookTyped, WorkerState, WorkerPcs
    <2> QED BY <2>1, <2>2, <2>3, <2>4, <2>5, <2>6 DEF WebhookInv
  <1>7. ASSUME NEW w \in Replicas, Record(w) PROVE WebhookInv'
    <2>1. WebhookTyped'
      <3>1. \E state \in WorkerState : worker' = [worker EXCEPT ![w] = state]
        BY <1>0, <1>7, IdleTyped DEF Record, Throw, WebhookTyped, EnabledBelowLimit, WorkerState, WorkerPcs
      <3>2. worker' \in [Replicas -> WorkerState]
        BY <1>0, <3>1, WorkerMoves DEF WebhookTyped
      <3>3. job' \in [Jobs -> [state : {"none", "waiting", "active", "done", "failed"}, attempts : Nat]]
        BY <1>0, <1>7 DEF Record, Throw, WebhookTyped
      <3> QED BY <1>0, <1>7, <3>2, <3>3 DEF Record, Throw, History, Requests, Budget, WebhookTyped, EnabledBelowLimit, WorkerState
    <2>2. EnabledBelowLimit'
      BY <1>0, <1>7 DEF Record, Throw, Idle, History, Requests, Budget, EnabledBelowLimit, WebhookTyped
    <2>3. HeldByOne'
      <3>1. CASE hook.exists
        <4>1. /\ job' = job
              /\ \A v \in Replicas : /\ worker'[v].job = worker[v].job
                                     /\ worker'[v].pc = "idle" <=> worker[v].pc = "idle"
          BY <1>0, <1>7, <3>1 DEF Record, WebhookTyped, WorkerState
        <4> QED BY <1>0, <4>1, HeldStays
      <3>2. CASE ~hook.exists
        <4>1. /\ worker' = [worker EXCEPT ![w] = Idle]
              /\ \A j \in Jobs \ worker[w].job : job'[j] = job[j]
          BY <1>7, <3>2 DEF Record, Throw
        <4> QED BY <1>0, <4>1, HeldReleased DEF WebhookTyped
      <3> QED BY <3>1, <3>2
    <2>4. OkIsReceived'
      BY <1>0, <1>7 DEF Record, Throw, Idle, History, Requests, Budget, OkIsReceived, HeldByOne, AfterPost, WebhookTyped, WorkerState, WorkerPcs
    <2>5. AcceptedSettled'
      BY <1>0, <1>7 DEF Record, Throw, Idle, History, Requests, Budget, AcceptedSettled, HeldByOne, AfterPost, WebhookTyped, WorkerState, WorkerPcs
    <2>6. RowCounts'
      BY <1>0, <1>7 DEF Record, Throw, Idle, History, Requests, Budget, RowCounts, Undisturbed, Holding, AfterPost, EnabledBelowLimit, WebhookTyped, WorkerState, WorkerPcs
    <2> QED BY <2>1, <2>2, <2>3, <2>4, <2>5, <2>6 DEF WebhookInv
  <1>8. ASSUME NEW w \in Replicas, Audit(w) PROVE WebhookInv'
    <2>1. WebhookTyped'
      <3>1. \E state \in WorkerState : worker' = [worker EXCEPT ![w] = state]
        BY <1>0, <1>8, IdleTyped DEF Audit, WebhookTyped, EnabledBelowLimit, WorkerState, WorkerPcs
      <3>2. worker' \in [Replicas -> WorkerState]
        BY <1>0, <3>1, WorkerMoves DEF WebhookTyped
      <3>3. job' \in [Jobs -> [state : {"none", "waiting", "active", "done", "failed"}, attempts : Nat]]
        BY <1>0, <1>8 DEF Audit, WebhookTyped
      <3> QED BY <1>0, <1>8, <3>2, <3>3 DEF Audit, History, Requests, Budget, WebhookTyped, EnabledBelowLimit, WorkerState
    <2>2. EnabledBelowLimit'
      BY <1>0, <1>8 DEF Audit, History, Requests, Budget, EnabledBelowLimit, WebhookTyped
    <2>3. HeldByOne'
      BY <1>0, <1>8 DEF Audit, History, Requests, Budget, HeldByOne, WebhookTyped, WorkerState, WorkerPcs
    <2>4. OkIsReceived'
      BY <1>0, <1>8 DEF Audit, History, Requests, Budget, OkIsReceived, HeldByOne, AfterPost, WebhookTyped, WorkerState, WorkerPcs
    <2>5. AcceptedSettled'
      BY <1>0, <1>8 DEF Audit, History, Requests, Budget, AcceptedSettled, HeldByOne, AfterPost, WebhookTyped, WorkerState, WorkerPcs
    <2>6. RowCounts'
      BY <1>0, <1>8 DEF Audit, History, Requests, Budget, RowCounts, Undisturbed, Holding, AfterPost, EnabledBelowLimit, WebhookTyped, WorkerState, WorkerPcs
    <2> QED BY <2>1, <2>2, <2>3, <2>4, <2>5, <2>6 DEF WebhookInv
  <1>9. ASSUME NEW w \in Replicas, UpdateFailed(w) PROVE WebhookInv'
    <2>1. WebhookTyped'
      <3>1. \E state \in WorkerState : worker' = [worker EXCEPT ![w] = state]
        BY <1>0, <1>9, IdleTyped DEF UpdateFailed, Throw, WebhookTyped, EnabledBelowLimit, WorkerState, WorkerPcs
      <3>2. worker' \in [Replicas -> WorkerState]
        BY <1>0, <3>1, WorkerMoves DEF WebhookTyped
      <3>3. job' \in [Jobs -> [state : {"none", "waiting", "active", "done", "failed"}, attempts : Nat]]
        BY <1>0, <1>9 DEF UpdateFailed, Throw, WebhookTyped
      <3>4. worker[w].seen + 1 \in 0 .. MaxFails
        BY <1>0 DEF WebhookTyped, WorkerState
      <3>5. hook' \in [exists : BOOLEAN, disabled : BOOLEAN, fails : 0 .. MaxFails]
        <4>1. CASE hook.exists
          <5>1. hook' = [hook EXCEPT !.fails = worker[w].seen + 1,
                                     !.disabled = worker[w].seen + 1 >= MaxFails]
            BY <1>9, <4>1 DEF UpdateFailed
          <5>2. hook' = [exists |-> hook.exists, disabled |-> worker[w].seen + 1 >= MaxFails,
                         fails |-> worker[w].seen + 1]
            BY <1>0, <5>1 DEF WebhookTyped
          <5>3. (worker[w].seen + 1 >= MaxFails) \in BOOLEAN
            OBVIOUS
          <5> QED BY <1>0, <3>4, <5>2, <5>3 DEF WebhookTyped
        <4>2. CASE ~hook.exists
          BY <1>0, <1>9, <4>2 DEF UpdateFailed, WebhookTyped
        <4> QED BY <4>1, <4>2
      <3> QED BY <1>0, <1>9, <3>2, <3>3, <3>5 DEF UpdateFailed, Throw, History, Requests, Budget, WebhookTyped
    <2>2. EnabledBelowLimit'
      <3>1. worker[w].seen + 1 \in Nat
        BY <1>0 DEF WebhookTyped, WorkerState
      <3> QED BY <1>0, <1>9, <3>1 DEF UpdateFailed, EnabledBelowLimit, WebhookTyped
    <2>3. HeldByOne'
      BY <1>0, <1>9 DEF UpdateFailed, Throw, Idle, History, Requests, Budget, HeldByOne, WebhookTyped, WorkerState, WorkerPcs
    <2>4. OkIsReceived'
      BY <1>0, <1>9 DEF UpdateFailed, Throw, Idle, History, Requests, Budget, OkIsReceived, HeldByOne, AfterPost, WebhookTyped, WorkerState, WorkerPcs
    <2>5. AcceptedSettled'
      BY <1>0, <1>9 DEF UpdateFailed, Throw, Idle, History, Requests, Budget, AcceptedSettled, HeldByOne, AfterPost, WebhookTyped, WorkerState, WorkerPcs
    <2>6. RowCounts'
      BY <1>0, <1>9 DEF UpdateFailed, Throw, Idle, History, Requests, Budget, RowCounts, Undisturbed, Holding, AfterPost, EnabledBelowLimit, WebhookTyped, WorkerState, WorkerPcs
    <2> QED BY <2>1, <2>2, <2>3, <2>4, <2>5, <2>6 DEF WebhookInv
  <1>10. ASSUME NEW w \in Replicas, UpdateDelivered(w) PROVE WebhookInv'
    <2>1. WebhookTyped'
      <3>1. \E state \in WorkerState : worker' = [worker EXCEPT ![w] = state]
        BY <1>0, <1>10, IdleTyped DEF UpdateDelivered, Return, Throw, WebhookTyped, EnabledBelowLimit, WorkerState, WorkerPcs
      <3>2. worker' \in [Replicas -> WorkerState]
        BY <1>0, <3>1, WorkerMoves DEF WebhookTyped
      <3>3. job' \in [Jobs -> [state : {"none", "waiting", "active", "done", "failed"}, attempts : Nat]]
        BY <1>0, <1>10 DEF UpdateDelivered, Return, Throw, WebhookTyped
      <3> QED BY <1>0, <1>10, <3>2, <3>3 DEF UpdateDelivered, Return, Throw, History, Requests, Budget, WebhookTyped, EnabledBelowLimit, WorkerState
    <2>2. EnabledBelowLimit'
      BY <1>0, <1>10 DEF UpdateDelivered, Return, Throw, Idle, History, Requests, Budget, EnabledBelowLimit, WebhookTyped
    <2>3. HeldByOne'
      <3>1. /\ worker' = [worker EXCEPT ![w] = Idle]
            /\ \A j \in Jobs \ worker[w].job : job'[j] = job[j]
        BY <1>10 DEF UpdateDelivered, Return, Throw
      <3> QED BY <1>0, <3>1, HeldReleased DEF WebhookTyped
    <2>4. OkIsReceived'
      BY <1>0, <1>10 DEF UpdateDelivered, Return, Throw, Idle, History, Requests, Budget, OkIsReceived, HeldByOne, AfterPost, WebhookTyped, WorkerState, WorkerPcs
    <2>5. AcceptedSettled'
      BY <1>0, <1>10 DEF UpdateDelivered, Return, Throw, Idle, History, Requests, Budget, AcceptedSettled, HeldByOne, AfterPost, WebhookTyped, WorkerState, WorkerPcs
    <2>6. RowCounts'
      <3> SUFFICES ASSUME Undisturbed' PROVE RowCounts'
        BY DEF RowCounts
      <3>1. /\ Undisturbed /\ Holding(w) /\ AfterPost(w) /\ worker[w].ok
            /\ hook' = [hook EXCEPT !.fails = 0] /\ streak' = streak
            /\ worker' = [worker EXCEPT ![w] = Idle]
        BY <1>0, <1>10 DEF UpdateDelivered, Return, Undisturbed, Holding, AfterPost, History, Requests, Budget, WebhookTyped
      <3>2. /\ streak = 0 /\ ~hook.disabled /\ \A v \in Replicas \ {w} : ~Holding(v)
        BY <1>0, <3>1 DEF RowCounts
      <3>3. \A v \in Replicas : ~Holding(v)'
        BY <1>0, <3>1, <3>2, IdleTyped DEF Holding, WebhookTyped
      <3>4. hook'.fails = 0 /\ ~hook'.disabled
        BY <1>0, <3>1, <3>2 DEF WebhookTyped
      <3> QED BY <3>1, <3>2, <3>3, <3>4 DEF RowCounts
    <2> QED BY <2>1, <2>2, <2>3, <2>4, <2>5, <2>6 DEF WebhookInv
  <1>11. ASSUME NEW w \in Replicas, StatementFails(w) PROVE WebhookInv'
    <2>1. WebhookTyped'
      <3>1. \E state \in WorkerState : worker' = [worker EXCEPT ![w] = state]
        BY <1>0, <1>11, IdleTyped DEF StatementFails, Fault, Throw, WebhookTyped, EnabledBelowLimit, WorkerState, WorkerPcs
      <3>2. worker' \in [Replicas -> WorkerState]
        BY <1>0, <3>1, WorkerMoves DEF WebhookTyped
      <3>3. job' \in [Jobs -> [state : {"none", "waiting", "active", "done", "failed"}, attempts : Nat]]
        BY <1>0, <1>11 DEF StatementFails, Fault, Throw, WebhookTyped
      <3> QED BY <1>0, <1>11, <3>2, <3>3 DEF StatementFails, Fault, Throw, History, Requests, Budget, WebhookTyped, EnabledBelowLimit, WorkerState
    <2>2. EnabledBelowLimit'
      BY <1>0, <1>11 DEF StatementFails, Fault, Throw, Idle, History, Requests, Budget, EnabledBelowLimit, WebhookTyped
    <2>3. HeldByOne'
      BY <1>0, <1>11 DEF StatementFails, Fault, Throw, Idle, History, Requests, Budget, HeldByOne, WebhookTyped, WorkerState, WorkerPcs
    <2>4. OkIsReceived'
      BY <1>0, <1>11 DEF StatementFails, Fault, Throw, Idle, History, Requests, Budget, OkIsReceived, HeldByOne, AfterPost, WebhookTyped, WorkerState, WorkerPcs
    <2>5. AcceptedSettled'
      BY <1>0, <1>11 DEF StatementFails, Fault, Throw, Idle, History, Requests, Budget, AcceptedSettled, HeldByOne, AfterPost, WebhookTyped, WorkerState, WorkerPcs
    <2>6. RowCounts'
      BY <1>0, <1>11 DEF StatementFails, Fault, Throw, Idle, History, Requests, Budget, RowCounts, Undisturbed, Holding, AfterPost, EnabledBelowLimit, WebhookTyped, WorkerState, WorkerPcs
    <2> QED BY <2>1, <2>2, <2>3, <2>4, <2>5, <2>6 DEF WebhookInv
  <1>12. ASSUME NEW w \in Replicas, Crash(w) PROVE WebhookInv'
    <2>1. WebhookTyped'
      <3>1. \E state \in WorkerState : worker' = [worker EXCEPT ![w] = state]
        BY <1>0, <1>12, IdleTyped DEF Crash, WebhookTyped, EnabledBelowLimit, WorkerState, WorkerPcs
      <3>2. worker' \in [Replicas -> WorkerState]
        BY <1>0, <3>1, WorkerMoves DEF WebhookTyped
      <3>3. job' \in [Jobs -> [state : {"none", "waiting", "active", "done", "failed"}, attempts : Nat]]
        BY <1>0, <1>12 DEF Crash, WebhookTyped
      <3> QED BY <1>0, <1>12, <3>2, <3>3 DEF Crash, History, Requests, Budget, WebhookTyped, EnabledBelowLimit, WorkerState
    <2>2. EnabledBelowLimit'
      BY <1>0, <1>12 DEF Crash, Idle, History, Requests, Budget, EnabledBelowLimit, WebhookTyped
    <2>3. HeldByOne'
      BY <1>0, <1>12 DEF Crash, Idle, History, Requests, Budget, HeldByOne, WebhookTyped, WorkerState, WorkerPcs
    <2>4. OkIsReceived'
      BY <1>0, <1>12 DEF Crash, Idle, History, Requests, Budget, OkIsReceived, HeldByOne, AfterPost, WebhookTyped, WorkerState, WorkerPcs
    <2>5. AcceptedSettled'
      BY <1>0, <1>12 DEF Crash, Idle, History, Requests, Budget, AcceptedSettled, HeldByOne, AfterPost, WebhookTyped, WorkerState, WorkerPcs
    <2>6. RowCounts'
      BY <1>0, <1>12 DEF Crash, Idle, History, Requests, Budget, RowCounts, Undisturbed, Holding, AfterPost, EnabledBelowLimit, WebhookTyped, WorkerState, WorkerPcs
    <2> QED BY <2>1, <2>2, <2>3, <2>4, <2>5, <2>6 DEF WebhookInv
  <1>13. ASSUME UNCHANGED vars PROVE WebhookInv'
    <2>1. WebhookTyped'
      BY <1>0, <1>13 DEF vars, WebhookTyped, WorkerState, WorkerPcs
    <2>2. EnabledBelowLimit'
      BY <1>0, <1>13 DEF vars, EnabledBelowLimit, WebhookTyped
    <2>3. HeldByOne'
      BY <1>0, <1>13 DEF vars, HeldByOne, WebhookTyped, WorkerState, WorkerPcs
    <2>4. OkIsReceived'
      BY <1>0, <1>13 DEF vars, OkIsReceived, HeldByOne, AfterPost, WebhookTyped, WorkerState, WorkerPcs
    <2>5. AcceptedSettled'
      BY <1>0, <1>13 DEF vars, AcceptedSettled, HeldByOne, AfterPost, WebhookTyped, WorkerState, WorkerPcs
    <2>6. RowCounts'
      BY <1>0, <1>13 DEF vars, RowCounts, Undisturbed, Holding, AfterPost, EnabledBelowLimit, WebhookTyped, WorkerState, WorkerPcs
    <2> QED BY <2>1, <2>2, <2>3, <2>4, <2>5, <2>6 DEF WebhookInv
  <1>14. CASE WebhookNext
    BY <1>14, <1>1, <1>2, <1>3, <1>4, <1>5, <1>6, <1>7, <1>8, <1>9, <1>10, <1>11, <1>12
       DEF WebhookNext, Deliver
  <1> QED BY <1>13, <1>14

LEMMA WebhookInvariant == WebhookSpec => []WebhookInv
  BY WebhookInitial, WebhookStep, PTL DEF WebhookSpec

\* While Postgres answers and no replica dies, no event is accepted twice by the
\* endpoint, whatever the replicas, the retries and the removals
\* (webhook.processor.ts).
THEOREM AcceptedOnceCorrect == WebhookSpec => []AcceptedOnce
  <1>1. WebhookInv => AcceptedOnce
    BY DEF WebhookInv, AcceptedSettled, AcceptedOnce
  <1> QED BY <1>1, WebhookInvariant, PTL

\* As long as no two deliveries overlap, the row's count is that of the failures
\* since the last accepted request, and the webhook is disabled from the limit on.
THEOREM DisabledByStreakCorrect == WebhookSpec => []DisabledByStreak
  <1>1. WebhookInv => DisabledByStreak
    BY DEF WebhookInv, RowCounts, Undisturbed, DisabledByStreak
  <1> QED BY <1>1, WebhookInvariant, PTL

\* A delivery is finished only once accepted, or for a webhook that is gone or
\* disabled.
THEOREM PayloadAccountedCorrect == WebhookSpec => PayloadAccounted
  <1> DEFINE Accounted == \A j \in Jobs :
                job[j].state # "done" /\ job'[j].state = "done" =>
                    received[j] > 0 \/ ~hook.exists \/ hook.disabled
  <1>1. WebhookInv /\ [WebhookNext]_vars => [Accounted]_vars
    <2> SUFFICES ASSUME WebhookInv, WebhookNext, NEW j \in Jobs,
                        job[j].state # "done", job'[j].state = "done"
                 PROVE  received[j] > 0 \/ ~hook.exists \/ hook.disabled
      OBVIOUS
    <2>1. WebhookTyped /\ HeldByOne /\ OkIsReceived
      BY DEF WebhookInv
    <2>2. \/ \E w \in Replicas : Read(w) /\ ~(hook.exists /\ ~hook.disabled)
          \/ \E w \in Replicas : UpdateDelivered(w) /\ j \in worker[w].job
      <3>1. CASE \E w \in Replicas : UpdateDelivered(w)
        BY <2>1, <3>1 DEF UpdateDelivered, Return, Throw, WebhookTyped
      <3>2. CASE \E w \in Replicas : Read(w)
        BY <2>1, <3>2 DEF Read
      <3>3. ASSUME NEW w \in Replicas, Deliver(w), ~Read(w), ~UpdateDelivered(w) PROVE FALSE
        BY <2>1, <3>3 DEF Deliver, Record, Audit, UpdateFailed, StatementFails, Post, Throw, WebhookTyped
      <3>4. ASSUME NEW w \in Replicas, Crash(w) \/ \E i \in Jobs : Fetch(w, i) PROVE FALSE
        <4>1. CASE Crash(w)
          BY <2>1, <4>1 DEF Crash, WebhookTyped
        <4>2. CASE \E i \in Jobs : Fetch(w, i)
          BY <2>1, <4>2 DEF Fetch, WebhookTyped
        <4> QED BY <3>4, <4>1, <4>2
      <3>5. ASSUME (\E i \in Jobs : Dispatch(i)) \/ RemoveWebhook \/ RetryFailed PROVE FALSE
        BY <2>1, <3>5 DEF Dispatch, RemoveWebhook, RetryFailed, WebhookTyped
      <3> QED BY <3>1, <3>2, <3>3, <3>4, <3>5 DEF WebhookNext
    <2>3. ASSUME NEW w \in Replicas, UpdateDelivered(w), j \in worker[w].job
          PROVE  received[j] > 0
      BY <2>1, <2>3 DEF UpdateDelivered, OkIsReceived, AfterPost
    <2> QED BY <2>2, <2>3
  <1> QED BY <1>1, WebhookInvariant, PTL DEF WebhookSpec, PayloadAccounted

-----------------------------------------------------------------------------
(* TvlAlerts: once a day. What is not inductive is that two alerts of a day   *)
(* come from runs that raced: it rests on what the stamp of the first run     *)
(* keeps from every later one, and on nobody else stamping meanwhile.         *)

CheckerPcs == {"off", "snapshot", "find", "record", "stamp", "dispatch"}
CheckerState == [pc : CheckerPcs, run : Nat, tvl : Nat, todo : SUBSET AlertOwners,
                 now : SUBSET AlertOwners, at : Nat, seen : [AlertOwners -> Row]]

\* The thresholds a run has read as due and not done with.
InHand(w) == checker[w].todo \cup checker[w].now

RowSeen(w, o) == checker[w].seen[o].row

AlertsTyped ==
    /\ day \in 0..MaxDays
    /\ threshold \in [AlertOwners -> Row]
    /\ tvl \in Nat
    /\ snapshot \in [0..MaxDays -> SUBSET Nat]
    /\ checker \in [Checkers -> CheckerState]
    /\ history \subseteq Alert
    /\ sent \subseteq Alert
    /\ raced \subseteq Nat
    /\ checks \in Nat /\ edits \in Nat /\ mishaps \in Nat

\* The loop: a threshold is taken up once, and there is one after the first step.
LoopShape ==
    \A w \in Checkers :
        /\ checker[w].pc \in {"off", "snapshot", "find"} => InHand(w) = {}
        /\ checker[w].pc \in {"stamp", "dispatch"} => checker[w].now # {}
        /\ checker[w].todo \cap checker[w].now = {}
        /\ \A o, p \in checker[w].now : o = p
        /\ checker[w].now # {} => checker[w].at <= day

\* A row's id is one owner's, and was given out before.
RowsOwned ==
    /\ \A o \in AlertOwners : threshold[o].row <= edits
    /\ \A w \in Checkers, o \in AlertOwners : RowSeen(w, o) <= edits
    /\ \A e \in sent : 0 < e.row /\ e.row <= edits
    /\ \A o, p \in AlertOwners : threshold[o].row = threshold[p].row /\ Exists(o) => o = p
    /\ \A w \in Checkers, o, p \in AlertOwners :
          threshold[p].row = RowSeen(w, o) /\ Exists(p) => o = p
    /\ \A v, w \in Checkers, o, p \in AlertOwners :
          RowSeen(v, o) = RowSeen(w, p) /\ RowSeen(v, o) # 0 => o = p

\* A run has a number of its own.
RunsDistinct ==
    /\ \A w \in Checkers : checker[w].run <= checks
    /\ \A e \in sent : e.run <= checks
    /\ \A v, w \in Checkers :
          checker[v].pc # "off" /\ checker[w].pc # "off" /\ checker[v].run = checker[w].run => v = w
    /\ \A e \in sent, w \in Checkers :
          checker[w].pc \in {"snapshot", "find"} => e.run # checker[w].run

\* What a run holds is a threshold that its TVL breaches.
SeenBreached ==
    \A w \in Checkers : \A o \in InHand(w) :
        LET r == checker[w].seen[o]
        IN  /\ r.row # 0
            /\ r.direction = "below" => r.level > checker[w].tvl
            /\ r.direction = "above" => r.level < checker[w].tvl

\* Nothing goes out before it is recorded.
RecordedFirst ==
    /\ \A w \in Checkers : checker[w].pc \in {"stamp", "dispatch"} =>
          \A o \in checker[w].now : Entry(w, o) \in history
    /\ sent \subseteq history
    /\ \A e \in sent : IF e.direction = "below" THEN e.tvl < e.level ELSE e.tvl > e.level

\* Two runs that hold one row have raced for it.
HeldTogether ==
    \A v, w \in Checkers : v # w =>
        \A o \in InHand(v) \cap InHand(w) : RowSeen(v, o) = RowSeen(w, o) => RowSeen(v, o) \in raced

\* The stamp of an alert that is about to go out, or went out, is still there.
StampHeld ==
    \A w \in Checkers : checker[w].pc = "dispatch" =>
        \A o \in checker[w].now :
            SameRow(w, o) /\ RowSeen(w, o) \notin raced => threshold[o].last >= checker[w].at

StampSent ==
    \A e \in sent, o \in AlertOwners :
        threshold[o].row = e.row /\ e.row \notin raced => threshold[o].last >= e.day

\* Who holds the row of an alert that went out is a later run, on a later day.
LaterDay ==
    \A e \in sent, w \in Checkers : \A o \in InHand(w) :
        RowSeen(w, o) = e.row /\ e.row \notin raced =>
            /\ checker[w].run # e.run
            /\ e.day < IF o \in checker[w].now THEN checker[w].at ELSE day

OncePerDay == \A e, f \in sent : e.row = f.row /\ e.day = f.day /\ e.run # f.run => e.row \in raced

AlertsInv ==
    /\ AlertsTyped
    /\ LoopShape
    /\ RowsOwned
    /\ RunsDistinct
    /\ SeenBreached
    /\ RecordedFirst
    /\ HeldTogether
    /\ StampHeld
    /\ StampSent
    /\ LaterDay
    /\ OncePerDay

-----------------------------------------------------------------------------

LEMMA OffTyped ==
    /\ NoRow \in Row /\ Off \in CheckerState
    /\ Off.pc = "off" /\ Off.run = 0 /\ Off.todo = {} /\ Off.now = {}
    /\ \A o \in AlertOwners : Off.seen[o].row = 0
  BY DEF Off, NoRow, Row, Directions, Never, CheckerState, CheckerPcs

LEMMA CheckerMoves ==
    ASSUME NEW w \in Checkers, NEW c \in CheckerState, checker \in [Checkers -> CheckerState],
           checker' = [checker EXCEPT ![w] = c]
    PROVE  /\ checker' \in [Checkers -> CheckerState]
           /\ checker'[w] = c
           /\ \A v \in Checkers \ {w} : checker'[v] = checker[v]
  OBVIOUS

\* Every run goes on with what it holds, or lets go of it.
Onwards == \A v \in Checkers :
    /\ checker'[v].run \in {0, checker[v].run}
    /\ checker'[v].pc # "off" => checker[v].pc # "off" /\ checker'[v].run = checker[v].run
    /\ checker'[v].pc \in {"snapshot", "find"} => checker[v].pc \in {"snapshot", "find"}
    /\ \A o \in AlertOwners : RowSeen(v, o)' \in {0, RowSeen(v, o)}
    /\ InHand(v)' \subseteq InHand(v)
    /\ \A o \in InHand(v)' : /\ checker'[v].seen[o] = checker[v].seen[o]
                             /\ checker'[v].tvl = checker[v].tvl
                             /\ checker'[v].run = checker[v].run

\* What goes out is in the hands of a run at its last step.
SentByHolders == \A e \in sent' :
    \/ e \in sent
    \/ \E w \in Checkers : \E o \in checker[w].now :
          checker[w].pc = "dispatch" /\ e = Entry(w, o)

LEMMA InHandTyped ==
    ASSUME AlertsTyped, NEW w \in Checkers, NEW o \in InHand(w)
    PROVE  o \in AlertOwners /\ checker[w].seen[o] \in Row /\ RowSeen(w, o) \in Nat
  BY DEF AlertsTyped, CheckerState, InHand, RowSeen, Row

LEMMA RunsKept ==
    ASSUME RunsDistinct, AlertsTyped, Onwards, SentByHolders, checks' = checks
    PROVE  RunsDistinct'
  <1>1. \A w \in Checkers : checker'[w].run <= checks'
    BY DEF RunsDistinct, Onwards, AlertsTyped
  <1>2. \A e \in sent' : e.run <= checks'
    BY DEF RunsDistinct, SentByHolders, Entry
  <1>3. \A v, w \in Checkers :
          checker'[v].pc # "off" /\ checker'[w].pc # "off" /\ checker'[v].run = checker'[w].run => v = w
    BY DEF RunsDistinct, Onwards
  <1>4. ASSUME NEW e \in sent', NEW w \in Checkers, checker'[w].pc \in {"snapshot", "find"}
        PROVE  e.run # checker'[w].run
    <2>1. checker[w].pc \in {"snapshot", "find"} /\ checker'[w].run = checker[w].run
      BY <1>4 DEF Onwards
    <2>2. CASE e \in sent
      BY <2>1, <2>2 DEF RunsDistinct
    <2>3. ASSUME NEW v \in Checkers, NEW o \in checker[v].now, checker[v].pc = "dispatch", e = Entry(v, o)
          PROVE  e.run # checker'[w].run
      BY <2>1, <2>3 DEF RunsDistinct, Entry
    <2> QED BY <2>2, <2>3 DEF SentByHolders
  <1> QED BY <1>1, <1>2, <1>3, <1>4 DEF RunsDistinct

LEMMA BreachKept == ASSUME SeenBreached, Onwards PROVE SeenBreached'
  BY DEF SeenBreached, Onwards

LEMMA TogetherKept ==
    ASSUME HeldTogether, Onwards, raced \subseteq raced'
    PROVE  HeldTogether'
  <1> SUFFICES ASSUME NEW v \in Checkers, NEW w \in Checkers, v # w,
                      NEW o \in InHand(v)' \cap InHand(w)', RowSeen(v, o)' = RowSeen(w, o)'
               PROVE  RowSeen(v, o)' \in raced'
    BY DEF HeldTogether
  <1>1. o \in InHand(v) \cap InHand(w) /\ RowSeen(v, o)' = RowSeen(v, o) /\ RowSeen(w, o)' = RowSeen(w, o)
    BY DEF Onwards, RowSeen
  <1> QED BY <1>1 DEF HeldTogether

\* The rows: some thresholds are gone.
LEMMA RowsKept ==
    ASSUME RowsOwned, AlertsTyped, SeenBreached, Onwards, SentByHolders,
           edits' \in Nat, edits' >= edits,
           \A o \in AlertOwners : threshold'[o].row \in {0, threshold[o].row}
    PROVE  RowsOwned'
  <1>1. \A o \in AlertOwners : threshold[o].row \in Nat /\ \A w \in Checkers : RowSeen(w, o) \in Nat
    BY DEF AlertsTyped, CheckerState, Row, RowSeen
  <1>0. edits \in Nat /\ \A e \in sent : e.row \in Nat
    BY DEF AlertsTyped, Alert
  <1>2. /\ \A o \in AlertOwners : threshold'[o].row <= edits'
        /\ \A w \in Checkers, o \in AlertOwners : RowSeen(w, o)' <= edits'
    BY <1>0, <1>1 DEF RowsOwned, Onwards
  <1>3. ASSUME NEW e \in sent' PROVE 0 < e.row /\ e.row <= edits'
    <2>1. CASE e \in sent
      BY <1>0, <2>1 DEF RowsOwned
    <2>2. ASSUME NEW w \in Checkers, NEW o \in checker[w].now, e = Entry(w, o)
          PROVE  0 < e.row /\ e.row <= edits'
      <3>1. o \in InHand(w) /\ e.row = RowSeen(w, o)
        BY <2>2 DEF InHand, Entry, RowSeen
      <3>2. o \in AlertOwners /\ RowSeen(w, o) # 0
        BY <3>1, InHandTyped DEF SeenBreached, RowSeen
      <3> QED BY <1>0, <1>1, <3>1, <3>2 DEF RowsOwned
    <2> QED BY <2>1, <2>2 DEF SentByHolders
  <1>4. \A o, p \in AlertOwners : threshold'[o].row = threshold'[p].row /\ Exists(o)' => o = p
    BY DEF RowsOwned, Exists
  <1>5. \A w \in Checkers, o, p \in AlertOwners : threshold'[p].row = RowSeen(w, o)' /\ Exists(p)' => o = p
    BY DEF RowsOwned, Exists, Onwards
  <1>6. \A v, w \in Checkers, o, p \in AlertOwners : RowSeen(v, o)' = RowSeen(w, p)' /\ RowSeen(v, o)' # 0 => o = p
    BY DEF RowsOwned, Onwards
  <1> QED BY <1>2, <1>3, <1>4, <1>5, <1>6 DEF RowsOwned

\* No run comes to its last step, and rows that stay keep their stamps.
LEMMA StampsKept ==
    ASSUME AlertsTyped, RowsOwned, SeenBreached, StampHeld, StampSent, raced \subseteq raced', sent' = sent,
           \A v \in Checkers : checker'[v].pc = "dispatch" =>
               checker[v].pc = "dispatch" /\ checker'[v] = checker[v],
           \A o \in AlertOwners :
               threshold'[o].row # 0 /\ threshold'[o].row <= edits =>
                   threshold'[o].row = threshold[o].row /\ threshold'[o].last = threshold[o].last
    PROVE  StampHeld' /\ StampSent'
  <1>1. ASSUME NEW v \in Checkers, NEW o \in checker'[v].now, checker'[v].pc = "dispatch",
               SameRow(v, o)', RowSeen(v, o)' \notin raced'
        PROVE  threshold'[o].last >= checker'[v].at
    <2>1. checker[v].pc = "dispatch" /\ checker'[v] = checker[v]
      BY <1>1
    <2>2. o \in checker[v].now /\ o \in InHand(v) /\ RowSeen(v, o)' = RowSeen(v, o)
      BY <1>1, <2>1 DEF InHand, RowSeen
    <2>3. o \in AlertOwners /\ RowSeen(v, o) # 0 /\ RowSeen(v, o) <= edits
      BY <2>2, InHandTyped DEF SeenBreached, RowSeen, RowsOwned
    <2>4. threshold'[o].row = RowSeen(v, o)
      BY <1>1, <2>2 DEF SameRow, RowSeen
    <2>5. SameRow(v, o) /\ threshold'[o].last = threshold[o].last
      BY <2>3, <2>4 DEF SameRow, RowSeen
    <2> QED BY <1>1, <2>1, <2>2, <2>5 DEF StampHeld
  <1>2. ASSUME NEW e \in sent, NEW o \in AlertOwners, threshold'[o].row = e.row, e.row \notin raced'
        PROVE  threshold'[o].last >= e.day
    <2>1. e.row # 0 /\ e.row <= edits
      BY DEF RowsOwned, AlertsTyped, Alert
    <2> QED BY <1>2, <2>1 DEF StampSent
  <1> QED BY <1>1, <1>2 DEF StampHeld, StampSent

LEMMA LaterKept ==
    ASSUME LaterDay, AlertsTyped, Onwards, sent' = sent, raced \subseteq raced', day' = day,
           \A v \in Checkers : \A o \in InHand(v)' :
               IF o \in checker'[v].now
               THEN checker'[v].at = IF o \in checker[v].now THEN checker[v].at ELSE day
               ELSE o \notin checker[v].now
    PROVE  LaterDay'
  <1> SUFFICES ASSUME NEW e \in sent, NEW w \in Checkers, NEW o \in InHand(w)',
                      RowSeen(w, o)' = e.row, e.row \notin raced'
               PROVE  /\ checker'[w].run # e.run
                      /\ e.day < IF o \in checker'[w].now THEN checker'[w].at ELSE day'
    BY DEF LaterDay
  <1>1. o \in InHand(w) /\ RowSeen(w, o) = e.row /\ checker'[w].run = checker[w].run
    BY DEF Onwards, RowSeen
  <1>2. checker[w].run # e.run /\ e.day < IF o \in checker[w].now THEN checker[w].at ELSE day
    BY <1>1 DEF LaterDay
  <1> QED BY <1>1, <1>2

LEMMA RecordKept ==
    ASSUME RecordedFirst, history \subseteq history', sent' = sent,
           \A v \in Checkers : checker'[v].pc \in {"stamp", "dispatch"} =>
               \A o \in checker'[v].now : \/ Entry(v, o)' \in history'
                                          \/ /\ checker[v].pc \in {"stamp", "dispatch"}
                                             /\ o \in checker[v].now /\ Entry(v, o)' = Entry(v, o)
    PROVE  RecordedFirst'
  BY DEF RecordedFirst

LEMMA LoopUnmoved ==
    ASSUME LoopShape, AlertsTyped, checker' = checker, day' \in Nat, day' >= day PROVE LoopShape'
  <1>1. \A w \in Checkers : checker[w].at \in Nat
    BY DEF AlertsTyped, CheckerState
  <1>2. day \in Nat
    BY AlertAssumption DEF AlertsTyped
  <1> QED BY <1>1, <1>2 DEF LoopShape, InHand

LEMMA Unmoved == ASSUME AlertsTyped, checker' = checker PROVE Onwards
  BY DEF Onwards, InHand, RowSeen

LEMMA AlertsInitial == AlertsInit => AlertsInv
  <1> SUFFICES ASSUME AlertsInit PROVE AlertsInv
    OBVIOUS
  <1>1. AlertsTyped
    BY OffTyped, AlertAssumption DEF AlertsInit, AlertsTyped
  <1>2. \A o \in AlertOwners : threshold[o].row = 0 /\ \A w \in Checkers : RowSeen(w, o) = 0
    BY OffTyped DEF AlertsInit, RowSeen, NoRow
  <1>3. /\ \A w \in Checkers : checker[w] = Off
        /\ sent = {} /\ edits = 0 /\ checks = 0 /\ history = {}
    BY DEF AlertsInit
  <1>4. \A w \in Checkers : InHand(w) = {} /\ checker[w].pc = "off" /\ checker[w].run = 0 /\ checker[w].now = {}
                            /\ checker[w].todo = {}
    BY OffTyped, <1>3 DEF InHand
  <1>5. LoopShape
    BY <1>4 DEF LoopShape
  <1>6. RunsDistinct /\ SeenBreached
    BY <1>3, <1>4 DEF RunsDistinct, SeenBreached
  <1>7. RowsOwned
    <2>1. \A o \in AlertOwners : ~Exists(o)
      BY <1>2 DEF Exists
    <2> QED BY <1>2, <1>3, <2>1 DEF RowsOwned
  <1>8. RecordedFirst /\ HeldTogether /\ StampHeld /\ StampSent /\ LaterDay /\ OncePerDay
    BY <1>3, <1>4 DEF RecordedFirst, HeldTogether, StampHeld, StampSent, LaterDay, OncePerDay
  <1> QED BY <1>1, <1>5, <1>6, <1>7, <1>8 DEF AlertsInv

-----------------------------------------------------------------------------
(* The owners, and the days *)

LEMMA OwnersStep ==
    ASSUME AlertsInv, NEW o \in AlertOwners,
           \/ \E level \in TvlValues, direction \in Directions : SetThreshold(o, level, direction)
           \/ DisableThreshold(o)
           \/ DeleteThreshold(o)
    PROVE  AlertsInv'
  <1>0. /\ AlertsTyped /\ LoopShape /\ RowsOwned /\ RunsDistinct /\ SeenBreached /\ RecordedFirst
        /\ HeldTogether /\ StampHeld /\ StampSent /\ LaterDay /\ OncePerDay
    BY DEF AlertsInv
  <1>1. /\ day' = day /\ tvl' = tvl /\ snapshot' = snapshot /\ checker' = checker /\ history' = history
        /\ sent' = sent /\ raced' = raced /\ checks' = checks /\ mishaps' = mishaps /\ edits' = edits + 1
    BY DEF SetThreshold, DisableThreshold, DeleteThreshold, Edit, NotEdited
  <1>2. threshold \in [AlertOwners -> Row] /\ edits \in Nat /\ day \in Nat
    BY <1>0, AlertAssumption DEF AlertsTyped
  <1>3. /\ threshold' \in [AlertOwners -> Row]
        /\ \A p \in AlertOwners \ {o} : threshold'[p] = threshold[p]
        /\ \/ threshold'[o].row = threshold[o].row /\ threshold'[o].last = threshold[o].last
           \/ threshold'[o].row = 0
           \/ threshold[o].row = 0 /\ threshold'[o].row = edits + 1
    <2>1. CASE DisableThreshold(o)
      <3> DEFINE r == [threshold[o] EXCEPT !.enabled = FALSE]
      <3>1. threshold[o] \in Row
        BY <1>2
      <3>2. r \in Row /\ r.row = threshold[o].row /\ r.last = threshold[o].last
        BY <3>1 DEF Row
      <3>3. threshold' = [threshold EXCEPT ![o] = r]
        BY <2>1 DEF DisableThreshold
      <3> HIDE DEF r
      <3> QED BY <1>2, <3>2, <3>3
    <2>2. CASE DeleteThreshold(o)
      BY <1>2, <2>2, OffTyped DEF DeleteThreshold, NoRow
    <2>3. ASSUME NEW level \in TvlValues, NEW direction \in Directions, SetThreshold(o, level, direction)
          PROVE  /\ threshold' \in [AlertOwners -> Row]
                 /\ \A p \in AlertOwners \ {o} : threshold'[p] = threshold[p]
                 /\ \/ threshold'[o].row = threshold[o].row /\ threshold'[o].last = threshold[o].last
                    \/ threshold[o].row = 0 /\ threshold'[o].row = edits + 1
      <3>1. CASE Exists(o)
        <4>1. threshold' = [threshold EXCEPT ![o] = [row |-> threshold[o].row, level |-> level,
                 direction |-> direction, enabled |-> TRUE, last |-> threshold[o].last]]
          BY <2>3, <3>1 DEF SetThreshold
        <4> QED BY <1>2, <4>1, AlertAssumption DEF Row
      <3>2. CASE ~Exists(o)
        <4>1. threshold' = [threshold EXCEPT ![o] = [row |-> edits + 1, level |-> level,
                 direction |-> direction, enabled |-> TRUE, last |-> Never]]
          BY <2>3, <3>2 DEF SetThreshold
        <4> QED BY <1>2, <3>2, <4>1, AlertAssumption DEF Row, Never, Exists
      <3> QED BY <3>1, <3>2
    <2> QED BY <2>1, <2>2, <2>3
  <1>4. AlertsTyped'
    BY <1>0, <1>1, <1>2, <1>3 DEF AlertsTyped
  <1>5. Onwards /\ SentByHolders /\ LoopShape'
    BY <1>0, <1>1, <1>2, Unmoved, LoopUnmoved DEF SentByHolders
  <1>6. RowsOwned'
    <2>1. CASE threshold'[o].row \in {0, threshold[o].row}
      BY <1>0, <1>1, <1>2, <1>3, <1>5, <2>1, RowsKept
    <2>2. CASE threshold'[o].row = edits + 1
      <3>1. /\ \A p \in AlertOwners : threshold[p].row \in Nat /\ threshold[p].row <= edits
            /\ \A w \in Checkers, p \in AlertOwners : RowSeen(w, p) \in Nat /\ RowSeen(w, p) <= edits
            /\ \A e \in sent : e.row \in Nat
        BY <1>0, <1>2 DEF RowsOwned, AlertsTyped, CheckerState, Row, RowSeen, Alert
      <3>2. \A w \in Checkers, p \in AlertOwners : RowSeen(w, p)' = RowSeen(w, p)
        BY <1>1 DEF RowSeen
      <3>3. \A p \in AlertOwners \ {o} : threshold'[p].row = threshold[p].row
        BY <1>3
      <3>4. /\ \A p \in AlertOwners : threshold'[p].row <= edits'
            /\ \A w \in Checkers, p \in AlertOwners : RowSeen(w, p)' <= edits'
            /\ \A e \in sent' : 0 < e.row /\ e.row <= edits'
        BY <1>0, <1>1, <1>2, <2>2, <3>1, <3>2, <3>3 DEF RowsOwned
      <3>5. \A p, q \in AlertOwners : threshold'[p].row = threshold'[q].row /\ Exists(p)' => p = q
        BY <1>0, <1>2, <2>2, <3>1, <3>3 DEF RowsOwned, Exists
      <3>6. \A w \in Checkers, p, q \in AlertOwners : threshold'[q].row = RowSeen(w, p)' /\ Exists(q)' => p = q
        BY <1>0, <1>2, <2>2, <3>1, <3>2, <3>3 DEF RowsOwned, Exists
      <3>7. \A v, w \in Checkers, p, q \in AlertOwners :
               RowSeen(v, p)' = RowSeen(w, q)' /\ RowSeen(v, p)' # 0 => p = q
        BY <1>0, <3>2 DEF RowsOwned
      <3> QED BY <3>4, <3>5, <3>6, <3>7 DEF RowsOwned
    <2> QED BY <1>3, <2>1, <2>2
  <1>7. RunsDistinct' /\ SeenBreached' /\ HeldTogether'
    BY <1>0, <1>1, <1>5, RunsKept, BreachKept, TogetherKept
  <1>8. RecordedFirst'
    BY <1>0, <1>1 DEF RecordedFirst, Entry
  <1>9. StampHeld' /\ StampSent'
    BY <1>0, <1>1, <1>2, <1>3, StampsKept
  <1>10. LaterDay' /\ OncePerDay'
    BY <1>0, <1>1 DEF LaterDay, OncePerDay, InHand, RowSeen
  <1> QED BY <1>4, <1>5, <1>6, <1>7, <1>8, <1>9, <1>10 DEF AlertsInv

LEMMA DayStep == AlertsInv /\ NextDay => AlertsInv'
  <1> SUFFICES ASSUME AlertsInv, NextDay PROVE AlertsInv'
    OBVIOUS
  <1>0. /\ AlertsTyped /\ LoopShape /\ RowsOwned /\ RunsDistinct /\ SeenBreached /\ RecordedFirst
        /\ HeldTogether /\ StampHeld /\ StampSent /\ LaterDay /\ OncePerDay
    BY DEF AlertsInv
  <1>1. /\ day' = day + 1 /\ threshold' = threshold /\ tvl' = tvl /\ snapshot' = snapshot /\ checker' = checker
        /\ history' = history /\ sent' = sent /\ raced' = raced /\ checks' = checks /\ edits' = edits
        /\ mishaps' = mishaps
    BY DEF NextDay
  <1>2. day \in Nat /\ AlertsTyped'
    BY <1>0, <1>1, AlertAssumption DEF NextDay, AlertsTyped
  <1>3. LoopShape'
    BY <1>0, <1>1, <1>2, LoopUnmoved
  <1>4. RowsOwned' /\ RunsDistinct' /\ SeenBreached' /\ HeldTogether'
    BY <1>0, <1>1 DEF RowsOwned, RunsDistinct, SeenBreached, HeldTogether, InHand, RowSeen, Exists
  <1>5. RecordedFirst' /\ StampHeld' /\ StampSent' /\ OncePerDay'
    BY <1>0, <1>1 DEF RecordedFirst, StampHeld, StampSent, OncePerDay, Entry, RowSeen, SameRow
  <1>6. LaterDay'
    <2> SUFFICES ASSUME NEW e \in sent, NEW w \in Checkers, NEW o \in InHand(w),
                        RowSeen(w, o) = e.row, e.row \notin raced
                 PROVE  /\ checker[w].run # e.run
                        /\ e.day < IF o \in checker[w].now THEN checker[w].at ELSE day + 1
      BY <1>1 DEF LaterDay, InHand, RowSeen
    <2>1. checker[w].run # e.run /\ e.day < IF o \in checker[w].now THEN checker[w].at ELSE day
      BY <1>0 DEF LaterDay
    <2>2. e.day \in Nat
      BY <1>0 DEF AlertsTyped, Alert
    <2> QED BY <1>2, <2>1, <2>2
  <1> QED BY <1>2, <1>3, <1>4, <1>5, <1>6 DEF AlertsInv

-----------------------------------------------------------------------------
(* The job *)

LEMMA ComputeStep ==
    ASSUME AlertsInv, NEW w \in Checkers, NEW x \in TvlValues, ComputeTvl(w, x) PROVE AlertsInv'
  <1>0. /\ AlertsTyped /\ LoopShape /\ RowsOwned /\ RunsDistinct /\ SeenBreached /\ RecordedFirst
        /\ HeldTogether /\ StampHeld /\ StampSent /\ LaterDay /\ OncePerDay
    BY DEF AlertsInv
  <1>1. /\ day' = day /\ threshold' = threshold /\ snapshot' = snapshot /\ history' = history /\ sent' = sent
        /\ raced' = raced /\ edits' = edits /\ mishaps' = mishaps /\ checks' = checks + 1 /\ tvl' = x
        /\ checker[w].pc = "off"
    BY DEF ComputeTvl
  <1> DEFINE c == [Off EXCEPT !.pc = "snapshot", !.run = checks + 1, !.tvl = x]
  <1>2. checks \in Nat /\ x \in Nat
    BY <1>0, AlertAssumption DEF AlertsTyped
  <1>3. /\ c \in CheckerState
        /\ c.pc = "snapshot" /\ c.run = checks + 1 /\ c.todo = {} /\ c.now = {} /\ c.seen = Off.seen
    <2> DEFINE c1 == [Off EXCEPT !.pc = "snapshot"]
               c2 == [c1 EXCEPT !.run = checks + 1]
               c3 == [c2 EXCEPT !.tvl = x]
    <2>1. c1 \in CheckerState /\ c1.pc = "snapshot" /\ c1.todo = {} /\ c1.now = {} /\ c1.seen = Off.seen
      BY OffTyped DEF CheckerState, CheckerPcs
    <2> HIDE DEF c1
    <2>2. /\ c2 \in CheckerState /\ c2.run = checks + 1
          /\ c2.pc = "snapshot" /\ c2.todo = {} /\ c2.now = {} /\ c2.seen = Off.seen
      BY <1>2, <2>1 DEF CheckerState, CheckerPcs
    <2> HIDE DEF c2
    <2>3. /\ c3 \in CheckerState /\ c3.run = checks + 1
          /\ c3.pc = "snapshot" /\ c3.todo = {} /\ c3.now = {} /\ c3.seen = Off.seen
      BY <1>2, <2>2 DEF CheckerState, CheckerPcs
    <2>4. c = c3
      BY Zenon DEF c1, c2
    <2> QED BY <2>3, <2>4
  <1>4. /\ checker' \in [Checkers -> CheckerState]
        /\ checker'[w] = c
        /\ \A v \in Checkers \ {w} : checker'[v] = checker[v]
    <2>1. checker' = [checker EXCEPT ![w] = c]
      BY DEF ComputeTvl
    <2> HIDE DEF c
    <2> QED BY <1>0, <1>3, <2>1, CheckerMoves DEF AlertsTyped
  <1> HIDE DEF c
  <1>5. /\ checker'[w].pc = "snapshot" /\ checker'[w].run = checks + 1 /\ InHand(w)' = {}
        /\ checker'[w].now = {} /\ checker'[w].todo = {}
        /\ \A o \in AlertOwners : RowSeen(w, o)' = 0
    BY <1>3, <1>4, OffTyped DEF InHand, RowSeen
  <1>6. \A v \in Checkers \ {w} : InHand(v)' = InHand(v) /\ \A o \in AlertOwners : RowSeen(v, o)' = RowSeen(v, o)
    BY <1>4 DEF InHand, RowSeen
  <1>7. AlertsTyped'
    BY <1>0, <1>1, <1>2, <1>4 DEF AlertsTyped
  <1>8. LoopShape'
    BY <1>0, <1>1, <1>4, <1>5, <1>6 DEF LoopShape
  <1>9. RowsOwned'
    <2>1. \A o \in AlertOwners : threshold[o].row \in Nat
      BY <1>0 DEF AlertsTyped, Row
    <2>2. edits \in Nat
      BY <1>0 DEF AlertsTyped
    <2>3. \A v \in Checkers, o \in AlertOwners : RowSeen(v, o)' \in {0, RowSeen(v, o)}
      BY <1>5, <1>6
    <2> QED BY <1>0, <1>1, <2>1, <2>2, <2>3 DEF RowsOwned, Exists
  <1>10. RunsDistinct'
    <2>1. \A v \in Checkers : checker[v].run \in Nat
      BY <1>0 DEF AlertsTyped, CheckerState
    <2>2. \A e \in sent : e.run \in Nat
      BY <1>0 DEF AlertsTyped, Alert
    <2>3. \A v \in Checkers : checker'[v].run <= checks'
      BY <1>0, <1>1, <1>2, <1>4, <1>5, <2>1 DEF RunsDistinct
    <2>4. \A e \in sent' : e.run <= checks'
      BY <1>0, <1>1, <1>2, <2>2 DEF RunsDistinct
    <2>5. \A v \in Checkers \ {w} : checker'[v].run # checker'[w].run
      BY <1>0, <1>2, <1>4, <1>5, <2>1 DEF RunsDistinct
    <2>6. \A u, v \in Checkers :
             checker'[u].pc # "off" /\ checker'[v].pc # "off" /\ checker'[u].run = checker'[v].run => u = v
      BY <1>0, <1>4, <2>5 DEF RunsDistinct
    <2>7. \A e \in sent' : e.run # checker'[w].run
      BY <1>0, <1>1, <1>2, <1>5, <2>2 DEF RunsDistinct
    <2>8. \A e \in sent', v \in Checkers : checker'[v].pc \in {"snapshot", "find"} => e.run # checker'[v].run
      BY <1>0, <1>1, <1>4, <2>7 DEF RunsDistinct
    <2> QED BY <2>3, <2>4, <2>6, <2>8 DEF RunsDistinct
  <1>11. SeenBreached'
    BY <1>0, <1>4, <1>5, <1>6 DEF SeenBreached
  <1>12. HeldTogether'
    <2> SUFFICES ASSUME NEW u \in Checkers, NEW v \in Checkers, u # v, NEW o \in InHand(u)' \cap InHand(v)',
                        RowSeen(u, o)' = RowSeen(v, o)'
                 PROVE  RowSeen(u, o)' \in raced'
      BY DEF HeldTogether
    <2>1. u # w /\ v # w
      BY <1>5
    <2>2. RowSeen(u, o)' = RowSeen(u, o) /\ RowSeen(v, o)' = RowSeen(v, o)
      BY <1>4, <2>1 DEF RowSeen
    <2> QED BY <1>0, <1>1, <1>6, <2>1, <2>2 DEF HeldTogether
  <1>13. RecordedFirst'
    <2>1. \A v \in Checkers : checker'[v].pc \in {"stamp", "dispatch"} => checker'[v] = checker[v]
      BY <1>4, <1>5
    <2> QED BY <1>0, <1>1, <2>1, RecordKept DEF Entry
  <1>14. StampHeld' /\ StampSent'
    <2>1. \A v \in Checkers : checker'[v].pc = "dispatch" => checker[v].pc = "dispatch" /\ checker'[v] = checker[v]
      BY <1>4, <1>5
    <2> QED BY <1>0, <1>1, <2>1, StampsKept
  <1>15. LaterDay'
    <2> SUFFICES ASSUME NEW e \in sent, NEW v \in Checkers, NEW o \in InHand(v)',
                        RowSeen(v, o)' = e.row, e.row \notin raced
                 PROVE  /\ checker'[v].run # e.run
                        /\ e.day < IF o \in checker'[v].now THEN checker'[v].at ELSE day
      BY <1>1 DEF LaterDay
    <2>1. checker'[v] = checker[v] /\ o \in InHand(v) /\ RowSeen(v, o)' = RowSeen(v, o)
      BY <1>4, <1>5, <1>6 DEF RowSeen
    <2> QED BY <1>0, <2>1 DEF LaterDay
  <1>16. OncePerDay'
    BY <1>0, <1>1 DEF OncePerDay
  <1> QED BY <1>7, <1>8, <1>9, <1>10, <1>11, <1>12, <1>13, <1>14, <1>15, <1>16 DEF AlertsInv

LEMMA SnapshotStep ==
    ASSUME AlertsInv, NEW w \in Checkers, Snapshot(w) PROVE AlertsInv'
  <1>0. /\ AlertsTyped /\ LoopShape /\ RowsOwned /\ RunsDistinct /\ SeenBreached /\ RecordedFirst
        /\ HeldTogether /\ StampHeld /\ StampSent /\ LaterDay /\ OncePerDay
    BY DEF AlertsInv
  <1>1. /\ day' = day /\ threshold' = threshold /\ history' = history /\ sent' = sent /\ tvl' = tvl
        /\ raced' = raced /\ edits' = edits /\ checks' = checks /\ mishaps' \in {mishaps, mishaps + 1}
        /\ checker[w].pc = "snapshot" /\ checker' = [checker EXCEPT ![w].pc = "find"]
    BY DEF Snapshot
  <1>2. checker[w] \in CheckerState /\ checker \in [Checkers -> CheckerState]
    BY <1>0 DEF AlertsTyped
  <1>3. [checker[w] EXCEPT !.pc = "find"] \in CheckerState
    BY <1>2 DEF CheckerState, CheckerPcs
  <1>4. /\ checker' \in [Checkers -> CheckerState]
        /\ checker'[w] = [checker[w] EXCEPT !.pc = "find"]
        /\ \A v \in Checkers \ {w} : checker'[v] = checker[v]
    BY <1>1, <1>2, <1>3
  <1>5. /\ checker'[w].pc = "find" /\ checker'[w].run = checker[w].run /\ checker'[w].tvl = checker[w].tvl
        /\ checker'[w].todo = checker[w].todo /\ checker'[w].now = checker[w].now
        /\ checker'[w].at = checker[w].at /\ checker'[w].seen = checker[w].seen
    BY <1>2, <1>4 DEF CheckerState
  <1>6. Onwards /\ SentByHolders
    BY <1>1, <1>4, <1>5 DEF Onwards, SentByHolders, InHand, RowSeen
  <1>7. AlertsTyped'
    <2>1. snapshot' \in [0..MaxDays -> SUBSET Nat]
      <3>1. {checker[w].tvl} \subseteq Nat
        BY <1>2 DEF CheckerState
      <3> QED BY <1>0, <3>1 DEF Snapshot, AlertsTyped
    <2> QED BY <1>0, <1>1, <1>4, <2>1 DEF AlertsTyped
  <1>8. LoopShape'
    BY <1>0, <1>1, <1>4, <1>5 DEF LoopShape, InHand
  <1>9. RowsOwned' /\ RunsDistinct' /\ SeenBreached' /\ HeldTogether'
    <2>1. edits \in Nat /\ edits' \in Nat /\ edits' >= edits
      BY <1>0, <1>1 DEF AlertsTyped
    <2> QED BY <1>0, <1>1, <1>6, <2>1, RowsKept, RunsKept, BreachKept, TogetherKept
  <1>10. \A v \in Checkers : checker'[v].pc \in {"stamp", "dispatch"} => checker'[v] = checker[v]
    BY <1>4, <1>5
  <1>11. RecordedFirst'
    BY <1>0, <1>1, <1>10, RecordKept DEF Entry
  <1>12. StampHeld' /\ StampSent'
    BY <1>0, <1>1, <1>10, StampsKept
  <1>13. InHand(w) = {} /\ InHand(w)' = {}
    BY <1>0, <1>1, <1>5 DEF LoopShape, InHand
  <1>14. LaterDay'
    BY <1>0, <1>1, <1>4, <1>6, <1>13, LaterKept DEF InHand
  <1>15. OncePerDay'
    BY <1>0, <1>1 DEF OncePerDay
  <1> QED BY <1>7, <1>8, <1>9, <1>11, <1>12, <1>14, <1>15 DEF AlertsInv

LEMMA FindStep ==
    ASSUME AlertsInv, NEW w \in Checkers, FindDue(w) PROVE AlertsInv'
  <1>0. /\ AlertsTyped /\ LoopShape /\ RowsOwned /\ RunsDistinct /\ SeenBreached /\ RecordedFirst
        /\ HeldTogether /\ StampHeld /\ StampSent /\ LaterDay /\ OncePerDay
    BY DEF AlertsInv
  <1> DEFINE due == {o \in AlertOwners : Due(threshold[o], checker[w].tvl)}
             c == [checker[w] EXCEPT !.pc = "record", !.todo = due, !.seen = threshold]
  <1>1. /\ day' = day /\ threshold' = threshold /\ snapshot' = snapshot /\ history' = history /\ sent' = sent
        /\ tvl' = tvl /\ edits' = edits /\ checks' = checks /\ mishaps' = mishaps
        /\ checker[w].pc = "find"
        /\ raced' = raced \cup {threshold[o].row : o \in
              {p \in due : \E v \in Checkers \ {w} : p \in InHand(v)}}
    BY DEF FindDue, InHand
  <1>2. checker[w] \in CheckerState /\ checker \in [Checkers -> CheckerState] /\ threshold \in [AlertOwners -> Row]
    BY <1>0 DEF AlertsTyped
  <1>3. /\ c \in CheckerState
        /\ c.pc = "record" /\ c.run = checker[w].run /\ c.tvl = checker[w].tvl /\ c.at = checker[w].at
        /\ c.todo = due /\ c.now = checker[w].now /\ c.seen = threshold
    BY <1>2 DEF CheckerState, CheckerPcs
  <1>4. /\ checker' \in [Checkers -> CheckerState]
        /\ \A v \in Checkers \ {w} : checker'[v] = checker[v]
        /\ \/ checker'[w] = Off
           \/ checker'[w] = c
    <2>1. CASE due = {}
      <3>1. checker' = [checker EXCEPT ![w] = Off]
        BY <2>1 DEF FindDue
      <3> QED BY <1>2, <3>1, OffTyped, CheckerMoves
    <2>2. CASE due # {}
      <3>1. checker' = [checker EXCEPT ![w] = c]
        BY <2>2 DEF FindDue
      <3> HIDE DEF c
      <3> QED BY <1>2, <1>3, <3>1, CheckerMoves
    <2> QED BY <2>1, <2>2
  <1>5. ASSUME NEW o \in due
        PROVE  /\ o \in AlertOwners /\ threshold[o].row # 0
               /\ threshold[o].direction = "below" => threshold[o].level > checker[w].tvl
               /\ threshold[o].direction = "above" => threshold[o].level < checker[w].tvl
               /\ threshold[o].last = Never \/ threshold[o].last < day
    BY DEF Due
  <1>6. AlertsTyped'
    <2>1. raced' \subseteq Nat
      BY <1>0, <1>1, <1>2 DEF AlertsTyped, Row
    <2> QED BY <1>0, <1>1, <1>4, <2>1 DEF AlertsTyped
  <1> HIDE DEF c, due
  <1>7. InHand(w) = {} /\ checker[w].now = {} /\ InHand(w)' \subseteq due /\ checker'[w].now = {}
    BY <1>0, <1>1, <1>3, <1>4, OffTyped DEF LoopShape, InHand
  <1>8. /\ checker'[w].pc \in {"off", "record"} /\ checker'[w].run \in {0, checker[w].run}
        /\ checker'[w].pc # "off" => checker'[w].run = checker[w].run
        /\ \A o \in InHand(w)' : /\ checker'[w].seen[o] = threshold[o] /\ checker'[w].tvl = checker[w].tvl
                                 /\ checker'[w].run = checker[w].run
        /\ \A o \in AlertOwners : RowSeen(w, o)' \in {0, threshold[o].row}
    BY <1>3, <1>4, OffTyped DEF InHand, RowSeen
  <1>9. \A v \in Checkers \ {w} :
           InHand(v)' = InHand(v) /\ \A o \in AlertOwners : RowSeen(v, o)' = RowSeen(v, o)
    BY <1>4 DEF InHand, RowSeen
  <1>10. \A v \in Checkers \ {w} : \A o \in InHand(v) : RowSeen(v, o)' = RowSeen(v, o)
    BY <1>4 DEF RowSeen
  <1>11. \A o \in InHand(w)' : RowSeen(w, o)' = threshold[o].row
    BY <1>8 DEF RowSeen
  <1>12. LoopShape'
    <2>1. checker'[w].pc = "off" => InHand(w)' = {}
      BY <1>3, <1>4, OffTyped DEF InHand
    <2> QED BY <1>0, <1>1, <1>4, <1>7, <1>8, <1>9, <2>1 DEF LoopShape
  <1>13. RowsOwned'
    <2>1. \A v \in Checkers, o \in AlertOwners : RowSeen(v, o)' \in {0, RowSeen(v, o), threshold[o].row}
      BY <1>8, <1>9
    <2>2. \A v \in Checkers \ {w}, o \in AlertOwners : RowSeen(v, o)' = RowSeen(v, o)
      BY <1>9
    <2>3. edits \in Nat /\ \A o \in AlertOwners : threshold[o].row \in Nat
      BY <1>0 DEF AlertsTyped, Row
    <2>4. \A v \in Checkers, o \in AlertOwners : RowSeen(v, o)' <= edits'
      BY <1>0, <1>1, <2>1, <2>3 DEF RowsOwned
    <2>5. \A v \in Checkers, o, p \in AlertOwners : threshold'[p].row = RowSeen(v, o)' /\ Exists(p)' => o = p
      BY <1>0, <1>1, <2>1 DEF RowsOwned, Exists
    <2>6. \A u, v \in Checkers, o, p \in AlertOwners : RowSeen(u, o)' = RowSeen(v, p)' /\ RowSeen(u, o)' # 0 => o = p
      <3> SUFFICES ASSUME NEW u \in Checkers, NEW v \in Checkers, NEW o \in AlertOwners, NEW p \in AlertOwners,
                          RowSeen(u, o)' = RowSeen(v, p)', RowSeen(u, o)' # 0
                   PROVE  o = p
        OBVIOUS
      <3>1. CASE RowSeen(u, o)' = RowSeen(u, o) /\ RowSeen(v, p)' = RowSeen(v, p)
        BY <1>0, <3>1 DEF RowsOwned
      <3>2. CASE RowSeen(u, o)' = threshold[o].row
        BY <1>0, <1>1, <2>5, <3>2 DEF Exists
      <3>3. CASE RowSeen(v, p)' = threshold[p].row
        BY <1>0, <1>1, <2>5, <3>3 DEF Exists
      <3> QED BY <2>1, <3>1, <3>2, <3>3
    <2> QED BY <1>0, <1>1, <2>4, <2>5, <2>6 DEF RowsOwned, Exists
  <1>14. RunsDistinct'
    <2>1. \A v \in Checkers : checker[v].run \in Nat
      BY <1>0 DEF AlertsTyped, CheckerState
    <2>2. checks \in Nat
      BY <1>0 DEF AlertsTyped
    <2>3. \A v \in Checkers : checker'[v].run <= checks'
      BY <1>0, <1>1, <1>4, <1>8, <2>1, <2>2 DEF RunsDistinct
    <2>4. \A u, v \in Checkers :
             checker'[u].pc # "off" /\ checker'[v].pc # "off" /\ checker'[u].run = checker'[v].run => u = v
      BY <1>0, <1>1, <1>4, <1>8 DEF RunsDistinct
    <2>5. \A e \in sent', v \in Checkers : checker'[v].pc \in {"snapshot", "find"} => e.run # checker'[v].run
      BY <1>0, <1>1, <1>4, <1>8 DEF RunsDistinct
    <2> QED BY <1>0, <1>1, <2>3, <2>4, <2>5 DEF RunsDistinct
  <1>15. SeenBreached'
    <2>1. ASSUME NEW v \in Checkers, NEW o \in InHand(v)'
          PROVE  LET r == checker'[v].seen[o]
                 IN  /\ r.row # 0
                     /\ r.direction = "below" => r.level > checker'[v].tvl
                     /\ r.direction = "above" => r.level < checker'[v].tvl
      <3>1. CASE v = w
        BY <1>5, <1>7, <1>8, <3>1, <2>1
      <3>2. CASE v # w
        BY <1>0, <1>4, <1>9, <3>2, <2>1 DEF SeenBreached
      <3> QED BY <3>1, <3>2
    <2> QED BY <2>1 DEF SeenBreached
  <1>16. HeldTogether'
    <2>1. ASSUME NEW v \in Checkers \ {w}, NEW o \in InHand(w)' \cap InHand(v)
          PROVE  threshold[o].row \in raced'
      BY <1>1, <1>7, <2>1
    <2> SUFFICES ASSUME NEW u \in Checkers, NEW v \in Checkers, u # v, NEW o \in InHand(u)' \cap InHand(v)',
                        RowSeen(u, o)' = RowSeen(v, o)'
                 PROVE  RowSeen(u, o)' \in raced'
      BY DEF HeldTogether
    <2>2. CASE u = w
      BY <1>9, <1>11, <2>1, <2>2
    <2>3. CASE v = w
      BY <1>9, <1>11, <2>1, <2>3
    <2>4. CASE u # w /\ v # w
      BY <1>0, <1>1, <1>9, <1>10, <2>4 DEF HeldTogether
    <2> QED BY <2>2, <2>3, <2>4
  <1>17. \A v \in Checkers : checker'[v].pc \in {"stamp", "dispatch"} => checker'[v] = checker[v]
    BY <1>4, <1>8
  <1>18. RecordedFirst'
    BY <1>0, <1>1, <1>17, RecordKept DEF Entry
  <1>19. StampHeld' /\ StampSent'
    BY <1>0, <1>1, <1>17, StampsKept
  <1>20. LaterDay'
    <2> SUFFICES ASSUME NEW e \in sent, NEW v \in Checkers, NEW o \in InHand(v)',
                        RowSeen(v, o)' = e.row, e.row \notin raced'
                 PROVE  /\ checker'[v].run # e.run
                        /\ e.day < IF o \in checker'[v].now THEN checker'[v].at ELSE day
      BY <1>1 DEF LaterDay
    <2>1. CASE v # w
      <3>1. checker'[v] = checker[v] /\ o \in InHand(v) /\ RowSeen(v, o)' = RowSeen(v, o)
        BY <1>4, <1>9, <1>10, <2>1
      <3>2. e.row \notin raced
        BY <1>1
      <3> QED BY <1>0, <3>1, <3>2 DEF LaterDay
    <2>2. CASE v = w
      <3>1. threshold[o].row = e.row /\ o \in due /\ e.row \notin raced
        BY <1>1, <1>7, <1>11, <2>2
      <3>2. o \in AlertOwners /\ threshold[o].last >= e.day
        BY <1>0, <1>5, <3>1 DEF StampSent
      <3>3. e.day \in Nat /\ threshold[o].last \in Int /\ day \in Nat
        BY <1>0, <1>2, <3>2, AlertAssumption DEF AlertsTyped, Alert, Row
      <3>4. e.day < day
        BY <1>5, <3>1, <3>2, <3>3 DEF Never
      <3>5. checker[w].run # e.run
        BY <1>0, <1>1 DEF RunsDistinct
      <3> QED BY <1>7, <1>8, <2>2, <3>4, <3>5
    <2> QED BY <2>1, <2>2
  <1>21. OncePerDay'
    BY <1>0, <1>1 DEF OncePerDay
  <1> QED BY <1>6, <1>12, <1>13, <1>14, <1>15, <1>16, <1>18, <1>19, <1>20, <1>21 DEF AlertsInv

LEMMA TakeUpStep ==
    ASSUME AlertsInv, NEW w \in Checkers, NEW o \in AlertOwners, TakeUp(w, o) PROVE AlertsInv'
  <1>0. /\ AlertsTyped /\ LoopShape /\ RowsOwned /\ RunsDistinct /\ SeenBreached /\ RecordedFirst
        /\ HeldTogether /\ StampHeld /\ StampSent /\ LaterDay /\ OncePerDay
    BY DEF AlertsInv
  <1> DEFINE c == [checker[w] EXCEPT !.now = {o}, !.todo = @ \ {o}, !.at = day]
  <1>1. /\ day' = day /\ threshold' = threshold /\ history' = history /\ sent' = sent /\ tvl' = tvl
        /\ raced' = raced /\ edits' = edits /\ checks' = checks /\ mishaps' = mishaps /\ snapshot' = snapshot
        /\ checker[w].pc = "record" /\ checker[w].now = {} /\ o \in checker[w].todo
        /\ checker' = [checker EXCEPT ![w] = c]
    BY DEF TakeUp
  <1>2. checker[w] \in CheckerState /\ checker \in [Checkers -> CheckerState] /\ day \in Nat
    BY <1>0, AlertAssumption DEF AlertsTyped
  <1>3. /\ c \in CheckerState /\ c.now = {o} /\ c.todo = checker[w].todo \ {o} /\ c.at = day
        /\ c.pc = "record" /\ c.run = checker[w].run /\ c.tvl = checker[w].tvl /\ c.seen = checker[w].seen
    <2> DEFINE c1 == [checker[w] EXCEPT !.now = {o}]
               c2 == [c1 EXCEPT !.todo = @ \ {o}]
               c3 == [c2 EXCEPT !.at = day]
    <2>1. /\ c1 \in CheckerState /\ c1.now = {o} /\ c1.todo = checker[w].todo /\ c1.pc = "record"
          /\ c1.run = checker[w].run /\ c1.tvl = checker[w].tvl /\ c1.seen = checker[w].seen
      BY <1>1, <1>2 DEF CheckerState
    <2> HIDE DEF c1
    <2>2. /\ c2 \in CheckerState /\ c2.now = {o} /\ c2.todo = checker[w].todo \ {o} /\ c2.pc = "record"
          /\ c2.run = checker[w].run /\ c2.tvl = checker[w].tvl /\ c2.seen = checker[w].seen
      BY <2>1 DEF CheckerState
    <2> HIDE DEF c2
    <2>3. /\ c3 \in CheckerState /\ c3.now = {o} /\ c3.todo = checker[w].todo \ {o} /\ c3.at = day
          /\ c3.pc = "record" /\ c3.run = checker[w].run /\ c3.tvl = checker[w].tvl
          /\ c3.seen = checker[w].seen
      BY <1>2, <2>2 DEF CheckerState
    <2>4. c = c3
      BY Zenon DEF c1, c2
    <2> QED BY <2>3, <2>4
  <1> HIDE DEF c
  <1>4. /\ checker' \in [Checkers -> CheckerState]
        /\ checker'[w] = c
        /\ \A v \in Checkers \ {w} : checker'[v] = checker[v]
    BY <1>1, <1>2, <1>3, CheckerMoves
  <1>5. /\ InHand(w) = checker[w].todo /\ InHand(w)' = InHand(w) /\ checker'[w].pc = "record"
        /\ \A v \in Checkers, p \in AlertOwners : RowSeen(v, p)' = RowSeen(v, p)
    BY <1>1, <1>3, <1>4 DEF InHand, RowSeen
  <1>6. \A v \in Checkers : InHand(v)' = InHand(v)
    BY <1>4, <1>5 DEF InHand
  <1>7. Onwards /\ SentByHolders
    BY <1>1, <1>3, <1>4, <1>5, <1>6 DEF Onwards, SentByHolders
  <1>8. AlertsTyped'
    BY <1>0, <1>1, <1>4 DEF AlertsTyped
  <1>9. LoopShape'
    BY <1>0, <1>1, <1>2, <1>3, <1>4, <1>6 DEF LoopShape
  <1>10. RowsOwned' /\ RunsDistinct' /\ SeenBreached' /\ HeldTogether'
    <2>1. edits \in Nat /\ edits' \in Nat /\ edits' >= edits
      BY <1>0, <1>1 DEF AlertsTyped
    <2> QED BY <1>0, <1>1, <1>7, <2>1, RowsKept, RunsKept, BreachKept, TogetherKept
  <1>11. \A v \in Checkers : checker'[v].pc \in {"stamp", "dispatch"} => checker'[v] = checker[v]
    BY <1>4, <1>5
  <1>12. RecordedFirst'
    BY <1>0, <1>1, <1>11, RecordKept DEF Entry
  <1>13. StampHeld' /\ StampSent'
    BY <1>0, <1>1, <1>11, StampsKept
  <1>14. LaterDay'
    <2>1. ASSUME NEW v \in Checkers, NEW p \in InHand(v)'
          PROVE  IF p \in checker'[v].now
                 THEN checker'[v].at = IF p \in checker[v].now THEN checker[v].at ELSE day
                 ELSE p \notin checker[v].now
      BY <1>1, <1>3, <1>4
    <2> QED BY <1>0, <1>1, <1>7, <2>1, LaterKept
  <1>15. OncePerDay'
    BY <1>0, <1>1 DEF OncePerDay
  <1> QED BY <1>8, <1>9, <1>10, <1>12, <1>13, <1>14, <1>15 DEF AlertsInv

LEMMA RecordStep ==
    ASSUME AlertsInv, NEW w \in Checkers, NEW o \in AlertOwners, RecordBreach(w, o), SameRow(w, o)
    PROVE  AlertsInv'
  <1>0. /\ AlertsTyped /\ LoopShape /\ RowsOwned /\ RunsDistinct /\ SeenBreached /\ RecordedFirst
        /\ HeldTogether /\ StampHeld /\ StampSent /\ LaterDay /\ OncePerDay
    BY DEF AlertsInv
  <1> DEFINE c == [checker[w] EXCEPT !.pc = "stamp"]
  <1>1. /\ day' = day /\ threshold' = threshold /\ sent' = sent /\ tvl' = tvl /\ snapshot' = snapshot
        /\ raced' = raced /\ edits' = edits /\ checks' = checks /\ mishaps' = mishaps
        /\ checker[w].pc = "record" /\ checker[w].now = {o}
        /\ checker' = [checker EXCEPT ![w] = c]
        /\ history' = history \cup {Entry(w, o)}
    BY DEF RecordBreach, AtStep
  <1>2. checker[w] \in CheckerState /\ checker \in [Checkers -> CheckerState]
    BY <1>0 DEF AlertsTyped
  <1>3. /\ c \in CheckerState /\ c.pc = "stamp" /\ c.run = checker[w].run /\ c.tvl = checker[w].tvl
        /\ c.seen = checker[w].seen /\ c.now = checker[w].now /\ c.todo = checker[w].todo
        /\ c.at = checker[w].at
    BY <1>2 DEF CheckerState, CheckerPcs
  <1> HIDE DEF c
  <1>4. /\ checker' \in [Checkers -> CheckerState]
        /\ checker'[w] = c
        /\ \A v \in Checkers \ {w} : checker'[v] = checker[v]
    BY <1>1, <1>2, <1>3, CheckerMoves
  <1>5. \A v \in Checkers : /\ InHand(v)' = InHand(v) /\ checker'[v].now = checker[v].now
                            /\ checker'[v].at = checker[v].at
                            /\ \A p \in AlertOwners : RowSeen(v, p)' = RowSeen(v, p)
    BY <1>3, <1>4 DEF InHand, RowSeen
  <1>6. Onwards /\ SentByHolders
    BY <1>1, <1>3, <1>4, <1>5 DEF Onwards, SentByHolders
  <1>7. AlertsTyped'
    <2>1. checker[w].seen[o] \in Row /\ checker[w].at \in Nat /\ checker[w].run \in Nat /\ checker[w].tvl \in Nat
      BY <1>2 DEF CheckerState
    <2>2. Entry(w, o) \in Alert
      BY <2>1 DEF Entry, Alert, Row
    <2> QED BY <1>0, <1>1, <1>4, <2>2 DEF AlertsTyped
  <1>8. LoopShape'
    BY <1>0, <1>1, <1>3, <1>4, <1>5 DEF LoopShape
  <1>9. RowsOwned' /\ RunsDistinct' /\ SeenBreached' /\ HeldTogether'
    <2>1. edits \in Nat /\ edits' \in Nat /\ edits' >= edits
      BY <1>0, <1>1 DEF AlertsTyped
    <2> QED BY <1>0, <1>1, <1>6, <2>1, RowsKept, RunsKept, BreachKept, TogetherKept
  <1>10. RecordedFirst'
    <2>1. Entry(w, o)' = Entry(w, o)
      BY <1>3, <1>4 DEF Entry
    <2>2. \A p \in checker'[w].now : Entry(w, p)' \in history'
      BY <1>1, <1>5, <2>1
    <2>3. \A v \in Checkers \ {w} : \A p \in AlertOwners : Entry(v, p)' = Entry(v, p)
      BY <1>4 DEF Entry
    <2>4. \A v \in Checkers : checker[v].now \subseteq AlertOwners
      BY <1>0 DEF AlertsTyped, CheckerState
    <2>5. ASSUME NEW v \in Checkers, checker'[v].pc \in {"stamp", "dispatch"}, NEW p \in checker'[v].now
          PROVE  \/ Entry(v, p)' \in history'
                 \/ /\ checker[v].pc \in {"stamp", "dispatch"}
                    /\ p \in checker[v].now /\ Entry(v, p)' = Entry(v, p)
      BY <1>4, <1>5, <2>2, <2>3, <2>4, <2>5
    <2> QED BY <1>0, <1>1, <2>5, RecordKept
  <1>11. StampHeld' /\ StampSent'
    <2>1. \A v \in Checkers : checker'[v].pc = "dispatch" => checker[v].pc = "dispatch" /\ checker'[v] = checker[v]
      BY <1>3, <1>4
    <2> QED BY <1>0, <1>1, <2>1, StampsKept
  <1>12. LaterDay'
    BY <1>0, <1>1, <1>5, <1>6, LaterKept
  <1>13. OncePerDay'
    BY <1>0, <1>1 DEF OncePerDay
  <1> QED BY <1>7, <1>8, <1>9, <1>10, <1>11, <1>12, <1>13 DEF AlertsInv

LEMMA StampStep ==
    ASSUME AlertsInv, NEW w \in Checkers, NEW o \in AlertOwners, Stamp(w, o), SameRow(w, o)
    PROVE  AlertsInv'
  <1>0. /\ AlertsTyped /\ LoopShape /\ RowsOwned /\ RunsDistinct /\ SeenBreached /\ RecordedFirst
        /\ HeldTogether /\ StampHeld /\ StampSent /\ LaterDay /\ OncePerDay
    BY DEF AlertsInv
  <1> DEFINE c == [checker[w] EXCEPT !.pc = "dispatch"]
             r == [threshold[o] EXCEPT !.last = checker[w].at]
  <1>1. /\ day' = day /\ history' = history /\ sent' = sent /\ tvl' = tvl /\ snapshot' = snapshot
        /\ raced' = raced /\ edits' = edits /\ checks' = checks /\ mishaps' = mishaps
        /\ checker[w].pc = "stamp" /\ checker[w].now = {o}
        /\ checker' = [checker EXCEPT ![w] = c]
        /\ threshold' = [threshold EXCEPT ![o] = r]
    BY DEF Stamp, AtStep
  <1>2. checker[w] \in CheckerState /\ checker \in [Checkers -> CheckerState] /\ threshold \in [AlertOwners -> Row]
    BY <1>0 DEF AlertsTyped
  <1>3. /\ c \in CheckerState /\ c.pc = "dispatch" /\ c.run = checker[w].run /\ c.tvl = checker[w].tvl
        /\ c.seen = checker[w].seen /\ c.now = checker[w].now /\ c.todo = checker[w].todo
        /\ c.at = checker[w].at /\ c.at \in Nat
    BY <1>2 DEF CheckerState, CheckerPcs
  <1>4. r \in Row /\ r.row = threshold[o].row /\ r.last = checker[w].at
    <2>1. threshold[o] \in Row /\ checker[w].at \in Int
      BY <1>2 DEF CheckerState
    <2> QED BY <2>1 DEF Row
  <1> HIDE DEF c, r
  <1>5. /\ checker' \in [Checkers -> CheckerState]
        /\ checker'[w] = c
        /\ \A v \in Checkers \ {w} : checker'[v] = checker[v]
    BY <1>1, <1>2, <1>3, CheckerMoves
  <1>6. /\ threshold' \in [AlertOwners -> Row]
        /\ threshold'[o].row = threshold[o].row /\ threshold'[o].last = checker[w].at
        /\ \A p \in AlertOwners \ {o} : threshold'[p] = threshold[p]
    BY <1>1, <1>2, <1>4
  <1>7. \A v \in Checkers : /\ InHand(v)' = InHand(v) /\ checker'[v].now = checker[v].now
                            /\ checker'[v].at = checker[v].at
                            /\ \A p \in AlertOwners : RowSeen(v, p)' = RowSeen(v, p)
    BY <1>3, <1>5 DEF InHand, RowSeen
  <1>8. Onwards /\ SentByHolders
    BY <1>1, <1>3, <1>5, <1>7 DEF Onwards, SentByHolders
  <1>9. AlertsTyped'
    BY <1>0, <1>1, <1>5, <1>6 DEF AlertsTyped
  <1>10. LoopShape'
    BY <1>0, <1>1, <1>3, <1>5, <1>7 DEF LoopShape
  <1>11. RowsOwned' /\ RunsDistinct' /\ SeenBreached' /\ HeldTogether'
    <2>1. edits \in Nat /\ edits' \in Nat /\ edits' >= edits
      BY <1>0, <1>1 DEF AlertsTyped
    <2>2. \A p \in AlertOwners : threshold'[p].row \in {0, threshold[p].row}
      BY <1>6
    <2> QED BY <1>0, <1>1, <1>8, <2>1, <2>2, RowsKept, RunsKept, BreachKept, TogetherKept
  <1>12. RecordedFirst'
    <2>1. \A v \in Checkers, p \in AlertOwners : Entry(v, p)' = Entry(v, p)
      BY <1>3, <1>5 DEF Entry
    <2>2. \A v \in Checkers : checker[v].now \subseteq AlertOwners
      BY <1>0 DEF AlertsTyped, CheckerState
    <2>3. ASSUME NEW v \in Checkers, checker'[v].pc \in {"stamp", "dispatch"}, NEW p \in checker'[v].now
          PROVE  /\ checker[v].pc \in {"stamp", "dispatch"}
                 /\ p \in checker[v].now /\ Entry(v, p)' = Entry(v, p)
      BY <1>1, <1>5, <1>7, <2>1, <2>2, <2>3
    <2> QED BY <1>0, <1>1, <2>3, RecordKept
  <1>13. o \in InHand(w) /\ RowSeen(w, o) = threshold[o].row /\ RowSeen(w, o) # 0
    BY <1>0, <1>1 DEF InHand, SameRow, RowSeen, SeenBreached
  <1>14. StampHeld'
    <2> SUFFICES ASSUME NEW v \in Checkers, checker'[v].pc = "dispatch", NEW p \in checker'[v].now,
                        SameRow(v, p)', RowSeen(v, p)' \notin raced
                 PROVE  threshold'[p].last >= checker'[v].at
      BY <1>1 DEF StampHeld
    <2>1. p \in InHand(v) /\ p \in checker[v].now /\ p \in AlertOwners /\ checker'[v].at = checker[v].at
      BY <1>0, <1>7 DEF InHand, AlertsTyped, CheckerState
    <2>2. RowSeen(v, p) \notin raced /\ RowSeen(v, p)' = RowSeen(v, p)
      BY <1>7, <2>1
    <2>3. threshold[p].row = RowSeen(v, p)
      BY <1>6, <2>1, <2>2 DEF SameRow, RowSeen
    <2>4. CASE v = w
      <3>1. p = o
        BY <1>1, <2>1, <2>4
      <3> QED BY <1>3, <1>6, <2>1, <2>4, <3>1
    <2>5. CASE v # w /\ p = o
      BY <1>0, <1>13, <2>1, <2>2, <2>3, <2>5 DEF HeldTogether
    <2>6. CASE v # w /\ p # o
      <3>1. checker[v].pc = "dispatch" /\ SameRow(v, p) /\ threshold'[p].last = threshold[p].last
        BY <1>5, <1>6, <2>1, <2>3, <2>6 DEF SameRow, RowSeen
      <3> QED BY <1>0, <2>1, <2>2, <3>1 DEF StampHeld
    <2> QED BY <2>4, <2>5, <2>6
  <1>15. StampSent'
    <2> SUFFICES ASSUME NEW e \in sent, NEW p \in AlertOwners, threshold'[p].row = e.row, e.row \notin raced
                 PROVE  threshold'[p].last >= e.day
      BY <1>1 DEF StampSent
    <2>1. CASE p # o
      BY <1>0, <1>6, <2>1 DEF StampSent
    <2>2. CASE p = o
      <3>1. RowSeen(w, o) = e.row
        BY <1>6, <1>13, <2>2
      <3>2. e.day < checker[w].at
        BY <1>0, <1>1, <1>13, <3>1 DEF LaterDay
      <3>3. e.day \in Nat
        BY <1>0 DEF AlertsTyped, Alert
      <3> QED BY <1>3, <1>6, <2>2, <3>2, <3>3
    <2> QED BY <2>1, <2>2
  <1>16. LaterDay'
    BY <1>0, <1>1, <1>7, <1>8, LaterKept
  <1>17. OncePerDay'
    BY <1>0, <1>1 DEF OncePerDay
  <1> QED BY <1>9, <1>10, <1>11, <1>12, <1>14, <1>15, <1>16, <1>17 DEF AlertsInv

-----------------------------------------------------------------------------
(* A run lets a threshold go *)

Released(w) ==
    /\ checker' \in [Checkers -> CheckerState]
    /\ \A v \in Checkers \ {w} : checker'[v] = checker[v]
    /\ \/ checker'[w] = Off
       \/ /\ checker'[w].pc = "record" /\ checker'[w].now = {} /\ checker'[w].todo = checker[w].todo
          /\ checker'[w].seen = checker[w].seen /\ checker'[w].run = checker[w].run
          /\ checker'[w].tvl = checker[w].tvl /\ checker[w].pc # "off"

LEMMA OnwardReleases ==
    ASSUME AlertsTyped, LoopShape, NEW w \in Checkers, checker[w].now # {}, Onward(w)
    PROVE  Released(w)
  <1> DEFINE c == [checker[w] EXCEPT !.pc = "record", !.now = {}]
  <1>1. checker[w] \in CheckerState /\ checker \in [Checkers -> CheckerState]
    BY DEF AlertsTyped
  <1>2. /\ c \in CheckerState /\ c.pc = "record" /\ c.now = {} /\ c.todo = checker[w].todo
        /\ c.seen = checker[w].seen /\ c.run = checker[w].run /\ c.tvl = checker[w].tvl
    BY <1>1 DEF CheckerState, CheckerPcs
  <1>3. checker[w].pc # "off"
    BY DEF LoopShape, InHand
  <1>4. CASE checker[w].todo = {}
    <2>1. checker' = [checker EXCEPT ![w] = Off]
      BY <1>4 DEF Onward
    <2> QED BY <1>1, <2>1, OffTyped, CheckerMoves DEF Released
  <1>5. CASE checker[w].todo # {}
    <2>1. checker' = [checker EXCEPT ![w] = c]
      BY <1>5 DEF Onward
    <2> HIDE DEF c
    <2> QED BY <1>1, <1>2, <1>3, <2>1, CheckerMoves DEF Released
  <1> QED BY <1>4, <1>5

LEMMA ReleasedHolds ==
    ASSUME AlertsTyped, LoopShape, NEW w \in Checkers, Released(w)
    PROVE  /\ Onwards
           /\ checker'[w].pc \in {"off", "record"} /\ checker'[w].now = {}
           /\ InHand(w)' \subseteq checker[w].todo
           /\ \A o \in InHand(w)' : RowSeen(w, o)' = RowSeen(w, o)
           /\ \A v \in Checkers \ {w} : InHand(v)' = InHand(v) /\ \A o \in AlertOwners : RowSeen(v, o)' = RowSeen(v, o)
  <1>1. /\ checker'[w].pc \in {"off", "record"} /\ checker'[w].now = {}
        /\ checker'[w].todo \subseteq checker[w].todo
    BY OffTyped DEF Released
  <1>2. InHand(w)' \subseteq checker[w].todo /\ InHand(w)' \subseteq InHand(w)
    BY <1>1 DEF InHand
  <1>3. \A v \in Checkers \ {w} : InHand(v)' = InHand(v) /\ \A o \in AlertOwners : RowSeen(v, o)' = RowSeen(v, o)
    BY DEF Released, InHand, RowSeen
  <1>4. CASE checker'[w] = Off
    <2>1. checker'[w].pc = "off" /\ checker'[w].run = 0 /\ InHand(w)' = {}
      BY <1>4, OffTyped DEF InHand
    <2>2. \A o \in AlertOwners : RowSeen(w, o)' = 0
      BY <1>4, OffTyped DEF RowSeen
    <2>3. \A v \in Checkers \ {w} : checker'[v] = checker[v]
      BY DEF Released
    <2>4. Onwards
      BY <1>3, <2>1, <2>2, <2>3 DEF Onwards
    <2> QED BY <1>1, <1>2, <1>3, <2>1, <2>4
  <1>5. CASE checker'[w] # Off
    <2>1. /\ checker'[w].pc = "record" /\ checker[w].pc # "off" /\ checker'[w].seen = checker[w].seen
          /\ checker'[w].run = checker[w].run /\ checker'[w].tvl = checker[w].tvl
          /\ \A v \in Checkers \ {w} : checker'[v] = checker[v]
      BY <1>5 DEF Released
    <2>2. \A o \in AlertOwners : RowSeen(w, o)' = RowSeen(w, o)
      BY <2>1 DEF RowSeen
    <2>3. Onwards
      BY <1>2, <1>3, <2>1, <2>2 DEF Onwards
    <2>4. \A o \in InHand(w)' : RowSeen(w, o)' = RowSeen(w, o)
      BY <2>1 DEF RowSeen
    <2> QED BY <1>1, <1>2, <1>3, <2>3, <2>4
  <1> QED BY <1>4, <1>5

\* What holds whether or not an alert goes out as the run moves on.
LEMMA ReleaseKeeps ==
    ASSUME AlertsInv, NEW w \in Checkers, Released(w), SentByHolders,
           mishaps' \in Nat, checks' = checks, edits' = edits, day' = day, threshold' = threshold,
           tvl' = tvl, snapshot' = snapshot, history' = history, raced' = raced, sent' \subseteq Alert
    PROVE  /\ AlertsTyped' /\ LoopShape' /\ RowsOwned' /\ RunsDistinct' /\ SeenBreached'
           /\ HeldTogether' /\ StampHeld'
           /\ \A v \in Checkers : checker'[v].pc \in {"stamp", "dispatch"} => v # w /\ checker'[v] = checker[v]
  <1>0. /\ AlertsTyped /\ LoopShape /\ RowsOwned /\ RunsDistinct /\ SeenBreached
        /\ HeldTogether /\ StampHeld
    BY DEF AlertsInv
  <1>1. /\ Onwards
        /\ checker'[w].pc \in {"off", "record"} /\ checker'[w].now = {}
        /\ InHand(w)' \subseteq checker[w].todo
        /\ \A v \in Checkers \ {w} : InHand(v)' = InHand(v) /\ checker'[v] = checker[v]
    BY <1>0, ReleasedHolds DEF Released
  <1>2. AlertsTyped'
    BY <1>0 DEF AlertsTyped, Released
  <1>3. LoopShape'
    <2>1. checker'[w].pc = "off" => InHand(w)' = {}
      <3>1. CASE checker'[w] = Off
        BY <3>1, OffTyped DEF InHand
      <3> QED BY <3>1 DEF Released
    <2> QED BY <1>0, <1>1, <2>1 DEF LoopShape
  <1>4. edits \in Nat /\ edits' \in Nat /\ edits' >= edits
    BY <1>0 DEF AlertsTyped
  <1>5. RowsOwned' /\ RunsDistinct' /\ SeenBreached' /\ HeldTogether'
    BY <1>0, <1>1, <1>4, RowsKept, RunsKept, BreachKept, TogetherKept
  <1>6. \A v \in Checkers : checker'[v].pc \in {"stamp", "dispatch"} => v # w /\ checker'[v] = checker[v]
    BY <1>1
  <1>7. StampHeld'
    <2> SUFFICES ASSUME NEW v \in Checkers, checker'[v].pc = "dispatch", NEW o \in checker'[v].now,
                        SameRow(v, o)', RowSeen(v, o)' \notin raced
                 PROVE  threshold'[o].last >= checker'[v].at
      BY DEF StampHeld
    <2>1. checker'[v] = checker[v]
      BY <1>6
    <2>2. SameRow(v, o) /\ RowSeen(v, o)' = RowSeen(v, o) /\ o \in checker[v].now /\ checker[v].pc = "dispatch"
      BY <2>1 DEF SameRow, RowSeen
    <2> QED BY <1>0, <2>1, <2>2 DEF StampHeld
  <1> QED BY <1>2, <1>3, <1>5, <1>6, <1>7

\* Nothing goes out: a step fails, the row is gone, or the process dies.
LEMMA ReleaseStep ==
    ASSUME AlertsInv, NEW w \in Checkers, Released(w),
           mishaps' \in Nat, checks' = checks, edits' = edits, day' = day, threshold' = threshold,
           tvl' = tvl, snapshot' = snapshot, history' = history, raced' = raced, sent' = sent
    PROVE  AlertsInv'
  <1>0. /\ AlertsTyped /\ LoopShape /\ RecordedFirst /\ StampSent /\ LaterDay /\ OncePerDay
    BY DEF AlertsInv
  <1>1. SentByHolders /\ sent' \subseteq Alert
    BY <1>0 DEF SentByHolders, AlertsTyped
  <1>2. /\ AlertsTyped' /\ LoopShape' /\ RowsOwned' /\ RunsDistinct' /\ SeenBreached'
        /\ HeldTogether' /\ StampHeld'
        /\ \A v \in Checkers : checker'[v].pc \in {"stamp", "dispatch"} => v # w /\ checker'[v] = checker[v]
    BY <1>1, ReleaseKeeps
  <1>3. RecordedFirst'
    BY <1>0, <1>2, RecordKept DEF Entry
  <1>4. StampSent' /\ OncePerDay'
    BY <1>0 DEF StampSent, OncePerDay
  <1>5. LaterDay'
    <2>1. /\ Onwards /\ checker'[w].now = {} /\ InHand(w)' \subseteq checker[w].todo
          /\ \A v \in Checkers \ {w} : checker'[v] = checker[v]
      BY <1>0, ReleasedHolds DEF Released
    <2>2. ASSUME NEW v \in Checkers, NEW o \in InHand(v)'
          PROVE  IF o \in checker'[v].now
                 THEN checker'[v].at = IF o \in checker[v].now THEN checker[v].at ELSE day
                 ELSE o \notin checker[v].now
      BY <1>0, <2>1 DEF LoopShape
    <2> QED BY <1>0, <2>1, <2>2, LaterKept
  <1> QED BY <1>2, <1>3, <1>4, <1>5 DEF AlertsInv

LEMMA DispatchStep ==
    ASSUME AlertsInv, NEW w \in Checkers, NEW o \in AlertOwners, DispatchAlert(w, o) PROVE AlertsInv'
  <1>0. /\ AlertsTyped /\ LoopShape /\ RowsOwned /\ RunsDistinct /\ SeenBreached /\ RecordedFirst
        /\ HeldTogether /\ StampHeld /\ StampSent /\ LaterDay /\ OncePerDay
    BY DEF AlertsInv
  <1> DEFINE e == Entry(w, o)
  <1>1. /\ day' = day /\ threshold' = threshold /\ tvl' = tvl /\ snapshot' = snapshot /\ history' = history
        /\ raced' = raced /\ edits' = edits /\ checks' = checks /\ mishaps' = mishaps
        /\ checker[w].pc = "dispatch" /\ checker[w].now = {o}
        /\ sent' = sent \cup {e}
    BY DEF DispatchAlert, AtStep
  <1>2. checker[w] \in CheckerState /\ mishaps \in Nat
    BY <1>0 DEF AlertsTyped
  <1>3. Released(w)
    BY <1>0, <1>1, OnwardReleases DEF DispatchAlert
  <1>4. /\ e \in Alert /\ e.row = RowSeen(w, o) /\ e.day = checker[w].at /\ e.run = checker[w].run
        /\ e.tvl = checker[w].tvl /\ e.level = checker[w].seen[o].level
        /\ e.direction = checker[w].seen[o].direction
    <2>1. checker[w].seen[o] \in Row /\ checker[w].at \in Nat /\ checker[w].run \in Nat /\ checker[w].tvl \in Nat
      BY <1>2 DEF CheckerState
    <2> QED BY <2>1 DEF Entry, Alert, Row, RowSeen
  <1>5. SentByHolders /\ sent' \subseteq Alert
    BY <1>0, <1>1, <1>4 DEF SentByHolders, AlertsTyped
  <1>6. /\ AlertsTyped' /\ LoopShape' /\ RowsOwned' /\ RunsDistinct' /\ SeenBreached'
        /\ HeldTogether' /\ StampHeld'
        /\ \A v \in Checkers : checker'[v].pc \in {"stamp", "dispatch"} => v # w /\ checker'[v] = checker[v]
    BY <1>1, <1>2, <1>3, <1>5, ReleaseKeeps
  <1>7. o \in InHand(w) /\ RowSeen(w, o) # 0 /\ o \notin checker[w].todo
    BY <1>0, <1>1 DEF InHand, SeenBreached, RowSeen, LoopShape
  <1>8. RecordedFirst'
    <2>1. e \in history
      BY <1>0, <1>1 DEF RecordedFirst
    <2>2. IF e.direction = "below" THEN e.tvl < e.level ELSE e.tvl > e.level
      <3>1. checker[w].seen[o].direction \in Directions /\ checker[w].seen[o].level \in Nat
            /\ checker[w].tvl \in Nat
        BY <1>2 DEF CheckerState, Row
      <3>2. CASE checker[w].seen[o].direction = "below"
        BY <1>0, <1>4, <1>7, <3>1, <3>2 DEF SeenBreached
      <3>3. CASE checker[w].seen[o].direction = "above"
        BY <1>0, <1>4, <1>7, <3>1, <3>3 DEF SeenBreached
      <3> QED BY <3>1, <3>2, <3>3 DEF Directions
    <2>3. ASSUME NEW v \in Checkers, checker'[v].pc \in {"stamp", "dispatch"}, NEW p \in checker'[v].now
          PROVE  Entry(v, p)' \in history'
      <3>1. checker'[v] = checker[v]
        BY <1>6, <2>3
      <3>2. Entry(v, p)' = Entry(v, p)
        BY <3>1 DEF Entry
      <3> QED BY <1>0, <1>1, <2>3, <3>1, <3>2 DEF RecordedFirst
    <2> QED BY <1>0, <1>1, <2>1, <2>2, <2>3 DEF RecordedFirst
  <1> HIDE DEF e
  <1>9. StampSent'
    <2> SUFFICES ASSUME NEW f \in sent', NEW p \in AlertOwners, threshold[p].row = f.row, f.row \notin raced
                 PROVE  threshold[p].last >= f.day
      BY <1>1 DEF StampSent
    <2>1. CASE f \in sent
      BY <1>0, <2>1 DEF StampSent
    <2>2. CASE f = e
      <3>1. threshold[p].row = RowSeen(w, o) /\ Exists(p)
        BY <1>4, <1>7, <2>2 DEF Exists
      <3>2. p = o
        BY <1>0, <3>1 DEF RowsOwned
      <3>3. SameRow(w, o) /\ RowSeen(w, o) \notin raced
        BY <1>4, <2>2, <3>1, <3>2 DEF SameRow, RowSeen
      <3>4. threshold[o].last >= checker[w].at
        BY <1>0, <1>1, <3>3 DEF StampHeld
      <3> QED BY <1>4, <2>2, <3>2, <3>4
    <2> QED BY <1>1, <2>1, <2>2
  <1>10. /\ \A p \in InHand(w)' : p \in checker[w].todo /\ RowSeen(w, p)' = RowSeen(w, p)
         /\ \A v \in Checkers \ {w} : /\ InHand(v)' = InHand(v) /\ checker'[v] = checker[v]
                                      /\ \A p \in AlertOwners : RowSeen(v, p)' = RowSeen(v, p)
         /\ \A p \in InHand(w)' : checker'[w].run = checker[w].run
         /\ checker'[w].now = {} /\ checker[w].todo \subseteq AlertOwners
    BY <1>0, <1>2, <1>3, ReleasedHolds DEF Released, Onwards, CheckerState
  <1>11. LaterDay'
    <2> SUFFICES ASSUME NEW f \in sent', NEW v \in Checkers, NEW p \in InHand(v)',
                        RowSeen(v, p)' = f.row, f.row \notin raced
                 PROVE  /\ checker'[v].run # f.run
                        /\ f.day < IF p \in checker'[v].now THEN checker'[v].at ELSE day
      BY <1>1 DEF LaterDay
    <2>1. p \in InHand(v) /\ p \in AlertOwners /\ RowSeen(v, p) = f.row
      <3>1. CASE v = w
        BY <1>10, <3>1 DEF InHand
      <3>2. CASE v # w
        <4>1. p \in InHand(v) /\ p \in AlertOwners
          BY <1>0, <1>10, <3>2, InHandTyped
        <4> QED BY <1>10, <3>2, <4>1
      <3> QED BY <3>1, <3>2
    <2>2. CASE f \in sent
      <3>1. checker[v].run # f.run /\ f.day < IF p \in checker[v].now THEN checker[v].at ELSE day
        BY <1>0, <2>1, <2>2 DEF LaterDay
      <3>2. CASE v = w
        <4>1. p \notin checker[v].now
          BY <1>0, <1>10, <3>2 DEF LoopShape
        <4> QED BY <1>10, <3>1, <3>2, <4>1
      <3>3. CASE v # w
        BY <1>10, <3>1, <3>3
      <3> QED BY <3>2, <3>3
    <2>3. CASE f = e
      <3>1. RowSeen(v, p) = RowSeen(w, o)
        BY <1>4, <2>1, <2>3
      <3>2. p = o
        BY <1>0, <1>7, <2>1, <3>1 DEF RowsOwned
      <3>3. v # w
        BY <1>7, <1>10, <3>2
      <3>4. RowSeen(w, o) \in raced
        BY <1>0, <1>7, <2>1, <3>1, <3>2, <3>3 DEF HeldTogether
      <3> QED BY <1>4, <2>3, <3>4
    <2> QED BY <1>1, <2>2, <2>3
  <1>12. OncePerDay'
    <2>1. ASSUME NEW f \in sent, f.row = e.row, f.day = e.day, f.row \notin raced
          PROVE  FALSE
      <3>1. f.day < checker[w].at
        BY <1>0, <1>1, <1>4, <1>7, <2>1 DEF LaterDay
      <3>2. f.day \in Nat /\ checker[w].at \in Nat
        BY <1>0, <1>2 DEF AlertsTyped, Alert, CheckerState
      <3> QED BY <1>4, <2>1, <3>1, <3>2
    <2> QED BY <1>0, <1>1, <2>1 DEF OncePerDay
  <1> QED BY <1>6, <1>8, <1>9, <1>11, <1>12 DEF AlertsInv

LEMMA AlertsStep == AlertsInv /\ [AlertsNext]_alertVars => AlertsInv'
  <1> SUFFICES ASSUME AlertsInv, [AlertsNext]_alertVars PROVE AlertsInv'
    OBVIOUS
  <1>0. AlertsTyped /\ LoopShape /\ mishaps \in Nat /\ checker \in [Checkers -> CheckerState]
    BY DEF AlertsInv, AlertsTyped
  <1>1. CASE \E o \in AlertOwners :
               \/ \E level \in TvlValues, direction \in Directions : SetThreshold(o, level, direction)
               \/ DisableThreshold(o) \/ DeleteThreshold(o)
    BY <1>1, OwnersStep
  <1>2. CASE NextDay
    BY <1>2, DayStep
  <1>3. ASSUME NEW w \in Checkers, NEW x \in TvlValues, ComputeTvl(w, x) PROVE AlertsInv'
    BY <1>3, ComputeStep
  <1>4. ASSUME NEW w \in Checkers, Snapshot(w) \/ FindDue(w) PROVE AlertsInv'
    BY <1>4, SnapshotStep, FindStep
  <1>5. ASSUME NEW w \in Checkers, AlertFails(w) \/ JobDies(w) PROVE AlertsInv'
    <2>1. /\ day' = day /\ threshold' = threshold /\ tvl' = tvl /\ snapshot' = snapshot /\ history' = history
          /\ raced' = raced /\ edits' = edits /\ checks' = checks /\ sent' = sent /\ mishaps' = mishaps + 1
      BY <1>5 DEF AlertFails, JobDies
    <2>2. CASE AlertFails(w)
      <3>1. Released(w)
        BY <1>0, <2>2, OnwardReleases DEF AlertFails
      <3> QED BY <1>0, <2>1, <3>1, ReleaseStep
    <2>3. CASE JobDies(w)
      <3>1. checker' = [checker EXCEPT ![w] = Off]
        BY <2>3 DEF JobDies
      <3>2. Released(w)
        BY <1>0, <3>1, OffTyped, CheckerMoves DEF Released
      <3> QED BY <1>0, <2>1, <3>2, ReleaseStep
    <2> QED BY <1>5, <2>2, <2>3
  <1>6. ASSUME NEW w \in Checkers, NEW o \in AlertOwners, TakeUp(w, o) \/ DispatchAlert(w, o) PROVE AlertsInv'
    BY <1>6, TakeUpStep, DispatchStep
  <1>7. ASSUME NEW w \in Checkers, NEW o \in AlertOwners, RecordBreach(w, o) \/ Stamp(w, o) PROVE AlertsInv'
    <2>1. CASE SameRow(w, o)
      BY <1>7, <2>1, RecordStep, StampStep
    <2>2. CASE ~SameRow(w, o)
      <3>1. /\ day' = day /\ threshold' = threshold /\ tvl' = tvl /\ snapshot' = snapshot /\ history' = history
            /\ raced' = raced /\ edits' = edits /\ checks' = checks /\ sent' = sent /\ mishaps' = mishaps
            /\ checker[w].now # {} /\ Onward(w)
        BY <1>7, <2>2 DEF RecordBreach, Stamp, AtStep
      <3>2. Released(w)
        BY <1>0, <3>1, OnwardReleases
      <3> QED BY <1>0, <3>1, <3>2, ReleaseStep
    <2> QED BY <2>1, <2>2
  <1>8. CASE UNCHANGED alertVars
    BY <1>8 DEF alertVars, AlertsInv, AlertsTyped, LoopShape, RowsOwned, RunsDistinct, SeenBreached,
                RecordedFirst, HeldTogether, StampHeld, StampSent, LaterDay, OncePerDay, InHand, RowSeen,
                Exists, SameRow, Entry
  <1> QED BY <1>1, <1>2, <1>3, <1>4, <1>5, <1>6, <1>7, <1>8 DEF AlertsNext

\* Of the runs of the job in one behaviour of the clients.
LEMMA AlertsInvariant == ClientsSpec => [](focus = "alerts" => AlertsInv)
  <1>1. ClientsInit => AlertsInv
    BY AlertsInitial DEF ClientsInit
  <1>2. (focus = "alerts" => AlertsInv) /\ [ClientsNext]_clientVars => (focus = "alerts" => AlertsInv)'
    <2> SUFFICES ASSUME focus = "alerts" => AlertsInv, [ClientsNext]_clientVars, focus' = "alerts"
                 PROVE  AlertsInv'
      OBVIOUS
    <2>1. focus = "alerts" /\ [AlertsNext]_alertVars
      BY DEF ClientsNext, clientVars
    <2> QED BY <2>1, AlertsStep
  <1> QED BY <1>1, <1>2, PTL DEF ClientsSpec

\* An alert is recorded before it goes out, its TVL breached the threshold as the
\* owner had set it, and no threshold alerts twice in a day unless two runs of
\* the job read it at the same time (tvl-alert.service.ts), for any number of
\* owners, runs, days and failures.
THEOREM AlertsHoldCorrect == ClientsSpec => []AlertsHold
  <1>1. AlertsInv => AlertsTypeOK /\ AlertsRecorded
    <2> SUFFICES ASSUME AlertsInv PROVE AlertsTypeOK /\ AlertsRecorded
      OBVIOUS
    <2>1. AlertsTypeOK
      BY DEF AlertsInv, AlertsTyped, AlertsTypeOK, CheckerState, CheckerPcs
    <2>2. AlertsRecorded
      BY DEF AlertsInv, RecordedFirst, OncePerDay, AlertsRecorded
    <2> QED BY <2>1, <2>2
  <1>2. (focus = "alerts" => AlertsInv) => AlertsHold
    BY <1>1 DEF AlertsHold
  <1> QED BY <1>2, AlertsInvariant, PTL

-----------------------------------------------------------------------------
(* RequestGuards: what a session and a call with a key were let in with. *)

\* The session's pools are counted against the limit of whoever holds them, and
\* nobody holds none; an anonymous session is one the operator allowed.
SessionBounded ==
    /\ IsFiniteSet(session.held)
    /\ Cardinality(session.held) <= SubLimit(session.who)
    /\ session.who = NoWallet => session.held = {}
    /\ session.who = "anonymous" => Optional
    /\ "anonymous" \notin swept

\* A key found live is one that was live when its request arrived: revoking is for ever.
KeyFoundLive ==
    /\ keyCall.pc = "find" /\ keyRow = "live" => keyCall.live
    /\ keyCall.pc = "stamp" \/ keyCall.admitted => keyCall.live

AccessInv == AccessTypeOK /\ SessionBounded /\ KeyFoundLive

\* Of the claims 1 and 2 that are in a set, CHOOSE takes the first.
LEMMA FirstOfTwo ==
    ASSUME NEW S \in SUBSET (1..2), S # {}
    PROVE  LET f == CHOOSE i \in S : \A j \in S : i <= j
           IN  f \in S /\ (\A j \in S : f <= j) /\ \A i \in S : (\A j \in S : i <= j) => i = f
  <1>1. \A i \in S : i = 1 \/ i = 2
    OBVIOUS
  <1>2. \E i \in S : \A j \in S : i <= j
    <2>1. CASE 1 \in S
      BY <1>1, <2>1
    <2>2. CASE 1 \notin S
      <3>1. 2 \in S /\ \A j \in S : j = 2
        BY <1>1, <2>2
      <3> QED BY <3>1
    <2> QED BY <2>1, <2>2
  <1> DEFINE f == CHOOSE i \in S : \A j \in S : i <= j
  <1>3. f \in S /\ \A j \in S : f <= j
    BY <1>2
  <1> HIDE DEF f
  <1>4. ASSUME NEW i \in S, \A j \in S : i <= j PROVE i = f
    BY <1>1, <1>3, <1>4
  <1>5. f \in S /\ (\A j \in S : f <= j) /\ \A i \in S : (\A j \in S : i <= j) => i = f
    BY <1>3, <1>4
  <1> QED BY <1>5 DEF f

\* Where the first claim that is present is a text, it is the first text as well.
LEMMA FirstClaim ==
    ASSUME NEW claims \in [1..2 -> Claims], FirstPresent(claims) # NoWallet
    PROVE  FirstText(claims) = FirstPresent(claims) /\ FirstPresent(claims) \in Texts
  <1> DEFINE there == {i \in DOMAIN claims : claims[i] # Missing}
             texts == {i \in DOMAIN claims : claims[i] \in Texts}
             f == CHOOSE i \in there : \A j \in there : i <= j
             g == CHOOSE i \in texts : \A j \in texts : i <= j
  <1>1. there # {} /\ claims[f] \in Texts /\ FirstPresent(claims) = claims[f]
    BY DEF FirstPresent
  <1>2. there \in SUBSET (1..2) /\ texts \in SUBSET (1..2) /\ texts \subseteq there
    BY AddressesAssumption DEF Texts, Missing, Garbled
  <1>3. f \in there /\ \A j \in there : f <= j
    BY <1>1, <1>2, FirstOfTwo
  <1> QED BY <1>1, <1>2, <1>3, FirstOfTwo DEF FirstText

\* Whichever gate admits a token takes it for one wallet.
LEMMA CallerIsOne == OneCaller
  <1> SUFFICES ASSUME NEW token \in Token
               PROVE  /\ JwtAuth(token, hour) # NoWallet => Handshake(token, hour) = JwtAuth(token, hour)
                      /\ Privileged(token, hour) # NoWallet =>
                            Handshake(token, hour) = Privileged(token, hour)
                      /\ CurrentWallet(token, hour) \in {NoWallet, JwtAuth(token, hour)}
    BY DEF OneCaller
  <1>1. token.claims \in [1..2 -> Claims]
    BY DEF Token
  <1>2. FirstPresent(token.claims) # NoWallet => FirstText(token.claims) = FirstPresent(token.claims)
    BY <1>1, FirstClaim
  <1>3. JwtAuth(token, hour) # NoWallet =>
          /\ deploy.secret /\ Verified(token, hour)
          /\ JwtAuth(token, hour) = FirstPresent(token.claims)
    BY DEF JwtAuth
  <1>4. Privileged(token, hour) # NoWallet =>
          /\ deploy.secret /\ Verified(token, hour)
          /\ Privileged(token, hour) = FirstPresent(token.claims)
    BY DEF Privileged
  <1> QED BY <1>2, <1>3, <1>4 DEF Handshake, CurrentWallet

\* The wallet of a handshake is a text, so never "anonymous".
LEMMA HandshakeText ==
    ASSUME NEW token \in Token, Handshake(token, hour) # NoWallet
    PROVE  Handshake(token, hour) \in Texts /\ Handshake(token, hour) # "anonymous"
  <1> DEFINE texts == {i \in DOMAIN token.claims : token.claims[i] \in Texts}
             g == CHOOSE i \in texts : \A j \in texts : i <= j
  <1>1. texts \in SUBSET (1..2)
    BY DEF Token
  <1>2. Handshake(token, hour) = FirstText(token.claims) /\ FirstText(token.claims) # NoWallet
    BY DEF Handshake
  <1>3. texts # {} /\ FirstText(token.claims) = token.claims[g]
    BY <1>2 DEF FirstText
  <1>4. g \in texts
    BY <1>1, <1>3, FirstOfTwo
  <1> QED BY <1>2, <1>3, <1>4, AddressesAssumption DEF Texts, Garbled

LEMMA LimitTyped == \A who : SubLimit(who) \in Nat /\ SubLimit(who) <= WalletSubs /\ SubLimit("anonymous") <= AnonSubs
  BY AccessAssumption DEF SubLimit, AnonLimit

LEMMA AccessInitial == AccessInit => AccessInv
  <1> SUFFICES ASSUME AccessInit PROVE AccessInv
    OBVIOUS
  <1>1. AccessTypeOK /\ KeyFoundLive
    BY AccessAssumption DEF AccessInit, AccessTypeOK, KeyFoundLive, NoCall, Closed
  <1>2. SessionBounded
    BY LimitTyped, FS_EmptySet DEF AccessInit, SessionBounded, Closed, NoWallet
  <1> QED BY <1>1, <1>2 DEF AccessInv

\* What the handlers of the price socket do to a session.
LEMMA SessionStep ==
    ASSUME AccessInv, UNCHANGED <<deploy, keyRow, keyCall>>, hour' \in 0..LastHour,
           swept' \subseteq Texts, "anonymous" \notin swept',
           session' \in [who : {NoWallet, "anonymous"} \cup Texts, held : SUBSET PricePools],
           IsFiniteSet(session'.held), Cardinality(session'.held) <= SubLimit(session'.who),
           session'.who = NoWallet => session'.held = {},
           session'.who = "anonymous" => Optional
    PROVE  AccessInv'
  BY DEF AccessInv, AccessTypeOK, SessionBounded, KeyFoundLive, SubLimit, AnonLimit, Optional

LEMMA AccessStep == AccessInv /\ [AccessNext \/ KeyNext]_accessVars => AccessInv'
  <1> SUFFICES ASSUME AccessInv, [AccessNext \/ KeyNext]_accessVars PROVE AccessInv'
    OBVIOUS
  <1>0. AccessTypeOK /\ SessionBounded /\ KeyFoundLive
    BY DEF AccessInv
  <1>1. CASE HourPasses
    <2>1. hour' \in 0..LastHour
      BY <1>0, <1>1, AccessAssumption DEF HourPasses, AccessTypeOK
    <2> QED BY <1>0, <1>1, <2>1, SessionStep DEF HourPasses, AccessTypeOK, SessionBounded
  <1>2. ASSUME NEW token \in Token, ConnectAs(token) PROVE AccessInv'
    <2>1. /\ session' = [who |-> Handshake(token, hour), held |-> {}]
          /\ Handshake(token, hour) \in Texts /\ Handshake(token, hour) # "anonymous"
          /\ UNCHANGED <<deploy, hour, keyRow, keyCall, swept>>
      BY <1>2, HandshakeText DEF ConnectAs
    <2>2. /\ IsFiniteSet(session'.held) /\ Cardinality(session'.held) <= SubLimit(session'.who)
          /\ session'.held = {} /\ session'.who # "anonymous"
      BY <2>1, LimitTyped, FS_EmptySet
    <2> QED BY <1>0, <2>1, <2>2, SessionStep DEF AccessTypeOK, SessionBounded
  <1>3. CASE ConnectAnonymous \/ Disconnect
    <2>1. /\ session'.held = {} /\ session' \in [who : {NoWallet, "anonymous"}, held : {{}}]
          /\ session'.who = "anonymous" => Optional
          /\ UNCHANGED <<deploy, hour, keyRow, keyCall, swept>>
      BY <1>3 DEF ConnectAnonymous, Disconnect, Closed, NoWallet
    <2>2. IsFiniteSet(session'.held) /\ Cardinality(session'.held) <= SubLimit(session'.who)
      BY <2>1, LimitTyped, FS_EmptySet
    <2> QED BY <1>0, <2>1, <2>2, SessionStep DEF AccessTypeOK, SessionBounded
  <1>4. CASE AnnounceSwap
    BY <1>0, <1>4, SessionStep DEF AnnounceSwap, AccessTypeOK, SessionBounded
  <1>5. ASSUME NEW pool \in PricePools, Subscribe(pool) \/ Unsubscribe(pool) PROVE AccessInv'
    <2> DEFINE pools == session.held
    <2>1. /\ session \in [who : {NoWallet, "anonymous"} \cup Texts, held : SUBSET PricePools]
          /\ IsFiniteSet(pools) /\ Cardinality(pools) \in Nat /\ Cardinality(pools) <= SubLimit(session.who)
          /\ session # Closed /\ session = [who |-> session.who, held |-> pools]
      BY <1>0, <1>5, FS_CardinalityType DEF AccessTypeOK, SessionBounded, Subscribe, Unsubscribe
    <2>2. session.who # NoWallet
      BY <1>0, <2>1 DEF SessionBounded, Closed
    <2>3. UNCHANGED <<deploy, hour, keyRow, keyCall, swept>>
      BY <1>5 DEF Subscribe, Unsubscribe
    <2>4. CASE Subscribe(pool)
      <3>1. session' = [who |-> session.who, held |-> pools \cup {pool}]
        BY <2>1, <2>4 DEF Subscribe
      <3>2. Cardinality(pools) < SubLimit(session.who)
        BY <2>4 DEF Subscribe
      <3>3. /\ IsFiniteSet(pools \cup {pool})
            /\ Cardinality(pools \cup {pool}) \in {Cardinality(pools), Cardinality(pools) + 1}
        BY <2>1, FS_AddElement
      <3>4. SubLimit(session.who) \in Nat
        BY LimitTyped
      <3>5. IsFiniteSet(pools \cup {pool}) /\ Cardinality(pools \cup {pool}) <= SubLimit(session.who)
        BY <2>1, <3>2, <3>3, <3>4
      <3> QED BY <1>0, <2>1, <2>2, <2>3, <3>1, <3>5, SessionStep DEF AccessTypeOK, SessionBounded
    <2>5. CASE Unsubscribe(pool)
      <3>1. session' = [who |-> session.who, held |-> pools \ {pool}]
        BY <2>1, <2>5 DEF Unsubscribe
      <3>2. IsFiniteSet(pools \ {pool}) /\ Cardinality(pools \ {pool}) <= SubLimit(session.who)
        BY <2>1, FS_RemoveElement, LimitTyped
      <3> QED BY <1>0, <2>1, <2>2, <2>3, <3>1, <3>2, SessionStep DEF AccessTypeOK, SessionBounded
    <2> QED BY <1>5, <2>4, <2>5
  <1>6. CASE KeyNext
    <2>1. UNCHANGED <<deploy, hour, session, swept>>
      BY <1>6 DEF KeyNext, PresentKey, FindKey, StampKey, RevokeKey
    <2>2. SessionBounded'
      BY <1>0, <2>1 DEF SessionBounded, SubLimit, AnonLimit, Optional
    <2>3. AccessTypeOK' /\ KeyFoundLive'
      BY <1>0, <1>6, <2>1 DEF AccessTypeOK, KeyFoundLive, KeyNext, PresentKey, FindKey, StampKey, RevokeKey, NoCall
    <2> QED BY <2>2, <2>3 DEF AccessInv
  <1>7. CASE UNCHANGED accessVars
    BY <1>7 DEF accessVars, AccessInv, AccessTypeOK, SessionBounded, KeyFoundLive, SubLimit, AnonLimit, Optional
  <1> QED BY <1>1, <1>2, <1>3, <1>4, <1>5, <1>6, <1>7 DEF AccessNext

LEMMA AccessInvariant == ClientsSpec => []AccessInv
  <1>1. ClientsInit => AccessInv
    BY AccessInitial DEF ClientsInit
  <1>2. AccessInv /\ [ClientsNext]_clientVars => AccessInv'
    <2>1. ASSUME [ClientsNext]_clientVars PROVE [AccessNext \/ KeyNext]_accessVars
      BY <2>1 DEF ClientsNext, clientVars
    <2> QED BY <2>1, AccessStep
  <1> QED BY <1>1, <1>2, PTL DEF ClientsSpec

\* Every gate takes a token for the same wallet, a session holds what the operator
\* allows it, and a key revoked before a request arrived does not admit it
\* (jwt-auth.guard.ts, ws-auth-policy.ts, price.gateway.ts, api-key.guard.ts), for
\* any addresses, pools, limits and times.
THEOREM AccessHoldsCorrect == ClientsSpec => []AccessHolds
  <1>1. AccessInv => AccessHolds
    <2> SUFFICES ASSUME AccessInv PROVE AccessTypeOK /\ OneCaller /\ AccessBounded
      BY DEF AccessHolds
    <2>1. Cardinality(session.held) \in Nat
      BY FS_CardinalityType DEF AccessInv, SessionBounded
    <2>2. /\ session.who = "anonymous" => Cardinality(session.held) <= AnonSubs
          /\ Cardinality(session.held) <= WalletSubs
      BY <2>1, LimitTyped, AccessAssumption DEF AccessInv, SessionBounded
    <2>3. AccessBounded
      <3>1. session.who = "anonymous" => deploy.mode = "optional" /\ (deploy.mainnet => deploy.anonMainnet)
        BY DEF AccessInv, SessionBounded, Optional
      <3>2. "anonymous" \notin swept /\ (keyCall.admitted => keyCall.live)
        BY DEF AccessInv, SessionBounded, KeyFoundLive
      <3> QED BY <2>2, <3>1, <3>2 DEF AccessBounded
    <2> QED BY <2>3, CallerIsOne DEF AccessInv
  <1> QED BY <1>1, AccessInvariant, PTL

-----------------------------------------------------------------------------
(* SwapForm: a click is a check or a swap, never two, and takes what it saw   *)
(* with it; a dialog that is not there has no state and no check of its own.  *)

PairState == [in : FormTokens \cup {None}, out : FormTokens \cup {None}]
EntryState == [mode : {"exactIn", "exactOut"}, exactIn : 0..MaxAmount, exactOut : 0..MaxAmount,
               bps : Presets \cup TypedBps]
DialogState == [status : {"idle", "signing", "submitting", "pending", "error"},
                why : {None, "rejected", "network", "slippage", "failed"}, mismatch : BOOLEAN]
Offers == [mode : {"exactIn", "exactOut"}, pair : PairState, bps : Presets \cup TypedBps,
           quote : Int, amount : 0..MaxAmount]
Looks == [kind : {"look"}, here : BOOLEAN]
Checks == [kind : {"confirm"}, here : BOOLEAN, number : Nat, seen : Offers]
Swaps == [number : Nat, offer : Offers, abroad : BOOLEAN, seen : Offers, here : BOOLEAN]

\* What is on the form.
FieldsTyped ==
    /\ pair \in PairState
    /\ entry \in EntryState
    /\ live \in [loading : BOOLEAN, quote : 0..MaxAmount]
    /\ purse \in [address : BOOLEAN, abroad : BOOLEAN]
    /\ show \in BOOLEAN
    /\ recents \in Seq(FormTokens) /\ Len(recents) <= RecentMax

ClicksTyped ==
    /\ dialog \in DialogState
    /\ lookups \subseteq Looks \cup Checks
    /\ calls \in Seq(Swaps)
    /\ clicks \in Nat

\* The clicks so far number the checks and the swaps, each its own.
ClicksNumbered ==
    /\ \A h \in lookups : h.kind = "confirm" => h.number <= clicks
    /\ \A g, h \in lookups : g.kind = "confirm" /\ h.kind = "confirm" /\ g.number = h.number => g = h
    /\ \A i \in DOMAIN calls : calls[i].number <= clicks
    /\ \A h \in lookups, i \in DOMAIN calls : h.kind = "confirm" => h.number # calls[i].number

NoDialog == ~Mounted => dialog = Fresh /\ \A h \in lookups : ~h.here

FormInv == FieldsTyped /\ ClicksTyped /\ ClicksNumbered /\ NoDialog /\ ConfirmedAsShown

\* A dialog that goes takes no click with it and hands none over.
LEMMA OrphansTyped ==
    /\ \A r \in Looks \cup Checks :
         /\ Orphaned(r) \in Looks \cup Checks /\ Orphaned(r).kind = r.kind /\ ~Orphaned(r).here
         /\ r.kind = "confirm" => r \in Checks /\ Orphaned(r).number = r.number
    /\ \A r \in Swaps : /\ Orphaned(r) \in Swaps /\ Orphaned(r).number = r.number
                        /\ Orphaned(r).offer = r.offer /\ Orphaned(r).seen = r.seen
                        /\ Orphaned(r).abroad = r.abroad
    /\ Look \in Looks /\ Look.kind = "look"
  BY DEF Orphaned, Looks, Checks, Swaps, Look

LEMMA RenderKeeps ==
    ASSUME FormInv, FieldsTyped', Render(dialog, calls, lookups), clicks' = clicks
    PROVE  FormInv'
  <1>0. FieldsTyped /\ ClicksTyped /\ ClicksNumbered /\ NoDialog /\ ConfirmedAsShown
    BY DEF FormInv
  <1>1. Mounted \in BOOLEAN /\ Mounted' \in BOOLEAN
    BY DEF Mounted
  <1>2. dialog' \in DialogState /\ (~Mounted' => dialog' = Fresh)
    BY <1>0 DEF Render, ClicksTyped, DialogState, Fresh, None
  <1>3. CASE Mounted = Mounted'
    <2>1. lookups' = lookups /\ calls' = calls
      BY <1>3 DEF Render
    <2>2. CASE Mounted'
      BY <1>0, <1>2, <2>1, <2>2 DEF FormInv, ClicksTyped, ClicksNumbered, NoDialog, ConfirmedAsShown
    <2>3. CASE ~Mounted'
      <3>1. ~Mounted
        BY <1>1, <1>3, <2>3
      <3> QED BY <1>0, <1>2, <2>1, <3>1 DEF FormInv, ClicksTyped, ClicksNumbered, NoDialog, ConfirmedAsShown
    <2> QED BY <2>2, <2>3
  <1>4. CASE Mounted # Mounted'
    <2>1. /\ lookups' = {Orphaned(h) : h \in lookups} \cup IF Mounted' THEN {Look} ELSE {}
          /\ calls' = [i \in DOMAIN calls |-> Orphaned(calls[i])]
      BY <1>4 DEF Render
    <2>2. ClicksTyped'
      BY <1>0, <1>2, <2>1, OrphansTyped DEF ClicksTyped
    <2>3. /\ DOMAIN calls' = DOMAIN calls
          /\ \A i \in DOMAIN calls : /\ calls'[i].number = calls[i].number
                                     /\ calls'[i].offer = calls[i].offer
                                     /\ calls'[i].seen = calls[i].seen
                                     /\ calls'[i].abroad = calls[i].abroad
      BY <1>0, <2>1, OrphansTyped DEF ClicksTyped
    <2>4. \A h \in lookups' : h.kind = "confirm" =>
             \E g \in lookups : g.kind = "confirm" /\ h = Orphaned(g) /\ h.number = g.number
      BY <1>0, <2>1, OrphansTyped DEF ClicksTyped
    <2>5. ClicksNumbered'
      BY <1>0, <2>3, <2>4 DEF ClicksNumbered
    <2>6. NoDialog'
      BY <1>0, <1>2, <2>1, OrphansTyped DEF NoDialog, ClicksTyped
    <2>7. ConfirmedAsShown'
      BY <1>0, <2>3 DEF ConfirmedAsShown
    <2> QED BY <2>2, <2>5, <2>6, <2>7 DEF FormInv
  <1> QED BY <1>3, <1>4

\* The fields that a step may leave as they are.
LEMMA OfferTyped == FieldsTyped => Offer \in Offers
  <1> SUFFICES ASSUME FieldsTyped PROVE Offer \in Offers
    OBVIOUS
  <1>1. Cost(entry.exactOut) \in Int
    <2> DEFINE out == entry.exactOut
    <2>1. out \in Int /\ Reserve \in Int /\ Reserve * out \in Int
      BY SwapFormAssumption DEF FieldsTyped, EntryState
    <2>2. CASE out >= Reserve
      BY <2>2 DEF Cost
    <2>3. CASE ~(out >= Reserve)
      <3>1. Reserve - out \in Int /\ Reserve - out > 0
        BY <2>1, <2>3
      <3>2. (Reserve * out) \div (Reserve - out) \in Int
        BY <2>1, <3>1
      <3> QED BY <2>3, <3>2 DEF Cost
    <2> QED BY <2>2, <2>3
  <1>2. Quote \in Int
    BY <1>1, SwapFormAssumption DEF Quote, FieldsTyped
  <1> QED BY <1>2 DEF Offer, Offers, FieldsTyped, EntryState

LEMMA RecallTyped ==
    ASSUME FieldsTyped, NEW t \in FormTokens, Recall(t)
    PROVE  recents' \in Seq(FormTokens) /\ Len(recents') <= RecentMax
  <1> DEFINE before == {i \in DOMAIN recents : \A j \in 1..i : recents[j] # t}
             room == IF t \in {recents[i] : i \in DOMAIN recents} THEN Len(recents)
                     ELSE IF Len(recents) < RecentMax THEN Len(recents) + 1 ELSE RecentMax
  <1>1. recents' = [i \in 1..room |-> IF i = 1 THEN t
                                      ELSE IF i - 1 \in before THEN recents[i - 1] ELSE recents[i]]
    BY DEF Recall
  <1>2. recents \in Seq(FormTokens) /\ Len(recents) \in Nat /\ Len(recents) <= RecentMax /\ RecentMax \in Nat
    BY SwapFormAssumption DEF FieldsTyped
  <1>3. room \in Nat /\ room <= RecentMax
    BY <1>2
  <1>4. ASSUME NEW i \in 1..room, i # 1, i - 1 \notin before PROVE i \in DOMAIN recents
    <2>1. CASE i <= Len(recents)
      BY <1>2, <2>1
    <2>2. CASE i > Len(recents)
      <3>1. i - 1 = Len(recents) /\ i - 1 \in DOMAIN recents
        BY <1>2, <1>3, <1>4, <2>2
      <3>2. PICK j \in 1..i - 1 : recents[j] = t
        BY <1>4, <3>1
      <3>3. t \in {recents[k] : k \in DOMAIN recents}
        BY <1>2, <3>1, <3>2
      <3> QED BY <1>2, <2>2, <3>3
    <2> QED BY <1>2, <2>1, <2>2
  <1>5. ASSUME NEW i \in 1..room
        PROVE  (IF i = 1 THEN t ELSE IF i - 1 \in before THEN recents[i - 1] ELSE recents[i]) \in FormTokens
    BY <1>2, <1>4
  <1> HIDE DEF room, before
  <1> QED BY <1>1, <1>3, <1>5

\* The steps that change the form and render it.
LEMMA FormChanges ==
    ASSUME FormInv,
           \/ \E side \in {"in", "out"}, t \in FormTokens : SelectToken(side, t)
           \/ SwapDirection \/ EnterAmount \/ ToggleMode \/ SetSlippage
           \/ QuoteArrives \/ WalletChanges \/ PressSwap \/ CloseDialog \/ Succeed
    PROVE  FormInv'
  <1>0. FieldsTyped
    BY DEF FormInv
  <1>1. Render(dialog, calls, lookups) /\ clicks' = clicks
    BY DEF SelectToken, SwapDirection, EnterAmount, ToggleMode, SetSlippage, QuoteArrives, WalletChanges,
           PressSwap, CloseDialog, Succeed
  <1> DEFINE Lives == [loading : BOOLEAN, quote : 0..MaxAmount]
             Purses == [address : BOOLEAN, abroad : BOOLEAN]
  <1>t. /\ pair \in PairState /\ entry \in EntryState /\ live \in Lives /\ purse \in Purses
        /\ show \in BOOLEAN
    BY <1>0 DEF FieldsTyped
  <1>2. ASSUME live' = live \/ Reload PROVE live' \in Lives
    <2>1. 0 \in 0..MaxAmount
      BY SwapFormAssumption
    <2>2. [live EXCEPT !.loading = TRUE] \in Lives /\ [loading |-> FALSE, quote |-> 0] \in Lives
      BY <1>t, <2>1
    <2> QED BY <1>t, <1>2, <2>2 DEF Reload
  <1>c. ASSUME pair' \in PairState, entry' \in EntryState, live' \in Lives, purse' \in Purses,
               show' \in BOOLEAN, recents' = recents
        PROVE  FieldsTyped'
    <2>1. recents' \in Seq(FormTokens) /\ Len(recents') <= RecentMax
      BY <1>0, <1>c DEF FieldsTyped
    <2> QED BY <1>c, <2>1 DEF FieldsTyped
  <1>r. FieldsTyped' => FormInv'
    BY <1>1, RenderKeeps
  <1> HIDE DEF Lives, Purses
  <1>3. ASSUME NEW f \in {"exactIn", "exactOut"}, NEW n \in 0..MaxAmount, entry' = [entry EXCEPT ![f] = n]
        PROVE  entry' \in EntryState
    <2>1. CASE f = "exactIn"
      BY <1>0, <1>3, <2>1 DEF FieldsTyped, EntryState
    <2>2. CASE f = "exactOut"
      BY <1>0, <1>3, <2>2 DEF FieldsTyped, EntryState
    <2> QED BY <2>1, <2>2
  <1>4. ASSUME NEW side \in {"in", "out"}, NEW t \in FormTokens, SelectToken(side, t) PROVE FieldsTyped'
    <2>1. pair' \in PairState
      <3>1. CASE side = "in"
        BY <1>0, <1>4, <3>1 DEF SelectToken, FieldsTyped, PairState
      <3>2. CASE side = "out"
        BY <1>0, <1>4, <3>2 DEF SelectToken, FieldsTyped, PairState
      <3> QED BY <3>1, <3>2
    <2>2. recents' \in Seq(FormTokens) /\ Len(recents') <= RecentMax
      BY <1>0, <1>4, RecallTyped DEF SelectToken
    <2>3. entry' = entry /\ purse' = purse /\ show' = show /\ (live' = live \/ Reload)
      BY <1>4 DEF SelectToken
    <2> QED BY <1>t, <1>2, <2>1, <2>2, <2>3 DEF FieldsTyped, Lives, Purses
  <1>5. CASE SwapDirection
    <2>1. /\ pair' = [in |-> pair.out, out |-> pair.in]
          /\ recents' = recents /\ purse' = purse /\ show' = show /\ (live' = live \/ Reload)
      BY <1>5 DEF SwapDirection
    <2>2. PICK n \in 0..MaxAmount : entry' = [entry EXCEPT !["exactIn"] = n]
      BY <1>5 DEF SwapDirection
    <2>3. pair' \in PairState
      BY <1>t, <2>1 DEF PairState
    <2>4. entry' \in EntryState
      BY <1>3, <2>2
    <2> QED BY <1>t, <1>2, <1>c, <1>r, <2>1, <2>3, <2>4
  <1>6. CASE EnterAmount
    <2>1. /\ pair' = pair /\ recents' = recents /\ purse' = purse /\ show' = show
          /\ (live' = live \/ Reload) /\ entry.mode \in {"exactIn", "exactOut"}
      BY <1>0, <1>6 DEF EnterAmount, FieldsTyped, EntryState
    <2>2. PICK n \in 0..MaxAmount : entry' = [entry EXCEPT ![entry.mode] = n]
      BY <1>6 DEF EnterAmount
    <2> QED BY <1>t, <1>2, <1>3, <1>c, <1>r, <2>1, <2>2
  <1>7. CASE ToggleMode
    <2>1. /\ entry' = [entry EXCEPT !.mode = IF @ = "exactIn" THEN "exactOut" ELSE "exactIn"]
          /\ UNCHANGED <<pair, live, recents, purse, show>>
      BY <1>7 DEF ToggleMode
    <2>2. entry' \in EntryState
      BY <1>t, <2>1 DEF EntryState
    <2> QED BY <1>t, <1>c, <1>r, <2>1, <2>2
  <1>8. CASE SetSlippage
    <2>1. /\ pair' = pair /\ recents' = recents /\ purse' = purse /\ show' = show /\ Reload
      BY <1>8 DEF SetSlippage
    <2>2. entry' \in EntryState
      BY <1>t, <1>8 DEF SetSlippage, EntryState
    <2> QED BY <1>t, <1>2, <1>c, <1>r, <2>1, <2>2
  <1>9. CASE QuoteArrives \/ WalletChanges \/ PressSwap \/ CloseDialog
    <2>1. UNCHANGED <<pair, entry, recents>>
      BY <1>9 DEF QuoteArrives, WalletChanges, PressSwap, CloseDialog
    <2>2. live' \in Lives
      <3>1. live' = live \/ \E price \in 0..MaxAmount : live' = [loading |-> FALSE, quote |-> price]
        BY <1>9 DEF QuoteArrives, WalletChanges, PressSwap, CloseDialog
      <3>2. \A price \in 0..MaxAmount : [loading |-> FALSE, quote |-> price] \in Lives
        BY DEF Lives
      <3> QED BY <1>t, <3>1, <3>2
    <2>3. purse' \in Purses
      BY <1>t, <1>9 DEF QuoteArrives, WalletChanges, PressSwap, CloseDialog, Purses
    <2>4. show' \in BOOLEAN
      BY <1>t, <1>9 DEF QuoteArrives, WalletChanges, PressSwap, CloseDialog
    <2> QED BY <1>t, <1>c, <1>r, <2>1, <2>2, <2>3, <2>4
  <1>10. CASE Succeed
    <2>1. /\ pair' = pair /\ recents' = recents /\ purse' = purse /\ show' = FALSE
          /\ (live' = live \/ Reload) /\ entry.mode \in {"exactIn", "exactOut"}
          /\ entry' = [entry EXCEPT ![entry.mode] = 0] /\ 0 \in 0..MaxAmount
      BY <1>0, <1>10, SwapFormAssumption DEF Succeed, FieldsTyped, EntryState
    <2>2. entry' \in EntryState
      BY <1>3, <2>1
    <2> QED BY <1>t, <1>2, <1>c, <1>r, <2>1, <2>2
  <1> QED BY <1>r, <1>4, <1>5, <1>6, <1>7, <1>8, <1>9, <1>10

LEMMA SwapFormInitial == SwapFormInit => FormInv
  <1> SUFFICES ASSUME SwapFormInit PROVE FormInv
    OBVIOUS
  <1>1. FieldsTyped
    <2>1. 0 \in 0..MaxAmount /\ RecentMax \in Nat
      BY SwapFormAssumption
    <2>2. pair \in PairState /\ entry \in EntryState
      BY <2>1 DEF SwapFormInit, PairState, EntryState, Presets
    <2>3. recents \in Seq(FormTokens) /\ Len(recents) <= RecentMax
      BY <2>1 DEF SwapFormInit
    <2> QED BY <2>1, <2>2, <2>3 DEF SwapFormInit, FieldsTyped
  <1>2. ClicksTyped /\ NoDialog
    BY DEF SwapFormInit, ClicksTyped, NoDialog, Fresh, DialogState, None
  <1>3. ClicksNumbered /\ ConfirmedAsShown
    BY DEF SwapFormInit, ClicksNumbered, ConfirmedAsShown
  <1> QED BY <1>1, <1>2, <1>3 DEF FormInv

LEMMA SwapFormStep == FormInv /\ [SwapFormNext]_formVars => FormInv'
  <1> SUFFICES ASSUME FormInv, [SwapFormNext]_formVars PROVE FormInv'
    OBVIOUS
  <1>0. FieldsTyped /\ ClicksTyped /\ ClicksNumbered /\ NoDialog /\ ConfirmedAsShown
    BY DEF FormInv
  <1>1. ASSUME UNCHANGED <<pair, entry, live, recents, purse, show>>
        PROVE  FieldsTyped' /\ Mounted' = Mounted
    BY <1>0, <1>1 DEF FieldsTyped, Mounted, HasBoth, Quote, Cost
  <1>n. /\ \A g \in lookups : g.kind = "confirm" => g.number \in Nat /\ g.number <= clicks
        /\ \A i \in DOMAIN calls : calls[i].number \in Nat /\ calls[i].number <= clicks
        /\ clicks \in Nat
    <2>1. \A g \in Looks \cup Checks : g.kind = "confirm" => g.number \in Nat
      BY DEF Looks, Checks
    <2>2. \A i \in DOMAIN calls : calls[i] \in Swaps
      BY <1>0 DEF ClicksTyped
    <2>3. \A r \in Swaps : r.number \in Nat
      BY DEF Swaps
    <2> QED BY <1>0, <2>1, <2>2, <2>3 DEF ClicksTyped, ClicksNumbered
  <1>2. CASE RegainFocus
    <2>1. /\ lookups' = lookups \cup {Look} /\ Mounted
          /\ UNCHANGED <<pair, entry, live, recents, purse, show, dialog, calls, clicks>>
      BY <1>2 DEF RegainFocus
    <2>2. FieldsTyped' /\ ClicksTyped' /\ ConfirmedAsShown'
      BY <1>0, <1>1, <2>1, OrphansTyped DEF ClicksTyped, ConfirmedAsShown
    <2>3. ClicksNumbered'
      BY <1>0, <2>1, OrphansTyped DEF ClicksNumbered
    <2>4. NoDialog'
      BY <1>1, <2>1 DEF NoDialog
    <2> QED BY <2>2, <2>3, <2>4 DEF FormInv
  <1>3. CASE ClickConfirm
    <2> DEFINE h == [kind |-> "confirm", here |-> TRUE, number |-> clicks', seen |-> Offer]
    <2>1. /\ lookups' = lookups \cup {h} /\ Mounted /\ clicks' = clicks + 1
          /\ UNCHANGED <<pair, entry, live, recents, purse, show, dialog, calls>>
      BY <1>3 DEF ClickConfirm, Click
    <2>2. h \in Checks /\ h.kind = "confirm" /\ h.number = clicks + 1
      BY <1>0, <2>1, OfferTyped DEF ClicksTyped, Checks
    <2> HIDE DEF h
    <2>3. FieldsTyped' /\ ClicksTyped' /\ ConfirmedAsShown'
      BY <1>0, <1>1, <2>1, <2>2 DEF ClicksTyped, ConfirmedAsShown
    <2>4. /\ \A g \in lookups : g.kind = "confirm" => g.number \in Nat /\ g.number <= clicks
          /\ \A i \in DOMAIN calls : calls[i].number \in Nat /\ calls[i].number <= clicks
      BY <1>n
    <2>5. ClicksNumbered'
      BY <1>0, <2>1, <2>2, <2>4 DEF ClicksNumbered, ClicksTyped
    <2>6. NoDialog'
      BY <1>1, <2>1 DEF NoDialog
    <2> QED BY <2>3, <2>5, <2>6 DEF FormInv
  <1>4. ASSUME NEW h \in lookups, CheckEnds(h) PROVE FormInv'
    <2>1. /\ lookups' = lookups \ {h}
          /\ UNCHANGED <<pair, entry, live, recents, purse, show, clicks>>
      BY <1>4 DEF CheckEnds
    <2>2. PICK result \in {IF purse.abroad THEN "abroad" ELSE "same", "failed"} :
             LET seen == IF h.here /\ result # "failed"
                         THEN [dialog EXCEPT !.mismatch = (result = "abroad")] ELSE dialog IN
             IF Proceed(h, result)
             THEN /\ dialog' = IF h.here THEN [seen EXCEPT !.status = "signing"] ELSE seen
                  /\ calls' = Submit(h, result = "abroad")
             ELSE dialog' = seen /\ UNCHANGED calls
      BY <1>4 DEF CheckEnds
    <2>3. dialog' \in DialogState /\ (~h.here => dialog' = dialog)
      BY <1>0, <2>2 DEF ClicksTyped, DialogState
    <2>4. NoDialog'
      BY <1>0, <1>1, <2>1, <2>3 DEF NoDialog
    <2>5. CASE calls' = calls
      <3>1. ClicksTyped' /\ ClicksNumbered' /\ ConfirmedAsShown'
        BY <1>0, <2>1, <2>3, <2>5 DEF ClicksTyped, ClicksNumbered, ConfirmedAsShown
      <3> QED BY <1>1, <2>1, <2>4, <3>1 DEF FormInv
    <2>6. CASE calls' # calls
      <3> DEFINE c == Called(h.number, h.seen, FALSE, h.seen, h.here)
      <3>1. h.kind = "confirm" /\ result # "abroad"
        BY <2>2, <2>6 DEF Proceed
      <3>2. calls' = Append(calls, c)
        BY <2>2, <2>6, <3>1 DEF Submit
      <3>3. h \in Checks
        BY <1>0, <3>1 DEF ClicksTyped, Looks
      <3>4. /\ c \in Swaps /\ c.offer = c.seen /\ ~c.abroad /\ c.number = h.number
            /\ h.number \in Nat /\ h.number <= clicks
        BY <1>0, <3>1, <3>3 DEF Called, Checks, Swaps, ClicksNumbered
      <3> HIDE DEF c
      <3>5. ClicksTyped'
        BY <1>0, <2>1, <2>3, <3>2, <3>4 DEF ClicksTyped
      <3>6. /\ DOMAIN calls' = DOMAIN calls \cup {Len(calls) + 1}
            /\ \A i \in DOMAIN calls : calls'[i] = calls[i]
            /\ calls'[Len(calls) + 1] = c
        BY <1>0, <3>2, <3>4 DEF ClicksTyped
      <3>7. ClicksNumbered'
        BY <1>0, <2>1, <3>1, <3>4, <3>6 DEF ClicksNumbered
      <3>8. ConfirmedAsShown'
        BY <1>0, <3>1, <3>4, <3>6 DEF ConfirmedAsShown, ClicksNumbered
      <3> QED BY <1>1, <2>1, <2>4, <3>5, <3>7, <3>8 DEF FormInv
    <2> QED BY <2>5, <2>6
  <1>5. CASE Advance \/ Fail
    <2>1. UNCHANGED <<pair, entry, live, recents, purse, show, lookups, calls, clicks>>
      BY <1>5 DEF Advance, Fail
    <2>2. dialog' \in DialogState /\ dialog # Fresh
      <3>1. dialog \in DialogState
        BY <1>0 DEF ClicksTyped
      <3>2. CASE Advance
        <4>1. dialog.status # "idle" /\ \E st \in {"submitting", "pending"} : dialog' = [dialog EXCEPT !.status = st]
          BY <3>2 DEF Advance, Busy
        <4> QED BY <3>1, <4>1 DEF DialogState, Fresh
      <3>3. CASE Fail
        <4>1. PICK end \in {<<"signing", "rejected">>, <<"submitting", "network">>,
                            <<"pending", "slippage">>, <<"pending", "failed">>} :
                 /\ dialog.status = end[1]
                 /\ dialog' = [dialog EXCEPT !.status = "error", !.why = end[2]]
          BY <3>3 DEF Fail
        <4>2. end[1] # "idle" /\ end[2] \in {None, "rejected", "network", "slippage", "failed"}
          OBVIOUS
        <4>3. dialog' \in DialogState
          BY <3>1, <4>1, <4>2 DEF DialogState
        <4> QED BY <4>1, <4>2, <4>3 DEF Fresh
      <3> QED BY <1>5, <3>2, <3>3
    <2>3. FieldsTyped' /\ ClicksTyped' /\ ClicksNumbered' /\ ConfirmedAsShown'
      BY <1>0, <1>1, <2>1, <2>2 DEF ClicksTyped, ClicksNumbered, ConfirmedAsShown
    <2>4. NoDialog'
      BY <1>0, <1>1, <2>1, <2>2 DEF NoDialog
    <2> QED BY <2>3, <2>4 DEF FormInv
  <1>6. CASE ClickRetry
    <2> DEFINE c == Called(clicks', Offer, FALSE, Offer, TRUE)
    <2>1. /\ calls' = Append(calls, c) /\ Mounted /\ clicks' = clicks + 1
          /\ dialog' = [dialog EXCEPT !.status = "signing", !.why = None]
          /\ UNCHANGED <<pair, entry, live, recents, purse, show, lookups>>
      BY <1>6 DEF ClickRetry, Click
    <2>2. c \in Swaps /\ c.offer = c.seen /\ ~c.abroad /\ c.number = clicks + 1
      BY <1>0, <2>1, OfferTyped DEF ClicksTyped, Swaps, Called
    <2> HIDE DEF c
    <2>3. ClicksTyped'
      <3>1. dialog' \in DialogState
        BY <1>0, <2>1 DEF ClicksTyped, DialogState
      <3> QED BY <1>0, <2>1, <2>2, <3>1 DEF ClicksTyped
    <2>4. /\ \A g \in lookups : g.kind = "confirm" => g.number \in Nat /\ g.number <= clicks
          /\ \A i \in DOMAIN calls : calls[i].number \in Nat /\ calls[i].number <= clicks
          /\ clicks \in Nat
      BY <1>n
    <2>5. /\ DOMAIN calls' = DOMAIN calls \cup {Len(calls) + 1}
          /\ \A i \in DOMAIN calls : calls'[i] = calls[i]
          /\ calls'[Len(calls) + 1] = c
      BY <1>0, <2>1, <2>2 DEF ClicksTyped
    <2>6. ClicksNumbered'
      BY <1>0, <2>1, <2>2, <2>4, <2>5 DEF ClicksNumbered
    <2>7. ConfirmedAsShown'
      BY <1>0, <2>2, <2>4, <2>5 DEF ConfirmedAsShown
    <2>8. NoDialog'
      BY <1>1, <2>1 DEF NoDialog
    <2> QED BY <1>1, <2>1, <2>3, <2>6, <2>7, <2>8 DEF FormInv
  <1>7. CASE UNCHANGED formVars
    <2>1. UNCHANGED <<pair, entry, live, recents, purse, show, dialog, lookups, calls, clicks>>
      BY <1>7 DEF formVars
    <2>2. ClicksTyped' /\ ClicksNumbered' /\ ConfirmedAsShown'
      BY <1>0, <2>1 DEF ClicksTyped, ClicksNumbered, ConfirmedAsShown
    <2> QED BY <1>0, <1>1, <2>1, <2>2 DEF FormInv, NoDialog
  <1> QED BY <1>2, <1>3, <1>4, <1>5, <1>6, <1>7, FormChanges DEF SwapFormNext

\* What the picker shows is arithmetic of two sets.
LEMMA PickerIsWhole == PickerWhole
  <1> SUFFICES ASSUME NEW selected \in FormTokens \cup {None}, NEW t \in FormTokens
               PROVE  /\ PickerRows(t, [typed |-> FALSE, hits |-> FormTokens], selected) = 1
                      /\ \A hits \in SUBSET FormTokens :
                           t \in hits => PickerRows(t, [typed |-> TRUE, hits |-> hits], selected) > 0
    BY DEF PickerWhole
  <1>1. CASE t \in Recent(selected)
    BY <1>1 DEF PickerRows
  <1>2. CASE t \notin Recent(selected)
    BY <1>2 DEF PickerRows
  <1> QED BY <1>1, <1>2

LEMMA SwapHolds == FormInv => SwapFormTypeOK /\ ConfirmedAsShown /\ PickerWhole
  BY PickerIsWhole DEF FormInv, FieldsTyped, ClicksTyped, NoDialog, PairState, EntryState, DialogState,
                       SwapFormTypeOK

-----------------------------------------------------------------------------
(* AccountScreens, the webhooks: HooksHold is inductive once requests have   *)
(* their types.                                                              *)

HookLists == [kind : {"list"}, hook : {Nobody}, of : Owners, served : BOOLEAN,
          seen : SUBSET Hooks, round : Nat, live : BOOLEAN]
Changes == [kind : {"create", "remove"}, hook : Hooks, of : Owners, served : BOOLEAN,
            seen : SUBSET Hooks, round : Nat, live : BOOLEAN]
Orders == HookLists \cup Changes

HooksTyped ==
    /\ holder \in Owners \cup {Nobody}
    /\ table \in [Owners -> SUBSET Hooks]
    /\ items \subseteq Hooks
    /\ orders \subseteq Orders
    /\ placed \in Nat

HooksInv == HooksTyped /\ HooksHold

LEMMA OrderMoves ==
    /\ \A r \in Orders, s \in SUBSET Hooks :
         /\ [r EXCEPT !.served = TRUE, !.seen = s] \in Orders
         /\ [r EXCEPT !.served = TRUE, !.seen = s].live = r.live
    /\ \A r \in Orders : [r EXCEPT !.live = FALSE] \in Orders
    /\ \A o \in Owners, n \in Nat : List(o, n) \in Orders /\ List(o, n).live
  <1>1. \A r \in Orders, s \in SUBSET Hooks :
           /\ [r EXCEPT !.served = TRUE, !.seen = s] \in Orders
           /\ [r EXCEPT !.served = TRUE, !.seen = s].live = r.live
    BY DEF Orders, HookLists, Changes
  <1>2. \A r \in Orders : [r EXCEPT !.live = FALSE] \in Orders
    BY DEF Orders, HookLists, Changes
  <1>3. \A o \in Owners, n \in Nat : List(o, n) \in Orders /\ List(o, n).live
    BY DEF Orders, HookLists, Changes, List
  <1> QED BY <1>1, <1>2, <1>3

LEMMA HooksStep == HooksInv /\ [HooksNext]_hookVars => HooksInv'
  <1> SUFFICES ASSUME HooksInv, [HooksNext]_hookVars PROVE HooksInv'
    OBVIOUS
  <1>0. HooksTyped /\ HooksHold
    BY DEF HooksInv
  <1>1. CASE TokenChanges
    <2> DEFINE cancelled == {IF r.kind = "list" /\ r.round = 0 THEN [r EXCEPT !.live = FALSE] ELSE r : r \in orders}
    <2>1. PICK o \in (Owners \cup {Nobody}) \ {holder} :
             /\ holder' = o
             /\ IF o = Nobody
                THEN items' = {} /\ orders' = cancelled /\ UNCHANGED <<spinner, failed>>
                ELSE /\ spinner' = TRUE /\ failed' = FALSE
                     /\ orders' = cancelled \cup {List(o, 0)}
                     /\ UNCHANGED items
      BY <1>1 DEF TokenChanges
    <2>2. cancelled \subseteq Orders
      BY <1>0, OrderMoves DEF HooksTyped
    <2>3. table' = table /\ placed' = placed + 1
      BY <1>1 DEF TokenChanges
    <2> HIDE DEF cancelled
    <2>4. CASE o = Nobody
      BY <1>0, <2>1, <2>2, <2>3, <2>4 DEF HooksInv, HooksTyped, HooksHold
    <2>5. CASE o # Nobody
      <3>1. orders' = cancelled \cup {List(o, 0)} /\ items' = items /\ List(o, 0) \in Orders /\ List(o, 0).live
        BY <2>1, <2>5, OrderMoves
      <3> QED BY <1>0, <2>1, <2>2, <2>3, <3>1 DEF HooksInv, HooksTyped, HooksHold
    <2> QED BY <2>4, <2>5
  <1>2. CASE ToggleForm \/ SubmitSignedOut
    BY <1>0, <1>2 DEF ToggleForm, SubmitSignedOut, HooksInv, HooksTyped, HooksHold
  <1>3. ASSUME NEW kind \in {"create", "remove"}, NEW h \in Hooks, PlaceOrder(kind, h) PROVE HooksInv'
    <2> DEFINE r == [kind |-> kind, hook |-> h, of |-> holder, served |-> FALSE, seen |-> {},
                     round |-> placed', live |-> TRUE]
    <2>1. orders' = orders \cup {r} /\ placed' = placed + 1 /\ UNCHANGED <<holder, table, items>> /\ holder # Nobody
      BY <1>3 DEF PlaceOrder
    <2>2. r \in Orders /\ r.live
      BY <1>0, <2>1 DEF HooksTyped, Orders, HookLists, Changes
    <2> HIDE DEF r
    <2> QED BY <1>0, <2>1, <2>2 DEF HooksInv, HooksTyped, HooksHold
  <1>4. ASSUME NEW r \in orders, Serve(r) PROVE HooksInv'
    <2> DEFINE s == [r EXCEPT !.served = TRUE, !.seen = table[r.of]]
    <2>1. /\ orders' = (orders \ {r}) \cup {s} /\ UNCHANGED <<holder, items, spinner, placed>>
          /\ \/ table' = [table EXCEPT ![r.of] = @ \cup {r.hook}] /\ r.kind = "create"
             \/ table' = [table EXCEPT ![r.of] = @ \ {r.hook}]
             \/ table' = table
      BY <1>4 DEF Serve
    <2>2. r \in Orders /\ r.of \in Owners /\ table[r.of] \in SUBSET Hooks
      BY <1>0 DEF HooksTyped, Orders, HookLists, Changes
    <2>3. s \in Orders /\ s.live = r.live
      BY <2>2, OrderMoves
    <2>4. table' \in [Owners -> SUBSET Hooks]
      <3>1. r.kind = "create" => r.hook \in Hooks
        BY <2>2 DEF Orders, HookLists, Changes
      <3> QED BY <1>0, <2>1, <2>2, <3>1 DEF HooksTyped
    <2> HIDE DEF s
    <2> QED BY <1>0, <2>1, <2>3, <2>4 DEF HooksInv, HooksTyped, HooksHold
  <1>5. ASSUME NEW r \in orders, ListEnds(r) PROVE HooksInv'
    <2>1. r \in Orders
      BY <1>0 DEF HooksTyped
    <2>2. orders' = orders \ {r} /\ UNCHANGED <<holder, table, placed>> /\ (items' = items \/ items' = r.seen)
      BY <1>5 DEF ListEnds
    <2>3. HooksTyped'
      BY <1>0, <2>1, <2>2 DEF HooksTyped, Orders, HookLists, Changes
    <2>4. HooksHold'
      BY <1>0, <1>5, <2>2 DEF HooksHold, ListEnds
    <2> QED BY <2>3, <2>4 DEF HooksInv
  <1>6. ASSUME NEW r \in orders, OrderEnds(r) PROVE HooksInv'
    <2>1. List(r.of, r.round) \in Orders
      BY <1>0, OrderMoves DEF HooksTyped, Orders, HookLists, Changes
    <2>2. /\ orders' \subseteq orders \cup {List(r.of, r.round)} /\ UNCHANGED <<holder, table, items, placed>>
          /\ spinner' = FALSE
      BY <1>6 DEF OrderEnds, Settled
    <2> QED BY <1>0, <2>1, <2>2 DEF HooksInv, HooksTyped, HooksHold
  <1>7. CASE UNCHANGED hookVars
    BY <1>0, <1>7 DEF hookVars, HooksInv, HooksTyped, HooksHold
  <1> QED BY <1>1, <1>2, <1>3, <1>4, <1>5, <1>6, <1>7 DEF HooksNext

LEMMA HooksInitial == HooksInit => HooksInv
  BY DEF HooksInit, HooksInv, HooksTyped, HooksHold

-----------------------------------------------------------------------------
(* AccountScreens, the history: an answer is filed under what was asked for, *)
(* and the effect that leaves a page beyond the last one comes to rest.      *)

LEMMA LeastNatural ==
    ASSUME NEW S, S \subseteq Nat, S # {}
    PROVE  \E e \in S : \A f \in S : e <= f
  <1> DEFINE R == OpToRel(<, Nat)
  <1>1. PICK e \in S : \A f \in S : ~ <<f, e>> \in R
    <2> HIDE DEF R
    <2>1. IsWellFoundedOn(R, Nat)
      BY NatLessThanWellFounded, Zenon DEF R
    <2> QED BY <2>1, WFMin, Zenon
  <1>2. \A f \in S : ~ f < e
    BY <1>1, Zenon DEF OpToRel
  <1>3. ASSUME NEW f \in S PROVE e <= f
    BY <1>2
  <1> QED BY <1>3

\* Pages that name an earlier page each lead to one that does not.
Rests(last, f, p) == f[p] = IF last[p] > 0 /\ p > last[p] THEN f[last[p]] ELSE p

LEMMA ChainRests ==
    ASSUME NEW last \in [1..MaxPages -> 0..MaxPages]
    PROVE  \E f \in [1..MaxPages -> 1..MaxPages] : \A p \in 1..MaxPages : Rests(last, f, p)
  <1> DEFINE Upto(m) == \E f \in [1..m -> 1..MaxPages] : \A p \in 1..m : Rests(last, f, p)
             Bad == {m \in 0..MaxPages : ~Upto(m)}
  <1>0. MaxPages \in Nat
    BY AccountAssumption
  <1>1. Upto(0)
    <2>1. [p \in 1..0 |-> p] \in [1..0 -> 1..MaxPages] /\ \A p \in 1..0 : FALSE
      OBVIOUS
    <2> QED BY <2>1
  <1>2. ASSUME NEW m \in 0..MaxPages, m + 1 <= MaxPages, Upto(m) PROVE Upto(m + 1)
    <2>1. PICK f \in [1..m -> 1..MaxPages] : \A p \in 1..m : Rests(last, f, p)
      BY <1>2
    <2> DEFINE q == last[m + 1]
               new == IF q > 0 /\ m + 1 > q THEN f[q] ELSE m + 1
               g == [p \in 1..m + 1 |-> IF p = m + 1 THEN new ELSE f[p]]
    <2>2. m \in Nat /\ m + 1 \in 1..MaxPages /\ q \in 0..MaxPages
      BY <1>0, <1>2
    <2>3. new \in 1..MaxPages
      BY <2>2
    <2>4. g \in [1..m + 1 -> 1..MaxPages]
      <3> HIDE DEF new
      <3>1. \A p \in 1..m + 1 : p # m + 1 => p \in 1..m
        BY <2>2
      <3> QED BY <2>3, <3>1
    <2>5. g[m + 1] = new /\ \A p \in 1..m : g[p] = f[p]
      <3> HIDE DEF new
      <3> QED BY <2>2
    <2>6. ASSUME NEW p \in 1..m + 1 PROVE Rests(last, g, p)
      <3>1. CASE p = m + 1
        BY <2>2, <2>5, <3>1 DEF Rests
      <3>2. CASE p # m + 1
        <4>1. p \in 1..m /\ last[p] \in 0..MaxPages
          <5>1. p \in 1..m /\ p \in 1..MaxPages
            BY <1>0, <2>2, <3>2
          <5> QED BY <5>1
        <4>2. last[p] > 0 /\ p > last[p] => last[p] \in 1..m
          BY <2>2, <4>1
        <4>3. Rests(last, f, p)
          BY <2>1, <4>1
        <4> HIDE DEF g
        <4> QED BY <2>5, <4>1, <4>2, <4>3 DEF Rests
      <3> QED BY <3>1, <3>2
    <2> QED BY <2>4, <2>6
  <1>3. Bad = {}
    <2> SUFFICES ASSUME Bad # {} PROVE FALSE
      OBVIOUS
    <2>1. PICK b \in Bad : \A c \in Bad : b <= c
      <3>1. Bad \subseteq Nat
        BY <1>0
      <3> HIDE DEF Bad
      <3> QED BY <3>1, LeastNatural
    <2> HIDE DEF Upto
    <2>2. b \in 0..MaxPages /\ ~Upto(b) /\ b # 0
      BY <1>1
    <2>3. b - 1 \in 0..MaxPages /\ b - 1 \notin Bad
      BY <1>0, <2>1, <2>2
    <2>4. Upto(b - 1) /\ (b - 1) + 1 = b
      BY <2>2, <2>3
    <2> QED BY <1>2, <2>2, <2>3, <2>4
  <1> HIDE DEF Upto
  <1>4. Upto(MaxPages)
    BY <1>0, <1>3
  <1> QED BY <1>4 DEF Upto

\* Where such a function leads is at rest.
LEMMA RestIsReached ==
    ASSUME NEW last \in [1..MaxPages -> 0..MaxPages], NEW f,
           \A p \in 1..MaxPages : Rests(last, f, p)
    PROVE  \A p \in 1..MaxPages : f[p] \in 1..MaxPages /\ ~(last[f[p]] > 0 /\ f[p] > last[f[p]])
  <1> DEFINE Fine(p) == f[p] \in 1..MaxPages /\ ~(last[f[p]] > 0 /\ f[p] > last[f[p]])
             Bad == {p \in 1..MaxPages : ~Fine(p)}
  <1>1. Bad = {}
    <2> SUFFICES ASSUME Bad # {} PROVE FALSE
      OBVIOUS
    <2>1. PICK b \in Bad : \A c \in Bad : b <= c
      <3>1. Bad \subseteq Nat
        BY AccountAssumption
      <3> HIDE DEF Bad
      <3> QED BY <3>1, LeastNatural
    <2>2. b \in 1..MaxPages /\ ~Fine(b) /\ Rests(last, f, b) /\ last[b] \in 0..MaxPages
      OBVIOUS
    <2>3. CASE last[b] > 0 /\ b > last[b]
      <3>1. last[b] \in 1..MaxPages /\ ~(b <= last[b]) /\ f[b] = f[last[b]]
        BY AccountAssumption, <2>2, <2>3 DEF Rests
      <3>2. Fine(last[b])
        BY <2>1, <3>1
      <3>3. Fine(b)
        BY <3>1, <3>2
      <3> QED BY <2>2, <3>3
    <2>4. CASE ~(last[b] > 0 /\ b > last[b])
      <3>1. f[b] = b
        BY <2>2, <2>4 DEF Rests
      <3> QED BY <2>2, <2>4, <3>1
    <2> QED BY <2>3, <2>4
  <1> QED BY <1>1

\* The effect ends on a page that its feed has, as far as that is known.
Views == [tab : Feeds, page : 1..MaxPages, pool : LpPools \cup {AllPools}, dated : BOOLEAN]
Keys == [feed : Feeds, wallet : Owners, page : 1..MaxPages, pool : LpPools \cup {AllPools}]
Beyond(v, w, c) == Pages(v.tab, v, w, c) > 0 /\ v.page > Pages(v.tab, v, w, c)
PagesKnown(c) == \A k \in DOMAIN c : c[k].pages \in 0..MaxPages

LEMMA SnapRests ==
    ASSUME NEW v \in Views, NEW w, NEW c, PagesKnown(c)
    PROVE  \E q \in 1..MaxPages : /\ Snap(v, w, c) = [v EXCEPT !.page = q]
                                  /\ ~Beyond([v EXCEPT !.page = q], w, c)
  <1> DEFINE At(p) == [v EXCEPT !.page = p]
             last == [p \in 1..MaxPages |-> Pages(v.tab, At(p), w, c)]
             settled[p \in 1..MaxPages] ==
                LET n == Pages(v.tab, [v EXCEPT !.page = p], w, c) IN
                IF n > 0 /\ p > n THEN settled[n] ELSE p
  <1>1. last \in [1..MaxPages -> 0..MaxPages]
    <2>1. \A u : Pages(v.tab, u, w, c) \in 0..MaxPages
      BY AccountAssumption DEF Pages, PagesKnown
    <2> QED BY <2>1
  <1>2. Snap(v, w, c) = At(settled[v.page])
    BY DEF Snap
  <1>3. \A p \in 1..MaxPages : Rests(last, settled, p)
    <2> DEFINE Unfolds(f) == f = [p \in 1..MaxPages |->
                                    LET n == Pages(v.tab, [v EXCEPT !.page = p], w, c) IN
                                    IF n > 0 /\ p > n THEN f[n] ELSE p]
    <2>1. PICK f \in [1..MaxPages -> 1..MaxPages] : \A p \in 1..MaxPages : Rests(last, f, p)
      <3> HIDE DEF last
      <3> QED BY <1>1, ChainRests
    <2>2. Unfolds(f)
      <3>1. f = [p \in 1..MaxPages |-> f[p]]
        OBVIOUS
      <3>2. \A p \in 1..MaxPages : f[p] = IF last[p] > 0 /\ p > last[p] THEN f[last[p]] ELSE p
        BY <2>1 DEF Rests
      <3>3. \A p \in 1..MaxPages : last[p] = Pages(v.tab, [v EXCEPT !.page = p], w, c)
        OBVIOUS
      <3> HIDE DEF last
      <3> QED BY <3>1, <3>2, <3>3
    <2>3. settled = CHOOSE g : Unfolds(g)
      BY Zenon
    <2>4. Unfolds(settled)
      BY <2>2, <2>3, Zenon
    <2> HIDE DEF settled
    <2> QED BY <2>4 DEF Rests
  <1>4. v.page \in 1..MaxPages
    BY DEF Views
  <1> HIDE DEF settled
  <1> DEFINE q == settled[v.page]
  <1>5. q \in 1..MaxPages /\ ~(last[q] > 0 /\ q > last[q])
    <2> HIDE DEF last
    <2> QED BY <1>1, <1>3, <1>4, RestIsReached
  <1>6. /\ last[q] = Pages(v.tab, At(q), w, c) /\ At(q).tab = v.tab /\ At(q).page = q
    BY <1>5 DEF Views
  <1>7. ~Beyond(At(q), w, c)
    <2> HIDE DEF last, q, At
    <2> QED BY <1>5, <1>6 DEF Beyond
  <1> QED BY <1>2, <1>5, <1>7

Entries == [rows : Owners \cup {Nobody}, page : 1..MaxPages, pool : LpPools \cup {AllPools},
            pages : 0..MaxPages, pools : SUBSET LpPools, error : BOOLEAN]

\* What a key was answered with is about the key; rows are missing only beyond
\* the last page, or of a feed that is not known to have any.
AnswersKey(k, e) ==
    /\ e \in Entries
    /\ e.page = k.page /\ e.pool = k.pool
    /\ k.feed = "swaps" => e.rows \in {k.wallet, Nobody}
    /\ e.rows = Nobody => e.pages = 0 \/ k.page > e.pages

HistoryTyped ==
    /\ wallet \in Owners /\ bearer \in Owners \cup {Nobody} /\ stored \in Owners \cup {Nobody}
    /\ view \in Views
    /\ options \subseteq LpPools
    /\ DOMAIN cache \subseteq Keys /\ \A k \in DOMAIN cache : AnswersKey(k, cache[k])
    /\ \A r \in asking : /\ r.key \in Keys /\ r.bearer \in Owners \cup {Nobody}
                         /\ r.key.feed = "lp" => r.bearer # Nobody

\* The page on screen is one that its feed has.
OnKnownPage == ~Beyond(view, wallet, cache)

HistoryInv == HistoryTyped /\ OnKnownPage

LEMMA KeyTyped ==
    ASSUME NEW feed \in Feeds, NEW v \in Views, NEW w \in Owners
    PROVE  /\ Key(feed, v, w) \in Keys /\ Key(feed, v, w).feed = feed
           /\ Key(feed, v, w).page = v.page /\ Key(feed, v, w).wallet = w
           /\ feed = "lp" => Key(feed, v, w).pool = v.pool
  BY DEF Key, Keys, Views, Feeds

LEMMA AnswersTyped ==
    ASSUME NEW c, DOMAIN c \subseteq Keys, \A k \in DOMAIN c : AnswersKey(k, c[k])
    PROVE  /\ PagesKnown(c)
           /\ \A k \in DOMAIN c : c[k].pools \subseteq LpPools
  BY DEF AnswersKey, Entries, PagesKnown

\* A step that looks at a view of its own wallet and answers.
LEMMA SeeKeeps ==
    ASSUME HistoryTyped, NEW v \in Views, wallet' \in Owners, stored' = stored,
           bearer' \in Owners \cup {Nobody},
           DOMAIN cache' \subseteq Keys, \A k \in DOMAIN cache' : AnswersKey(k, cache'[k]),
           asking' \subseteq asking, See(v, wallet', cache')
    PROVE  HistoryInv'
  <1>1. PICK q \in 1..MaxPages : /\ Snap(v, wallet', cache') = [v EXCEPT !.page = q]
                                 /\ ~Beyond([v EXCEPT !.page = q], wallet', cache')
    <2>1. PagesKnown(cache')
      BY AnswersTyped
    <2> QED BY <2>1, SnapRests
  <1>2. view' = [v EXCEPT !.page = q] /\ options' = Offered(view', wallet', cache')
    BY <1>1 DEF See, SnapBack
  <1>3. view' \in Views /\ ~Beyond(view', wallet', cache')
    BY <1>1, <1>2 DEF Views
  <1>4. options' \subseteq LpPools
    BY <1>2, AnswersTyped DEF Offered, HistoryTyped
  <1>5. OnKnownPage'
    BY <1>3 DEF OnKnownPage, Beyond, Pages, Key
  <1>6. HistoryTyped'
    BY <1>3, <1>4 DEF HistoryTyped
  <1> QED BY <1>5, <1>6 DEF HistoryInv

LEMMA HistoryStep == HistoryInv /\ [HistoryNext]_historyVars => HistoryInv'
  <1> SUFFICES ASSUME HistoryInv, [HistoryNext]_historyVars PROVE HistoryInv'
    OBVIOUS
  <1>0. HistoryTyped /\ OnKnownPage
    BY DEF HistoryInv
  <1>a. /\ wallet \in Owners /\ bearer \in Owners \cup {Nobody} /\ view \in Views /\ options \subseteq LpPools
        /\ DOMAIN cache \subseteq Keys /\ \A k \in DOMAIN cache : AnswersKey(k, cache[k])
        /\ stored \in Owners \cup {Nobody}
    BY <1>0 DEF HistoryTyped
  <1>b. 1 \in 1..MaxPages
    BY AccountAssumption
  <1>s. ASSUME NEW v \in Views, See(v, wallet, cache), UNCHANGED <<wallet, bearer, stored, cache, asking>>
        PROVE  HistoryInv'
    <2>1. See(v, wallet', cache')
      BY <1>s
    <2> QED BY <1>0, <1>a, <1>s, <2>1, SeeKeeps
  <1>1. CASE SelectTab
    <2>1. PICK tab \in Feeds : See([view EXCEPT !.tab = tab, !.page = 1], wallet, cache)
      BY <1>1 DEF SelectTab
    <2>2. [view EXCEPT !.tab = tab, !.page = 1] \in Views
      BY <1>a, <1>b DEF Views
    <2> QED BY <1>1, <1>s, <2>1, <2>2 DEF SelectTab
  <1>2. CASE FilterPool
    <2>1. CASE \E p \in options : See([view EXCEPT !.pool = p, !.page = 1], wallet, cache)
      <3>1. PICK p \in options : See([view EXCEPT !.pool = p, !.page = 1], wallet, cache)
        BY <2>1
      <3>2. [view EXCEPT !.pool = p, !.page = 1] \in Views
        BY <1>a, <1>b DEF Views
      <3> QED BY <1>2, <1>s, <3>1, <3>2 DEF FilterPool
    <2>2. CASE See([view EXCEPT !.pool = AllPools], wallet, cache)
      <3>1. [view EXCEPT !.pool = AllPools] \in Views
        BY <1>a DEF Views
      <3> QED BY <1>2, <1>s, <2>2, <3>1 DEF FilterPool
    <2> QED BY <1>2, <2>1, <2>2 DEF FilterPool
  <1>3. CASE TurnPage
    <2> DEFINE n == Pages(view.tab, view, wallet, cache)
    <2>1. n \in 0..MaxPages
      BY <1>a, AccountAssumption, AnswersTyped DEF Pages, PagesKnown
    <2>2. PICK p \in 1..n : See([view EXCEPT !.page = p], wallet, cache)
      BY <1>3 DEF TurnPage
    <2>3. UNCHANGED <<wallet, bearer, stored, cache, asking>>
      BY <1>3 DEF TurnPage
    <2> HIDE DEF n
    <2>4. p \in 1..MaxPages
      BY <2>1, AccountAssumption
    <2>5. [view EXCEPT !.page = p] \in Views
      BY <1>a, <2>4 DEF Views
    <2> QED BY <1>s, <2>2, <2>3, <2>5
  <1>4. CASE ChangeWallet
    <2>1. /\ wallet' \in Owners /\ bearer' = stored /\ UNCHANGED <<stored, cache, asking>>
          /\ See(view, wallet', cache)
      BY <1>4 DEF ChangeWallet
    <2>2. See(view, wallet', cache')
      BY <2>1
    <2> QED BY <1>0, <1>a, <2>1, <2>2, SeeKeeps
  <1>5. CASE AuthenticateElsewhere
    BY <1>0, <1>5 DEF AuthenticateElsewhere, HistoryInv, HistoryTyped, OnKnownPage, Beyond, Pages, Key
  <1>6. CASE FilterDates
    <2>1. view' = [view EXCEPT !.dated = ~@] /\ UNCHANGED <<wallet, bearer, stored, options, cache, asking>>
      BY <1>6 DEF FilterDates
    <2>2. view' \in Views /\ view'.page = view.page /\ view'.tab = view.tab /\ view'.pool = view.pool
      BY <1>a, <2>1 DEF Views
    <2>3. OnKnownPage'
      BY <1>0, <2>1, <2>2 DEF OnKnownPage, Beyond, Pages, Key
    <2>4. HistoryTyped'
      BY <1>0, <2>1, <2>2 DEF HistoryTyped
    <2> QED BY <2>3, <2>4 DEF HistoryInv
  <1>7. ASSUME NEW feed \in Feeds, Ask(feed) PROVE HistoryInv'
    <2> DEFINE r == [key |-> Key(feed, view, wallet), bearer |-> bearer]
    <2>1. /\ asking' = asking \cup {r} /\ Enabled(feed, bearer)
          /\ UNCHANGED <<wallet, bearer, stored, view, options, cache>>
      BY <1>7 DEF Ask
    <2>2. r.key \in Keys /\ r.bearer \in Owners \cup {Nobody} /\ (r.key.feed = "lp" => r.bearer # Nobody)
      BY <1>a, <2>1, KeyTyped DEF Enabled
    <2> HIDE DEF r
    <2>3. HistoryTyped'
      BY <1>0, <2>1, <2>2 DEF HistoryTyped
    <2>4. OnKnownPage'
      BY <1>0, <2>1 DEF OnKnownPage, Beyond, Pages, Key
    <2> QED BY <2>3, <2>4 DEF HistoryInv
  <1>8. ASSUME NEW r \in asking, Answered(r) PROVE HistoryInv'
    <2>1. /\ r.key \in Keys /\ r.bearer \in Owners \cup {Nobody}
          /\ r.key.feed = "lp" => r.bearer # Nobody
      BY <1>0 DEF HistoryTyped
    <2> DEFINE k == r.key
               Rows(n) == IF k.page > n THEN Nobody ELSE IF k.feed = "swaps" THEN k.wallet ELSE r.bearer
               Filed(n, pools) == [rows |-> Rows(n), page |-> k.page, pool |-> k.pool, pages |-> n,
                                   pools |-> pools, error |-> FALSE]
    <2>2. PICK n \in 0..MaxPages, pools \in SUBSET LpPools :
             /\ cache' = [x \in DOMAIN cache \cup {k} |-> IF x = k THEN Filed(n, pools) ELSE cache[x]]
             /\ See(view, wallet, cache')
      BY <1>8 DEF Answered, AskedFor
    <2>3. UNCHANGED <<wallet, bearer, stored>> /\ asking' \subseteq asking
      BY <1>8 DEF Answered
    <2>4. /\ k.page \in 1..MaxPages /\ k.pool \in LpPools \cup {AllPools} /\ k.wallet \in Owners
          /\ k.feed = "swaps" \/ k.feed = "lp"
      BY <2>1 DEF Keys, Feeds
    <2>5. AnswersKey(k, Filed(n, pools))
      <3>1. Rows(n) \in Owners \cup {Nobody} /\ (Rows(n) = Nobody => k.page > n)
            /\ (k.feed = "swaps" => Rows(n) \in {k.wallet, Nobody})
        BY <2>1, <2>4, OwnersAssumption
      <3> HIDE DEF Rows
      <3> QED BY <2>4, <3>1 DEF AnswersKey, Entries
    <2> HIDE DEF Filed, Rows
    <2>6. DOMAIN cache' \subseteq Keys /\ \A x \in DOMAIN cache' : AnswersKey(x, cache'[x])
      BY <1>a, <2>1, <2>2, <2>5
    <2>7. See(view, wallet', cache')
      BY <2>2, <2>3
    <2> QED BY <1>0, <1>a, <2>3, <2>6, <2>7, SeeKeeps
  <1>9. ASSUME NEW r \in asking, AskFails(r) PROVE HistoryInv'
    <2>1. r.key \in Keys
      BY <1>0 DEF HistoryTyped
    <2> DEFINE k == r.key
               Failed == IF k \in DOMAIN cache THEN [cache[k] EXCEPT !.error = TRUE]
                         ELSE [rows |-> Nobody, page |-> k.page, pool |-> k.pool, pages |-> 0,
                               pools |-> {}, error |-> TRUE]
    <2>2. /\ cache' = [x \in DOMAIN cache \cup {k} |-> IF x # k THEN cache[x] ELSE Failed]
          /\ See(view, wallet, cache') /\ UNCHANGED <<wallet, bearer, stored>> /\ asking' \subseteq asking
      BY <1>9 DEF AskFails
    <2>3. AnswersKey(k, Failed)
      <3>1. CASE k \in DOMAIN cache
        <4>1. AnswersKey(k, cache[k]) /\ Failed = [cache[k] EXCEPT !.error = TRUE]
          BY <1>a, <3>1
        <4> HIDE DEF Failed
        <4> QED BY <4>1 DEF AnswersKey, Entries
      <3>2. CASE k \notin DOMAIN cache
        <4>1. k.page \in 1..MaxPages /\ k.pool \in LpPools \cup {AllPools}
          BY <2>1 DEF Keys
        <4>2. Failed = [rows |-> Nobody, page |-> k.page, pool |-> k.pool, pages |-> 0,
                        pools |-> {}, error |-> TRUE]
          BY <3>2
        <4> HIDE DEF Failed
        <4> QED BY <4>1, <4>2, AccountAssumption DEF AnswersKey, Entries
      <3> QED BY <3>1, <3>2
    <2> HIDE DEF Failed
    <2>4. DOMAIN cache' \subseteq Keys /\ \A x \in DOMAIN cache' : AnswersKey(x, cache'[x])
      BY <1>a, <2>1, <2>2, <2>3
    <2>5. See(view, wallet', cache')
      BY <2>2
    <2> QED BY <1>0, <1>a, <2>2, <2>4, <2>5, SeeKeeps
  <1>10. CASE UNCHANGED historyVars
    <2>1. UNCHANGED <<wallet, bearer, stored, view, options, cache, asking>>
      BY <1>10 DEF historyVars
    <2> QED BY <1>0, <2>1 DEF HistoryInv, HistoryTyped, OnKnownPage, Beyond, Pages, Key
  <1> QED BY <1>1, <1>2, <1>3, <1>4, <1>5, <1>6, <1>7, <1>8, <1>9, <1>10 DEF HistoryNext

LEMMA HistoryInitial == HistoryInit => HistoryInv
  <1> SUFFICES ASSUME HistoryInit PROVE HistoryInv
    OBVIOUS
  <1>1. view \in Views
    BY AccountAssumption DEF HistoryInit, Views, Feeds
  <1>2. DOMAIN cache = {}
    BY DEF HistoryInit
  <1>3. OnKnownPage
    BY <1>2 DEF OnKnownPage, Beyond, Pages
  <1> QED BY <1>1, <1>2, <1>3 DEF HistoryInit, HistoryInv, HistoryTyped

LEMMA NoneBeyond ==
    \A n, p \in Nat : (n = 0 \/ p > n) /\ (n > 0 => ~(p > n)) => n = 0
  OBVIOUS

LEMMA HistoryIsTrue == HistoryInv => HistoryHolds
  <1> SUFFICES ASSUME HistoryInv PROVE HistoryHolds
    OBVIOUS
  <1> DEFINE k == Key(view.tab, view, wallet)
  <1>0. /\ view \in Views /\ wallet \in Owners /\ view.tab \in Feeds
        /\ \A x \in DOMAIN cache : AnswersKey(x, cache[x])
    BY DEF HistoryInv, HistoryTyped, Views
  <1>1. /\ k.feed = view.tab /\ k.page = view.page /\ k.wallet = wallet
        /\ view.tab = "lp" => k.pool = view.pool
    BY <1>0, KeyTyped
  <1>2. k \in DOMAIN cache => /\ AnswersKey(k, cache[k])
                              /\ Pages(view.tab, view, wallet, cache) = cache[k].pages
    BY <1>0 DEF Pages
  <1>3. k \in DOMAIN cache /\ cache[k].pages > 0 => ~(view.page > cache[k].pages)
    BY <1>2 DEF HistoryInv, OnKnownPage, Beyond
  <1>4. k \in DOMAIN cache => cache[k].pages \in Nat /\ view.page \in Nat
    BY <1>0, <1>2, AccountAssumption DEF AnswersKey, Entries, Views
  <1>5. k \in DOMAIN cache /\ cache[k].pages > 0 => view.page <= cache[k].pages
    BY <1>3, <1>4
  <1>6. Table = "rows" => HasRows(k)
    BY DEF Table, SwapTable, LpTable, NothingHere
  <1>7. HasRows(k) => k \in DOMAIN cache /\ cache[k].rows # Nobody
    BY DEF HasRows
  <1>8. Table = "none yet" /\ ~view.dated /\ k \in DOMAIN cache => cache[k].rows = Nobody
    BY DEF Table, SwapTable, LpTable, HasRows
  <1>9. Table = "none yet" /\ ~view.dated /\ k \in DOMAIN cache => cache[k].pages = 0
    <2> HIDE DEF k
    <2> SUFFICES ASSUME Table = "none yet", ~view.dated, k \in DOMAIN cache PROVE cache[k].pages = 0
      OBVIOUS
    <2>1. cache[k].pages = 0 \/ view.page > cache[k].pages
      BY <1>1, <1>2, <1>8 DEF AnswersKey
    <2>2. cache[k].pages > 0 => ~(view.page > cache[k].pages)
      BY <1>3
    <2>3. cache[k].pages \in Nat /\ view.page \in Nat
      BY <1>4
    <2> QED BY <2>1, <2>2, <2>3, NoneBeyond
  <1>10. Table = "rows" => /\ cache[k].page = view.page
                           /\ view.tab = "lp" => cache[k].pool = view.pool
                           /\ view.tab = "swaps" => cache[k].rows = wallet
    <2> HIDE DEF k
    <2> QED BY <1>1, <1>2, <1>6, <1>7 DEF AnswersKey
  <1> QED BY <1>5, <1>9, <1>10 DEF HistoryHolds

-----------------------------------------------------------------------------
(* PositionScreens, the panel: only the estimate of what is on display is    *)
(* live, and a question is about it.                                         *)

Statuses == {"idle", "signing", "submitting", "success", "error"}
Panels == [units : Nat, pct : Percents, asked : Percents \cup {0}, shown : Int, loading : BOOLEAN]
Estimates == [units : Nat, pct : Percents, live : BOOLEAN]
TakeStages == {"signing", "submitting", "unsigned", "success", "error"}
Takes == [kind : {"remove", "collect"}, units : Int, pct : Percents, asked : Percents \cup {0},
          shown : Int, stage : TakeStages, here : BOOLEAN]

PanelTyped ==
    /\ panel \in Panels
    /\ estimates \subseteq Estimates
    /\ taking \in Statuses
    /\ envelopes \in Seq(Takes)

PanelTrue ==
    /\ \A e \in estimates : e.live => e.units = panel.units /\ e.pct = panel.pct
    /\ PanelShown /\ ~panel.loading => panel.shown = Share(panel.units, panel.pct)
    /\ panel.asked # 0 => PanelShown /\ panel.asked = panel.pct

TakesTrue ==
    \A i \in DOMAIN envelopes : envelopes[i].kind = "remove" =>
       envelopes[i].asked = envelopes[i].pct /\ envelopes[i].units = envelopes[i].shown

PanelInv == PanelTyped /\ PanelTrue /\ TakesTrue

LEMMA ShareTyped == \A units \in Nat, pct \in Percents : Share(units, pct) \in Int
  <1> SUFFICES ASSUME NEW units \in Nat, NEW pct \in Percents PROVE Share(units, pct) \in Int
    OBVIOUS
  <1>1. units * pct \in Int
    BY PositionScreensAssumption
  <1> QED BY <1>1 DEF Share

LEMMA CancelledTyped ==
    ASSUME NEW es \in SUBSET Estimates
    PROVE  Cancelled(es) \subseteq Estimates /\ \A e \in Cancelled(es) : ~e.live
  BY DEF Cancelled, Estimates

\* Transactions that only move on stay what they were built as.
LEMMA TakesMoveOn ==
    ASSUME PanelInv, envelopes' \in Seq(Takes), DOMAIN envelopes' = DOMAIN envelopes,
           \A i \in DOMAIN envelopes : /\ envelopes'[i].kind = envelopes[i].kind
                                       /\ envelopes'[i].asked = envelopes[i].asked
                                       /\ envelopes'[i].pct = envelopes[i].pct
                                       /\ envelopes'[i].units = envelopes[i].units
                                       /\ envelopes'[i].shown = envelopes[i].shown
    PROVE  TakesTrue'
  BY DEF PanelInv, TakesTrue

\* A transaction is handed to the wallet.
LEMMA HandKeeps ==
    ASSUME PanelInv, NEW e \in Takes, Hand(e),
           e.kind = "remove" => e.asked = e.pct /\ e.units = e.shown
    PROVE  envelopes' \in Seq(Takes) /\ TakesTrue' /\ taking' \in Statuses
  <1>1. envelopes \in Seq(Takes) /\ envelopes' = Append(envelopes, e) /\ taking' = "signing"
    BY DEF PanelInv, PanelTyped, Hand
  <1>2. /\ DOMAIN envelopes' = DOMAIN envelopes \cup {Len(envelopes) + 1}
        /\ \A i \in DOMAIN envelopes : envelopes'[i] = envelopes[i]
        /\ envelopes'[Len(envelopes) + 1] = e
    BY <1>1
  <1>3. TakesTrue'
    BY <1>2 DEF PanelInv, TakesTrue
  <1>4. envelopes' \in Seq(Takes)
    BY <1>1
  <1> QED BY <1>1, <1>3, <1>4 DEF Statuses

LEMMA PanelInitial == PanelInit => PanelInv
  <1> SUFFICES ASSUME PanelInit PROVE PanelInv
    OBVIOUS
  <1>1. PanelTyped
    BY PositionScreensAssumption DEF PanelInit, PanelTyped, NoPanel, Panels, Statuses
  <1>2. PanelTrue /\ TakesTrue
    BY DEF PanelInit, PanelTrue, TakesTrue, NoPanel, PanelShown
  <1> QED BY <1>1, <1>2 DEF PanelInv

LEMMA PanelStep == PanelInv /\ [PanelNext]_panelVars => PanelInv'
  <1> SUFFICES ASSUME PanelInv, [PanelNext]_panelVars PROVE PanelInv'
    OBVIOUS
  <1>0. PanelTyped /\ PanelTrue /\ TakesTrue
    BY DEF PanelInv
  <1>a. /\ panel \in Panels /\ estimates \subseteq Estimates /\ taking \in Statuses /\ envelopes \in Seq(Takes)
        /\ 0 \notin Percents /\ 100 \in Percents
    BY <1>0, PositionScreensAssumption DEF PanelTyped
  <1>b. ASSUME envelopes' = envelopes PROVE TakesTrue'
    BY <1>0, <1>b DEF TakesTrue
  <1>1. ASSUME NEW units \in Liquidities, PanelAppears(units) PROVE PanelInv'
    <2> DEFINE e == [units |-> units, pct |-> 100, live |-> TRUE]
    <2>1. /\ panel' = [NoPanel EXCEPT !.units = units, !.loading = TRUE]
          /\ estimates' = Cancelled(estimates) \cup {e} /\ taking' = "idle" /\ envelopes' = envelopes
      BY <1>1 DEF PanelAppears
    <2>2. units \in Nat
      BY PositionScreensAssumption
    <2>3. panel' = [units |-> units, pct |-> 100, asked |-> 0, shown |-> 0, loading |-> TRUE]
      BY <2>1 DEF NoPanel
    <2>6. e \in Estimates /\ e.units = units /\ e.pct = 100
      BY <1>a, <2>2 DEF Estimates
    <2>7. /\ panel' \in Panels /\ panel'.units = units /\ panel'.pct = 100
          /\ panel'.asked = 0 /\ panel'.loading
      BY <1>a, <2>2, <2>3 DEF Panels
    <2>8. Cancelled(estimates) \subseteq Estimates /\ \A f \in Cancelled(estimates) : ~f.live
      BY <1>a, CancelledTyped
    <2> HIDE DEF e
    <2>4. PanelTyped'
      BY <1>a, <2>1, <2>6, <2>7, <2>8 DEF PanelTyped, Statuses
    <2>5. PanelTrue'
      BY <2>1, <2>6, <2>7, <2>8 DEF PanelTrue
    <2> QED BY <1>b, <2>1, <2>4, <2>5 DEF PanelInv
  <1>2. CASE PanelGoes
    <2>1. /\ panel' = NoPanel /\ estimates' = Cancelled(estimates) /\ taking' = "idle"
          /\ envelopes' = [i \in DOMAIN envelopes |-> [envelopes[i] EXCEPT !.here = FALSE]]
      BY <1>2 DEF PanelGoes
    <2>2. \A t \in Takes : /\ [t EXCEPT !.here = FALSE] \in Takes
                           /\ [t EXCEPT !.here = FALSE].kind = t.kind
                           /\ [t EXCEPT !.here = FALSE].asked = t.asked
                           /\ [t EXCEPT !.here = FALSE].pct = t.pct
                           /\ [t EXCEPT !.here = FALSE].units = t.units
                           /\ [t EXCEPT !.here = FALSE].shown = t.shown
      BY DEF Takes
    <2>3. envelopes' \in Seq(Takes) /\ DOMAIN envelopes' = DOMAIN envelopes
      BY <1>a, <2>1, <2>2
    <2>7. \A i \in DOMAIN envelopes : /\ envelopes[i] \in Takes
                                      /\ envelopes'[i] = [envelopes[i] EXCEPT !.here = FALSE]
      BY <1>a, <2>1
    <2>4. TakesTrue'
      BY <2>2, <2>3, <2>7, TakesMoveOn
    <2>5. PanelTyped'
      BY <1>a, <2>1, <2>3, CancelledTyped DEF PanelTyped, NoPanel, Panels, Statuses
    <2>6. PanelTrue'
      BY <1>a, <2>1, CancelledTyped DEF PanelTrue, NoPanel, PanelShown
    <2> QED BY <2>4, <2>5, <2>6 DEF PanelInv
  <1>3. ASSUME NEW pct \in Percents, ChoosePercent(pct) PROVE PanelInv'
    <2>1. taking' = taking /\ envelopes' = envelopes
      BY <1>3 DEF ChoosePercent
    <2>2. CASE pct = panel.pct
      <3>1. panel' = [panel EXCEPT !.asked = 0] /\ estimates' = estimates
        BY <1>3, <2>2 DEF ChoosePercent, NotAsked
      <3>2. PanelTyped'
        BY <1>a, <2>1, <3>1 DEF PanelTyped, Panels
      <3>3. PanelTrue'
        BY <1>0, <1>a, <3>1 DEF PanelTrue, Panels, PanelShown
      <3> QED BY <1>b, <2>1, <3>2, <3>3 DEF PanelInv
    <2>3. CASE pct # panel.pct
      <3> DEFINE e == [units |-> panel.units, pct |-> pct, live |-> TRUE]
      <3>1. /\ panel' = [panel EXCEPT !.pct = pct, !.asked = 0, !.loading = TRUE]
            /\ estimates' = Cancelled(estimates) \cup {e}
        BY <1>3, <2>3 DEF ChoosePercent, NotAsked
      <3>2. panel' \in Panels /\ panel'.units = panel.units /\ panel'.pct = pct /\ panel'.asked = 0 /\ panel'.loading
        BY <1>a, <3>1 DEF Panels
      <3>3. e \in Estimates
        BY <1>a DEF Panels, Estimates
      <3>4. PanelTyped'
        BY <1>a, <2>1, <3>1, <3>2, <3>3, CancelledTyped DEF PanelTyped
      <3>5. PanelTrue'
        BY <1>a, <3>1, <3>2, CancelledTyped DEF PanelTrue
      <3> QED BY <1>b, <2>1, <3>4, <3>5 DEF PanelInv
    <2> QED BY <2>2, <2>3
  <1>4. ASSUME NEW e \in estimates, EstimateEnds(e) PROVE PanelInv'
    <2>1. /\ estimates' = estimates \ {e} /\ taking' = taking /\ envelopes' = envelopes
          /\ panel' = IF e.live THEN [panel EXCEPT !.shown = Share(e.units, e.pct), !.loading = FALSE] ELSE panel
      BY <1>4 DEF EstimateEnds
    <2>2. CASE e.live
      <3>1. panel' = [panel EXCEPT !.shown = Share(panel.units, panel.pct), !.loading = FALSE]
        BY <1>0, <2>1, <2>2 DEF PanelTrue
      <3>2. Share(panel.units, panel.pct) \in Int
        BY <1>a, ShareTyped DEF Panels
      <3>3. /\ panel' \in Panels /\ panel'.units = panel.units /\ panel'.pct = panel.pct
            /\ panel'.asked = panel.asked /\ panel'.shown = Share(panel.units, panel.pct)
        BY <1>a, <3>1, <3>2 DEF Panels
      <3>4. PanelTyped'
        BY <1>a, <2>1, <3>3 DEF PanelTyped
      <3>5. PanelTrue'
        BY <1>0, <2>1, <3>3 DEF PanelTrue, PanelShown
      <3> QED BY <1>b, <2>1, <3>4, <3>5 DEF PanelInv
    <2>3. CASE ~e.live
      <3>1. panel' = panel
        BY <2>1, <2>3
      <3> QED BY <1>0, <1>b, <2>1, <3>1 DEF PanelInv, PanelTyped, PanelTrue, PanelShown
    <2> QED BY <2>2, <2>3
  <1>5. CASE AskRemove \/ CancelRemove
    <2>1. /\ UNCHANGED <<estimates, taking, envelopes>>
          /\ \/ panel' = [panel EXCEPT !.asked = panel.pct] /\ PanelShown
             \/ panel' = [panel EXCEPT !.asked = 0]
      BY <1>5 DEF AskRemove, CancelRemove
    <2>2. /\ panel' \in Panels /\ panel'.units = panel.units /\ panel'.pct = panel.pct
          /\ panel'.shown = panel.shown /\ panel'.loading = panel.loading
          /\ panel'.asked # 0 => PanelShown /\ panel'.asked = panel.pct
      BY <1>a, <2>1 DEF Panels
    <2>3. PanelTyped'
      BY <1>a, <2>1, <2>2 DEF PanelTyped
    <2>4. PanelTrue'
      BY <1>0, <2>1, <2>2 DEF PanelTrue, PanelShown
    <2> QED BY <1>b, <2>1, <2>3, <2>4 DEF PanelInv
  <1>6. RemoveEnvelope \in Takes /\ CollectEnvelope \in Takes /\ CollectEnvelope.kind = "collect"
    <2>1. Share(panel.units, panel.pct) \in Int
      BY <1>a, ShareTyped DEF Panels
    <2>2. RemoveEnvelope \in Takes
      BY <1>a, <2>1 DEF RemoveEnvelope, Takes, TakeStages, Panels
    <2> DEFINE r == RemoveEnvelope
               c == CollectEnvelope
    <2>7. r \in Takes
      BY <2>2
    <2> HIDE DEF r
    <2>3. c = [r EXCEPT !.kind = "collect", !.units = 0]
      BY DEF CollectEnvelope, r
    <2> HIDE DEF c
    <2>5. c.kind = "collect" /\ c.units = 0
      BY <2>3, <2>7 DEF Takes
    <2>8. c.pct = r.pct /\ c.asked = r.asked /\ c.shown = r.shown /\ c.stage = r.stage /\ c.here = r.here
      BY <2>3, <2>7 DEF Takes
    <2>9. c = [kind |-> c.kind, units |-> c.units, pct |-> c.pct, asked |-> c.asked,
               shown |-> c.shown, stage |-> c.stage, here |-> c.here]
      BY <2>3, <2>7 DEF Takes
    <2>10. /\ c.pct \in Percents /\ c.asked \in Percents \cup {0} /\ c.shown \in Int
           /\ c.stage \in TakeStages /\ c.here \in BOOLEAN
      BY <2>7, <2>8 DEF Takes
    <2>6. c \in Takes
      BY <2>5, <2>9, <2>10 DEF Takes
    <2>4. CollectEnvelope \in Takes /\ CollectEnvelope.kind = "collect"
      BY <2>5, <2>6 DEF c
    <2> QED BY <2>2, <2>4
  <1>7. CASE ConfirmRemove
    <2>1. /\ Hand(RemoveEnvelope) /\ panel' = [panel EXCEPT !.asked = 0] /\ estimates' = estimates
          /\ panel.asked # 0 /\ ~panel.loading
      BY <1>7 DEF ConfirmRemove, Confirms
    <2>2. RemoveEnvelope.asked = RemoveEnvelope.pct /\ RemoveEnvelope.units = RemoveEnvelope.shown
      BY <1>0, <2>1 DEF PanelTrue, RemoveEnvelope
    <2>3. envelopes' \in Seq(Takes) /\ TakesTrue' /\ taking' \in Statuses
      BY <1>6, <2>1, <2>2, HandKeeps
    <2>4. /\ panel' \in Panels /\ panel'.units = panel.units /\ panel'.pct = panel.pct
          /\ panel'.shown = panel.shown /\ panel'.loading = panel.loading /\ panel'.asked = 0
      BY <1>a, <2>1 DEF Panels
    <2>5. PanelTyped' /\ PanelTrue'
      BY <1>0, <1>a, <2>1, <2>3, <2>4 DEF PanelTyped, PanelTrue, PanelShown
    <2> QED BY <2>3, <2>5 DEF PanelInv
  <1>8. CASE CollectFees
    <2>1. Hand(CollectEnvelope) /\ UNCHANGED <<panel, estimates>>
      BY <1>8 DEF CollectFees
    <2>2. envelopes' \in Seq(Takes) /\ TakesTrue' /\ taking' \in Statuses
      BY <1>6, <2>1, HandKeeps
    <2> QED BY <1>0, <2>1, <2>2 DEF PanelInv, PanelTyped, PanelTrue, PanelShown
  <1>9. ASSUME NEW i \in DOMAIN envelopes, WalletAnswersTake(i) \/ TakeEnds(i) PROVE PanelInv'
    <2>1. PICK stage \in TakeStages, shown \in Statuses : TakeMovesOn(i, stage, shown)
      BY <1>9 DEF WalletAnswersTake, TakeEnds, TakeStages, Statuses
    <2>2. /\ envelopes' = [envelopes EXCEPT ![i].stage = stage] /\ UNCHANGED <<panel, estimates>>
          /\ taking' \in Statuses
      BY <1>a, <2>1 DEF TakeMovesOn
    <2>3. \A t \in Takes : /\ [t EXCEPT !.stage = stage] \in Takes
                           /\ [t EXCEPT !.stage = stage].kind = t.kind
                           /\ [t EXCEPT !.stage = stage].asked = t.asked
                           /\ [t EXCEPT !.stage = stage].pct = t.pct
                           /\ [t EXCEPT !.stage = stage].units = t.units
                           /\ [t EXCEPT !.stage = stage].shown = t.shown
      BY DEF Takes
    <2>4. /\ DOMAIN envelopes' = DOMAIN envelopes /\ envelopes' \in Seq(Takes)
          /\ \A j \in DOMAIN envelopes : envelopes'[j] = envelopes[j]
                                         \/ envelopes'[j] = [envelopes[j] EXCEPT !.stage = stage]
      BY <1>a, <2>2, <2>3
    <2>5. \A j \in DOMAIN envelopes : envelopes[j] \in Takes
      BY <1>a
    <2>6. TakesTrue'
      BY <2>3, <2>4, <2>5, TakesMoveOn
    <2> QED BY <1>0, <2>2, <2>4, <2>6 DEF PanelInv, PanelTyped, PanelTrue, PanelShown
  <1>10. CASE DismissTake
    BY <1>0, <1>10 DEF DismissTake, PanelInv, PanelTyped, PanelTrue, PanelShown, TakesTrue, Statuses
  <1>11. CASE UNCHANGED panelVars
    BY <1>0, <1>11 DEF panelVars, PanelInv, PanelTyped, PanelTrue, PanelShown, TakesTrue
  <1> QED BY <1>1, <1>2, <1>3, <1>4, <1>5, <1>7, <1>8, <1>9, <1>10, <1>11 DEF PanelNext

LEMMA PanelHolds ==
    PanelInv => /\ RemovedAsConfirmed
                /\ panel.pct \in Percents /\ panel.asked \in Percents \cup {0}
                /\ taking \in {"idle", "signing", "submitting", "success", "error"}
  BY DEF PanelInv, PanelTyped, PanelTrue, TakesTrue, RemovedAsConfirmed, Panels, Statuses

-----------------------------------------------------------------------------
(* PositionScreens, the range: one transaction at a time is in flight, and    *)
(* the page's status is its stage.                                            *)

Ranges == [is : PositionRanges \cup {<<>>}, lower : Int, upper : Int]
Flight == {"signing", "submitting"}
Moves == [from : PositionRanges \cup {<<>>}, to : Int \X Int, stage : Flight \cup {"success", "error"}]

RangeInv ==
    /\ range \in Ranges /\ moving \in Statuses /\ reranges \in Seq(Moves)
    /\ \A i \in DOMAIN reranges :
          /\ reranges[i].to[1] < reranges[i].to[2] /\ reranges[i].to # reranges[i].from
          /\ reranges[i].stage \in Flight => moving = reranges[i].stage
    /\ \A i, j \in DOMAIN reranges :
          reranges[i].stage \in Flight /\ reranges[j].stage \in Flight => i = j

LEMMA NearTyped == \A t \in Int : Near(t) \in Int
  <1> SUFFICES ASSUME NEW t \in Int PROVE Near(t) \in Int
    OBVIOUS
  <1>1. 2 * RangeSpacing \in Int /\ 2 * RangeSpacing > 0 /\ 2 * t + RangeSpacing \in Int /\ RangeSpacing \in Int
    BY PositionScreensAssumption
  <1> DEFINE d == 2 * RangeSpacing
             n == 2 * t + RangeSpacing
  <1>2. d \in Int /\ d > 0 /\ n \in Int
    BY <1>1
  <1> HIDE DEF d, n
  <1>3. n \div d \in Int
    BY <1>2
  <1>4. (n \div d) * RangeSpacing \in Int
    BY <1>1, <1>3
  <1> QED BY <1>4 DEF Near, d, n

LEMMA RangeInitial == RangeInit => RangeInv
  <1> SUFFICES ASSUME RangeInit PROVE RangeInv
    OBVIOUS
  <1> QED BY DEF RangeInit, RangeInv, Ranges, Statuses

LEMMA RangeStep == RangeInv /\ [RangeNext]_rangeVars => RangeInv'
  <1> SUFFICES ASSUME RangeInv, [RangeNext]_rangeVars PROVE RangeInv'
    OBVIOUS
  <1>0. /\ range \in Ranges /\ moving \in Statuses /\ reranges \in Seq(Moves)
        /\ \A i \in DOMAIN reranges :
              /\ reranges[i].to[1] < reranges[i].to[2] /\ reranges[i].to # reranges[i].from
              /\ reranges[i].stage \in Flight => moving = reranges[i].stage
        /\ \A i, j \in DOMAIN reranges :
              reranges[i].stage \in Flight /\ reranges[j].stage \in Flight => i = j
    BY DEF RangeInv
  <1>1. ASSUME NEW is \in PositionRanges, RangeArrives(is) PROVE RangeInv'
    <2>5. is \in RangeTicks \X RangeTicks
      BY DEF PositionRanges
    <2>6. is[1] \in RangeTicks /\ is[2] \in RangeTicks
      BY <2>5
    <2>1. is[1] \in Int /\ is[2] \in Int /\ RangeSpacing \in Int
      <3>1. RangeTicks \subseteq Int
        BY PositionScreensAssumption
      <3>2. RangeSpacing \in Int
        BY PositionScreensAssumption
      <3> QED BY <2>6, <3>1, <3>2
    <2>2. is[1] - RangeSpacing \in Int /\ is[2] + RangeSpacing \in Int
      BY <2>1
    <2>3. Near(is[1] - RangeSpacing) \in Int /\ Near(is[2] + RangeSpacing) \in Int
      BY <2>2, NearTyped
    <2>4. range' \in Ranges /\ UNCHANGED <<moving, reranges>>
      BY <1>1, <2>3 DEF RangeArrives, Proposed, Ranges
    <2> QED BY <1>0, <2>4 DEF RangeInv
  <1>2. ASSUME NEW side \in {"lower", "upper"}, NEW t \in RangeTicks, TypeBound(side, t) PROVE RangeInv'
    <2>1. Near(t) \in Int
      BY NearTyped, PositionScreensAssumption
    <2>2. range' = [range EXCEPT ![side] = Near(t)] /\ UNCHANGED <<moving, reranges>>
      BY <1>2 DEF TypeBound
    <2>3. range' \in Ranges
      <3>1. CASE side = "lower"
        BY <1>0, <2>1, <2>2, <3>1 DEF Ranges
      <3>2. CASE side = "upper"
        BY <1>0, <2>1, <2>2, <3>2 DEF Ranges
      <3> QED BY <3>1, <3>2
    <2> QED BY <1>0, <2>2, <2>3 DEF RangeInv
  <1>3. CASE PressRerange
    <2>1. /\ reranges' = Append(reranges, MoveEnvelope) /\ moving' = "signing" /\ range' = range
          /\ moving \notin Flight /\ range.lower < range.upper /\ <<range.lower, range.upper>> # range.is
      BY <1>3 DEF PressRerange, RangeBusy, MovesSomewhere, Flight
    <2>2. /\ MoveEnvelope \in Moves /\ MoveEnvelope.to[1] < MoveEnvelope.to[2]
          /\ MoveEnvelope.to # MoveEnvelope.from /\ MoveEnvelope.stage = "signing"
      BY <1>0, <2>1 DEF MoveEnvelope, Moves, Ranges, Flight
    <2> DEFINE e == MoveEnvelope
               n == Len(reranges) + 1
    <2>3. /\ DOMAIN reranges' = DOMAIN reranges \cup {n} /\ reranges'[n] = e
          /\ \A i \in DOMAIN reranges : reranges'[i] = reranges[i]
          /\ reranges' \in Seq(Moves)
      BY <1>0, <2>1, <2>2
    <2>4. \A i \in DOMAIN reranges : reranges[i].stage \notin Flight
      BY <1>0, <2>1
    <2>5. e.to[1] < e.to[2] /\ e.to # e.from /\ e.stage = "signing"
      BY <2>2
    <2> HIDE DEF e, n
    <2>6. \A i \in DOMAIN reranges' :
             /\ reranges'[i].to[1] < reranges'[i].to[2] /\ reranges'[i].to # reranges'[i].from
             /\ reranges'[i].stage \in Flight => moving' = reranges'[i].stage
      BY <1>0, <2>1, <2>3, <2>4, <2>5
    <2>7. \A i, j \in DOMAIN reranges' :
             reranges'[i].stage \in Flight /\ reranges'[j].stage \in Flight => i = j
      BY <2>3, <2>4
    <2>8. range' \in Ranges /\ moving' \in Statuses
      BY <1>0, <2>1 DEF Statuses
    <2> QED BY <2>3, <2>6, <2>7, <2>8 DEF RangeInv
  <1>4. CASE DismissRerange
    <2>1. moving = "error" /\ moving' = "idle" /\ UNCHANGED <<range, reranges>>
      BY <1>4 DEF DismissRerange
    <2>2. \A i \in DOMAIN reranges : reranges[i].stage \notin Flight
      BY <1>0, <2>1 DEF Flight
    <2> QED BY <1>0, <2>1, <2>2 DEF RangeInv, Statuses
  <1>5. ASSUME NEW i \in DOMAIN reranges, RangeProceeds(i) PROVE RangeInv'
    <2>1. PICK to \in {"submitting", "success", "error"} :
             /\ reranges[i].stage \in Flight
             /\ reranges' = [reranges EXCEPT ![i].stage = to] /\ moving' = to /\ range' = range
      <3>1. PICK step \in {<<"signing", "submitting">>, <<"signing", "error">>,
                           <<"submitting", "success">>, <<"submitting", "error">>} :
               /\ reranges[i].stage = step[1]
               /\ reranges' = [reranges EXCEPT ![i].stage = step[2]] /\ moving' = step[2]
        BY <1>5 DEF RangeProceeds
      <3>2. range' = range
        BY <1>5 DEF RangeProceeds
      <3>3. step[1] \in {"signing", "submitting"} /\ step[2] \in {"submitting", "success", "error"}
        BY <3>1
      <3> QED BY <3>1, <3>2, <3>3 DEF Flight
    <2>2. \A t \in Moves : /\ [t EXCEPT !.stage = to] \in Moves /\ [t EXCEPT !.stage = to].from = t.from
                           /\ [t EXCEPT !.stage = to].to = t.to /\ [t EXCEPT !.stage = to].stage = to
      BY DEF Moves, Flight
    <2>3. reranges[i] \in Moves
      BY <1>0
    <2>4. /\ DOMAIN reranges' = DOMAIN reranges
          /\ \A j \in DOMAIN reranges \ {i} : reranges'[j] = reranges[j]
          /\ reranges'[i] = [reranges[i] EXCEPT !.stage = to]
      BY <1>0, <2>1
    <2>5. /\ reranges'[i] \in Moves /\ reranges'[i].from = reranges[i].from
          /\ reranges'[i].to = reranges[i].to /\ reranges'[i].stage = to
      BY <2>2, <2>3, <2>4
    <2>6. reranges' \in Seq(Moves)
      BY <1>0, <2>1, <2>2, <2>3
    <2>7. \A j \in DOMAIN reranges \ {i} : reranges[j].stage \notin Flight
      BY <1>0, <2>1
    <2>8. \A j \in DOMAIN reranges' :
             /\ reranges'[j].to[1] < reranges'[j].to[2] /\ reranges'[j].to # reranges'[j].from
             /\ reranges'[j].stage \in Flight => moving' = reranges'[j].stage
      BY <1>0, <2>1, <2>4, <2>5, <2>7
    <2>9. \A j, k \in DOMAIN reranges' :
             reranges'[j].stage \in Flight /\ reranges'[k].stage \in Flight => j = k
      BY <2>4, <2>7
    <2>10. range' \in Ranges /\ moving' \in Statuses
      BY <1>0, <2>1 DEF Statuses
    <2> QED BY <2>6, <2>8, <2>9, <2>10 DEF RangeInv
  <1>6. CASE UNCHANGED rangeVars
    BY <1>0, <1>6 DEF rangeVars, RangeInv
  <1> QED BY <1>1, <1>2, <1>3, <1>4, <1>5, <1>6 DEF RangeNext

LEMMA RangeHolds ==
    RangeInv => RangeMovedOnce /\ moving \in {"idle", "signing", "submitting", "success", "error"}
  <1> SUFFICES ASSUME RangeInv
               PROVE  RangeMovedOnce /\ moving \in {"idle", "signing", "submitting", "success", "error"}
    OBVIOUS
  <1> DEFINE out == {i \in DOMAIN reranges : reranges[i].stage \in {"signing", "submitting"}}
  <1>1. \A i, j \in out : i = j
    BY DEF RangeInv, Flight
  <1>2. Cardinality(out) <= 1
    <2>1. CASE out = {}
      BY <2>1, FS_EmptySet
    <2>2. CASE out # {}
      <3>1. PICK i \in out : TRUE
        BY <2>2
      <3>2. out = {i}
        BY <1>1, <3>1
      <3> HIDE DEF out
      <3>3. Cardinality(out) = 1
        BY <3>2, FS_Singleton
      <3> QED BY <3>3
    <2> QED BY <2>1, <2>2
  <1> QED BY <1>2 DEF RangeInv, RangeMovedOnce, Flight, Statuses

-----------------------------------------------------------------------------
(* PositionScreens, the portfolio: what a load has got stands, in the list it *)
(* is cut from, no earlier than in what was got.                              *)

Drawn(got, all) == \A i \in DOMAIN got : \E j \in DOMAIN all : j >= i /\ got[i] = all[j]

Fetches == [n : Nat, token : Tokens, got : Seq(Positions)]
FolioLists == [items : Seq(Positions), of : Nat, whole : Seq(Positions), newest : Nat]

FolioInv ==
    /\ api \in [Tokens -> Seq(Positions)] /\ held \in Tokens \cup {NoOne}
    /\ listed \in FolioLists /\ fetches \subseteq Fetches /\ loads \in 0..MaxLoads
    /\ pending \in Positions \cup {NoOne}
    /\ collects \subseteq Positions \X (Tokens \cup {NoOne})
    /\ listed.items = listed.whole /\ listed.of = listed.newest /\ listed.newest <= loads
    /\ \A f \in fetches : Drawn(f.got, api[f.token])

\* As many as the total and none twice, they are all of it.
LEMMA DrawnWhole ==
    ASSUME NEW all \in Seq(Positions), NEW got \in Seq(Positions),
           Drawn(got, all), Accepts(got, Len(all)), Len(got) = Len(all)
    PROVE  got = all
  <1> DEFINE n == Len(all)
             S == {d \in Nat : d < n /\ got[n - d] # all[n - d]}
  <1>0. n \in Nat /\ DOMAIN got = 1..n /\ DOMAIN all = 1..n
    OBVIOUS
  <1>1. \A i, j \in 1..n : got[i] = got[j] => i = j
    <2>1. got \in [1..n -> ToSet(got)] /\ \A t \in ToSet(got) : \E i \in 1..n : got[i] = t
      BY <1>0 DEF ToSet
    <2>2. got \in Surjection(1..n, ToSet(got))
      BY <2>1 DEF Surjection
    <2>3. IsFiniteSet(1..n) /\ Cardinality(1..n) = n
      <3> HIDE DEF n
      <3>1. 1 \in Int /\ n \in Int /\ (IF 1 > n THEN 0 ELSE n - 1 + 1) = n
        BY <1>0
      <3>2. IsFiniteSet(1..n) /\ Cardinality(1..n) = IF 1 > n THEN 0 ELSE n - 1 + 1
        BY <3>1, FS_Interval, Zenon
      <3> QED BY <3>1, <3>2
    <2>4. Cardinality(ToSet(got)) = n
      BY DEF Accepts
    <2> HIDE DEF n
    <2>5. got \in Injection(1..n, ToSet(got))
      BY <2>2, <2>3, <2>4, FS_SurjSameCardinalityImpliesInj
    <2> QED BY <2>5 DEF Injection, IsInjective
  <1>2. CASE S = {}
    <2>1. ASSUME NEW i \in 1..n PROVE got[i] = all[i]
      <3>1. n - i \in Nat /\ n - i < n /\ n - (n - i) = i
        BY <1>0
      <3>2. n - i \notin S
        BY <1>2
      <3> QED BY <3>1, <3>2
    <2> QED BY <1>0, <2>1
  <1>3. CASE S # {}
    <2>1. PICK d \in S : \A f \in S : d <= f
      <3>1. S \subseteq Nat
        OBVIOUS
      <3> HIDE DEF S
      <3> QED BY <1>3, <3>1, LeastNatural
    <2>2. d \in Nat /\ d < n /\ got[n - d] # all[n - d] /\ n - d \in 1..n
      BY <1>0
    <2>3. PICK j \in 1..n : j >= n - d /\ got[n - d] = all[j]
      BY <1>0, <2>2 DEF Drawn
    <2>4. j # n - d
      BY <2>2, <2>3
    <2>5. n - j \in Nat /\ n - j < n /\ n - (n - j) = j /\ ~(d <= n - j)
      <3> HIDE DEF n
      <3>1. j \in Nat /\ j >= 1 /\ j <= n /\ j >= n - d /\ j # n - d /\ d \in Nat
        BY <1>0, <2>2, <2>3, <2>4
      <3> QED BY <1>0, <3>1
    <2>6. n - j \notin S
      BY <2>1, <2>5
    <2>7. got[j] = all[j]
      BY <2>5, <2>6
    <2>8. got[j] = got[n - d]
      BY <2>3, <2>7
    <2> QED BY <1>1, <2>2, <2>4, <2>8
  <1> QED BY <1>2, <1>3

\* A position opened meanwhile moves the others back.
LEMMA DrawnOpened ==
    ASSUME NEW all \in Seq(Positions), NEW got \in Seq(Positions), NEW p \in Positions, Drawn(got, all)
    PROVE  <<p>> \o all \in Seq(Positions) /\ Drawn(got, <<p>> \o all)
  <1> DEFINE new == <<p>> \o all
  <1>1. new \in Seq(Positions) /\ Len(new) = Len(all) + 1
    OBVIOUS
  <1>2. \A j \in 1..Len(all) : new[j + 1] = all[j]
    OBVIOUS
  <1>3. DOMAIN all = 1..Len(all) /\ DOMAIN new = 1..Len(all) + 1 /\ Len(all) \in Nat
    BY <1>1
  <1>4. DOMAIN got \subseteq Nat
    OBVIOUS
  <1> HIDE DEF new
  <1>5. ASSUME NEW i \in DOMAIN got PROVE \E j \in DOMAIN new : j >= i /\ got[i] = new[j]
    <2>1. PICK j \in DOMAIN all : j >= i /\ got[i] = all[j]
      BY DEF Drawn
    <2>2. j + 1 \in DOMAIN new /\ j + 1 >= i /\ new[j + 1] = all[j]
      BY <1>2, <1>3, <1>4, <2>1
    <2> QED BY <2>1, <2>2
  <1>6. Drawn(got, new)
    BY <1>5 DEF Drawn
  <1> QED BY <1>1, <1>6 DEF new

LEMMA DrawnNext ==
    ASSUME NEW all \in Seq(Positions), NEW got \in Seq(Positions), Drawn(got, all),
           Len(got) + 1 <= Len(all)
    PROVE  LET next == Append(got, all[Len(got) + 1])
           IN  next \in Seq(Positions) /\ Drawn(next, all)
  <1> DEFINE at == Len(got) + 1
             next == Append(got, all[at])
  <1>1. at \in DOMAIN all /\ at \in Nat /\ all[at] \in Positions
    OBVIOUS
  <1>2. /\ next \in Seq(Positions) /\ DOMAIN next = DOMAIN got \cup {at} /\ next[at] = all[at]
        /\ \A i \in DOMAIN got : next[i] = got[i]
    BY <1>1
  <1> HIDE DEF at, next
  <1>3. Drawn(next, all)
    BY <1>1, <1>2 DEF Drawn
  <1> QED BY <1>2, <1>3 DEF next, at

LEMMA FolioInitial == FolioInit => FolioInv
  <1> SUFFICES ASSUME FolioInit PROVE FolioInv
    OBVIOUS
  <1>1. {<<>>} \cup {<<p>> : p \in Positions} \subseteq Seq(Positions)
    <2>1. <<>> \in Seq(Positions)
      OBVIOUS
    <2>2. ASSUME NEW p \in Positions PROVE <<p>> \in Seq(Positions)
      OBVIOUS
    <2> QED BY <2>1, <2>2
  <1>2. api \in [Tokens -> Seq(Positions)]
    BY <1>1 DEF FolioInit
  <1>3. 0 \in 0..MaxLoads
    BY PositionScreensAssumption
  <1> QED BY <1>2, <1>3 DEF FolioInit, FolioInv, NoList, FolioLists

\* A load is begun, or the lists are emptied.
LEMMA RefreshKeeps ==
    ASSUME FolioInv, NEW token \in Tokens \cup {NoOne}, Refresh(token), api' = api
    PROVE  /\ listed' \in FolioLists /\ fetches' \subseteq Fetches /\ loads' \in 0..MaxLoads
           /\ listed'.items = listed'.whole /\ listed'.of = listed'.newest /\ listed'.newest <= loads'
           /\ \A f \in fetches' : Drawn(f.got, api'[f.token])
  <1>1. loads \in Nat /\ loads' = loads + 1 /\ loads' \in 0..MaxLoads
    BY PositionScreensAssumption DEF FolioInv, Refresh
  <1>2. CASE token = NoOne
    <2>1. listed' = [NoList EXCEPT !.of = loads', !.newest = loads'] /\ fetches' = fetches
      BY <1>2 DEF Refresh
    <2>2. listed' = [items |-> <<>>, of |-> loads', whole |-> <<>>, newest |-> loads']
      BY <2>1 DEF NoList
    <2>3. /\ listed' \in FolioLists /\ listed'.items = listed'.whole
          /\ listed'.of = listed'.newest /\ listed'.newest <= loads'
      BY <1>1, <2>2 DEF FolioLists
    <2> QED BY <1>1, <2>1, <2>3 DEF FolioInv
  <1>3. CASE token # NoOne
    <2> DEFINE e == [n |-> loads', token |-> token, got |-> <<>>]
    <2>1. fetches' = fetches \cup {e} /\ listed' = listed
      BY <1>3 DEF Refresh
    <2>2. e \in Fetches /\ DOMAIN e.got = {}
      BY <1>1, <1>3 DEF Fetches
    <2>3. listed \in FolioLists /\ listed.newest \in Nat
      BY DEF FolioInv, FolioLists
    <2> HIDE DEF e
    <2>4. Drawn(e.got, api[e.token])
      BY <2>2 DEF Drawn
    <2>5. \A f \in fetches' : Drawn(f.got, api'[f.token])
      BY <2>1, <2>4 DEF FolioInv
    <2>6. listed'.newest <= loads'
      BY <1>1, <2>1, <2>3 DEF FolioInv
    <2> QED BY <1>1, <2>1, <2>2, <2>5, <2>6 DEF FolioInv
  <1> QED BY <1>2, <1>3

LEMMA FolioStep == FolioInv /\ [FolioNext]_folioVars => FolioInv'
  <1> SUFFICES ASSUME FolioInv, [FolioNext]_folioVars PROVE FolioInv'
    OBVIOUS
  <1>0. /\ api \in [Tokens -> Seq(Positions)] /\ held \in Tokens \cup {NoOne}
        /\ listed \in FolioLists /\ fetches \subseteq Fetches /\ loads \in 0..MaxLoads
        /\ pending \in Positions \cup {NoOne}
        /\ collects \subseteq Positions \X (Tokens \cup {NoOne})
        /\ listed.items = listed.whole /\ listed.of = listed.newest /\ listed.newest <= loads
        /\ \A f \in fetches : Drawn(f.got, api[f.token])
    BY DEF FolioInv
  <1>1. ASSUME NEW token \in Tokens \cup {NoOne}, ReadToken(token) PROVE FolioInv'
    <2>1. held' = token /\ Refresh(token) /\ UNCHANGED <<api, pending, collects>>
      BY <1>1 DEF ReadToken
    <2> QED BY <1>0, <2>1, RefreshKeeps DEF FolioInv
  <1>2. ASSUME NEW token \in Tokens, SignIn(token) PROVE FolioInv'
    <2>1. /\ held' = token /\ Refresh(token) /\ api' = api /\ pending' = NoOne
          /\ collects' = collects \cup {<<p, NoOne>> : p \in {pending} \cap ToSet(listed.items)}
      BY <1>2 DEF SignIn
    <2>2. ToSet(listed.items) \subseteq Positions
      BY <1>0 DEF FolioLists, ToSet
    <2>3. collects' \subseteq Positions \X (Tokens \cup {NoOne})
      BY <1>0, <2>1, <2>2
    <2> QED BY <1>0, <2>1, <2>3, RefreshKeeps DEF FolioInv
  <1>3. CASE RefreshAgain
    <2>1. Refresh(held) /\ UNCHANGED <<api, held, pending, collects>>
      BY <1>3 DEF RefreshAgain
    <2> QED BY <1>0, <2>1, RefreshKeeps DEF FolioInv
  <1>4. ASSUME NEW token \in Tokens, NEW p \in Positions, OpenPosition(token, p) PROVE FolioInv'
    <2>1. /\ api' = [api EXCEPT ![token] = <<p>> \o api[token]]
          /\ UNCHANGED <<held, listed, fetches, loads, pending, collects>>
      BY <1>4 DEF OpenPosition
    <2>2. ASSUME NEW s \in Seq(Positions) PROVE <<p>> \o s \in Seq(Positions)
      OBVIOUS
    <2>3. api' \in [Tokens -> Seq(Positions)]
      BY <1>0, <2>1, <2>2
    <2>4. ASSUME NEW f \in fetches PROVE Drawn(f.got, api'[f.token])
      <3>1. f.got \in Seq(Positions) /\ f.token \in Tokens /\ Drawn(f.got, api[f.token])
        BY <1>0 DEF Fetches
      <3>2. CASE f.token = token
        <4>1. api'[f.token] = <<p>> \o api[f.token] /\ api[f.token] \in Seq(Positions)
          BY <1>0, <2>1, <3>2
        <4> QED BY <3>1, <4>1, DrawnOpened
      <3>3. CASE f.token # token
        BY <1>0, <2>1, <3>1, <3>3
      <3> QED BY <3>2, <3>3
    <2> QED BY <1>0, <2>1, <2>3, <2>4 DEF FolioInv
  <1>5. ASSUME NEW p \in Positions, PressCollect(p) PROVE FolioInv'
    <2>1. /\ UNCHANGED <<api, held, listed, fetches, loads>>
          /\ \/ pending' = p /\ collects' = collects
             \/ collects' = collects \cup {<<p, held>>} /\ pending' = pending
      BY <1>5 DEF PressCollect
    <2> QED BY <1>0, <2>1 DEF FolioInv
  <1>6. ASSUME NEW f \in fetches, PageArrives(f) PROVE FolioInv'
    <2> DEFINE all == api[f.token]
               at == Len(f.got) + 1
               got == IF at <= Len(all) THEN Append(f.got, all[at]) ELSE f.got
               whole == Accepts(got, Len(all)) /\ Len(got) = Len(all)
               more == Accepts(got, Len(all)) /\ got # f.got /\ Len(got) < Len(all)
               g == [f EXCEPT !.got = got]
    <2>1. /\ fetches' = (fetches \ {f}) \cup IF more THEN {g} ELSE {}
          /\ listed' = IF whole /\ Counts(f)
                       THEN [items |-> got, of |-> f.n, whole |-> all,
                             newest |-> IF f.n > listed.newest THEN f.n ELSE listed.newest]
                       ELSE listed
          /\ UNCHANGED <<api, held, loads, pending, collects>>
      BY <1>6 DEF PageArrives
    <2>2. f \in Fetches /\ f.got \in Seq(Positions) /\ f.token \in Tokens /\ f.n \in Nat /\ all \in Seq(Positions)
          /\ Drawn(f.got, all)
      BY <1>0 DEF Fetches
    <2>3. got \in Seq(Positions) /\ Drawn(got, all)
      <3>1. CASE at <= Len(all)
        BY <2>2, <3>1, DrawnNext
      <3>2. CASE ~(at <= Len(all))
        BY <2>2, <3>2
      <3> QED BY <3>1, <3>2
    <2>4. whole => got = all
      BY <2>2, <2>3, DrawnWhole
    <2>5. all = api[f.token]
      OBVIOUS
    <2> HIDE DEF got, all
    <2>6. g \in Fetches /\ g.got = got /\ g.token = f.token
      BY <2>2, <2>3 DEF Fetches
    <2> HIDE DEF g, more
    <2>7. fetches' \subseteq Fetches
      BY <1>0, <2>1, <2>6
    <2>8. \A e \in fetches' : Drawn(e.got, api'[e.token])
      BY <1>0, <2>1, <2>3, <2>5, <2>6
    <2> HIDE DEF whole
    <2>9. CASE whole /\ Counts(f)
      <3>1. listed' = [items |-> got, of |-> f.n, whole |-> all,
                       newest |-> IF f.n > listed.newest THEN f.n ELSE listed.newest]
        BY <2>1, <2>9
      <3>2. listed.newest \in Nat /\ f.n = loads
        BY <1>0, <2>9 DEF FolioLists, Counts
      <3>3. (IF f.n > listed.newest THEN f.n ELSE listed.newest) = f.n
        BY <1>0, <2>2, <3>2
      <3>4. listed' = [items |-> got, of |-> f.n, whole |-> got, newest |-> f.n]
        BY <2>4, <2>9, <3>1, <3>3
      <3>5. /\ listed' \in FolioLists /\ listed'.items = listed'.whole /\ listed'.of = listed'.newest
            /\ listed'.newest <= loads
        BY <2>2, <2>3, <3>2, <3>4 DEF FolioLists
      <3> QED BY <1>0, <2>1, <2>7, <2>8, <3>5 DEF FolioInv
    <2>10. CASE ~(whole /\ Counts(f))
      <3>1. listed' = listed
        BY <2>1, <2>10
      <3> QED BY <1>0, <2>1, <2>7, <2>8, <3>1 DEF FolioInv
    <2> QED BY <2>9, <2>10
  <1>7. ASSUME NEW f \in fetches, FetchFails(f) PROVE FolioInv'
    BY <1>0, <1>7 DEF FolioInv, FetchFails
  <1>8. ASSUME NEW c \in collects, CollectEnds(c) PROVE FolioInv'
    <2>1. /\ collects' = collects \ {c} /\ UNCHANGED <<api, held, pending>>
          /\ \/ UNCHANGED <<listed, fetches, loads>>
             \/ Refresh(c[2])
      BY <1>8 DEF CollectEnds
    <2>2. c[2] \in Tokens \cup {NoOne}
      BY <1>0
    <2>3. CASE UNCHANGED <<listed, fetches, loads>>
      BY <1>0, <2>1, <2>3 DEF FolioInv
    <2>4. CASE Refresh(c[2])
      <3>1. collects' \subseteq Positions \X (Tokens \cup {NoOne})
        BY <1>0, <2>1
      <3> QED BY <1>0, <2>1, <2>2, <2>4, <3>1, RefreshKeeps DEF FolioInv
    <2> QED BY <2>1, <2>3, <2>4
  <1>9. CASE UNCHANGED folioVars
    BY <1>0, <1>9 DEF folioVars, FolioInv
  <1> QED BY <1>1, <1>2, <1>3, <1>4, <1>5, <1>6, <1>7, <1>8, <1>9 DEF FolioNext

LEMMA FolioHolds ==
    FolioInv => /\ PortfolioWhole
                /\ held \in Tokens \cup {NoOne} /\ loads \in 0..MaxLoads
                /\ pending \in Positions \cup {NoOne}
                /\ \A c \in collects : c[1] \in Positions
  BY DEF FolioInv, PortfolioWhole

-----------------------------------------------------------------------------
(* AddLiquidity: a usable tick stays where it is, and the amounts follow the  *)
(* range because nothing goes with an amount outside of it.                   *)

LEMMA ProductMonotone ==
    ASSUME NEW a \in Int, NEW b \in Int, NEW d \in Nat, a <= b
    PROVE  d * a <= d * b
  OBVIOUS

LEMMA ProductNatural ==
    ASSUME NEW a \in Nat, NEW b \in Nat
    PROVE  a * b \in Nat
  OBVIOUS

LEMMA QuotientBounds ==
    ASSUME NEW n \in Int, NEW d \in Nat \ {0}
    PROVE  /\ n \div d \in Int
           /\ d * (n \div d) <= n /\ n < d * (n \div d) + d
  OBVIOUS

LEMMA QuotientUnique ==
    ASSUME NEW n \in Int, NEW d \in Nat \ {0}, NEW q \in Int, d * q <= n, n < d * q + d
    PROVE  n \div d = q
  <1> DEFINE k == n \div d
  <1>1. k \in Int /\ d * k <= n /\ n < d * k + d
    BY QuotientBounds
  <1> HIDE DEF k
  <1>2. ASSUME k >= q + 1 PROVE FALSE
    <2>1. d * (q + 1) <= d * k
      BY <1>1, <1>2, ProductMonotone
    <2>2. d * (q + 1) = d * q + d
      OBVIOUS
    <2>3. d * q \in Int /\ d * k \in Int
      BY <1>1
    <2> QED BY <1>1, <2>1, <2>2, <2>3
  <1>3. ASSUME q >= k + 1 PROVE FALSE
    <2>1. d * (k + 1) <= d * q
      BY <1>1, <1>3, ProductMonotone
    <2>2. d * (k + 1) = d * k + d
      BY <1>1
    <2>3. d * q \in Int /\ d * k \in Int
      BY <1>1
    <2> QED BY <1>1, <2>1, <2>2, <2>3
  <1>4. k = q
    BY <1>1, <1>2, <1>3
  <1> QED BY <1>4 DEF k

LEMMA QuotientNatural ==
    ASSUME NEW n \in Nat, NEW d \in Nat \ {0}
    PROVE  n \div d \in Nat
  <1> DEFINE k == n \div d
  <1>1. k \in Int /\ n < d * k + d
    BY QuotientBounds
  <1> HIDE DEF k
  <1>2. ASSUME k <= -1 PROVE FALSE
    <2>1. d * k <= d * (-1)
      BY <1>1, <1>2, ProductMonotone
    <2> QED BY <1>1, <2>1
  <1> QED BY <1>1, <1>2 DEF k

LEMMA ClampTyped ==
    ASSUME NEW t \in Int
    PROVE  /\ Clamp(t) \in -LastTick..LastTick
           /\ Clamp(t) = t \/ Clamp(t) \in {-LastTick, LastTick}
  BY AddLiquidityAssumption DEF Clamp

\* A tick is rounded to a multiple of the spacing at most half of it away.
LEMMA UsableRounds ==
    ASSUME NEW t \in Int, NEW s \in Nat \ {0}
    PROVE  \E q \in Int : /\ q = (2 * t + s) \div (2 * s) /\ Usable(t, s) = Clamp(q * s)
                          /\ 2 * (q * s) <= 2 * t + s /\ 2 * t < 2 * (q * s) + s
  <1> DEFINE n == 2 * t + s
             d == 2 * s
             q == n \div d
  <1>1. n \in Int /\ d \in Nat \ {0}
    OBVIOUS
  <1>2. q \in Int /\ d * q <= n /\ n < d * q + d
    <2> HIDE DEF n, d
    <2> QED BY <1>1, QuotientBounds
  <1>3. Usable(t, s) = Clamp(q * s)
    BY DEF Usable
  <1>4. q = (2 * t + s) \div (2 * s)
    OBVIOUS
  <1> HIDE DEF q
  <1>5. d * q = 2 * (q * s) /\ q * s \in Int
    BY <1>2
  <1>6. 2 * (q * s) <= 2 * t + s /\ 2 * t < 2 * (q * s) + s
    <2> DEFINE m == q * s
    <2>1. d * q = 2 * m /\ m \in Int
      BY <1>5
    <2>2. 2 * m <= n /\ n < 2 * m + d
      BY <1>2, <2>1
    <2> HIDE DEF m
    <2>3. 2 * m <= 2 * t + s /\ 2 * t < 2 * m + s
      BY <2>1, <2>2
    <2> QED BY <2>3 DEF m
  <1> QED BY <1>2, <1>3, <1>4, <1>6

\* A tick of the pool is its own.
LEMMA MultipleUsable ==
    ASSUME NEW q \in Int, NEW s \in Nat \ {0}
    PROVE  Usable(q * s, s) = Clamp(q * s)
  <1> DEFINE d == 2 * s
             n == 2 * (q * s) + s
  <1>1. q * s \in Int /\ d * q = 2 * (q * s)
    OBVIOUS
  <1>2. d \in Nat \ {0} /\ n \in Int /\ d * q <= n /\ n < d * q + d
    BY <1>1
  <1>3. n \div d = q
    <2> HIDE DEF n, d
    <2> QED BY <1>2, QuotientUnique
  <1> QED BY <1>3 DEF Usable

LEMMA UsableSound ==
    ASSUME NEW t \in Int, NEW s \in Nat \ {0}
    PROVE  /\ Usable(t, s) \in -LastTick..LastTick
           /\ Usable(Usable(t, s), s) = Usable(t, s) \/ Usable(t, s) \in {-LastTick, LastTick}
  <1>1. PICK q \in Int : Usable(t, s) = Clamp(q * s)
    BY UsableRounds
  <1>2. q * s \in Int
    OBVIOUS
  <1>3. Usable(q * s, s) = Clamp(q * s)
    BY MultipleUsable
  <1>4. /\ Clamp(q * s) \in -LastTick..LastTick
        /\ Clamp(q * s) = q * s \/ Clamp(q * s) \in {-LastTick, LastTick}
    BY <1>2, ClampTyped
  <1> QED BY <1>1, <1>3, <1>4

LEMMA SelectorSettles ==
    ASSUME NEW t \in Int
    PROVE  Usable(Usable(t, SelectorSpacing), SelectorSpacing) = Usable(t, SelectorSpacing)
  BY UsableSound, EndsAssumption, AddLiquidityAssumption

\* The first bounds of a pool are around the tick it is at.
LEMMA FirstBounds ==
    ASSUME NEW t \in -LastTick..LastTick, NEW s \in Nat \ {0}
    PROVE  Usable(t - s * HalfWidth, s) < Usable(t + s * HalfWidth, s)
  <1>1. LastTick \in Int /\ LastTick > 0 /\ HalfWidth \in Int /\ HalfWidth >= 1 /\ s * HalfWidth \in Int
    BY AddLiquidityAssumption
  <1>2. s * HalfWidth >= s
    <2>1. s * 1 <= s * HalfWidth
      BY <1>1, ProductMonotone
    <2> QED BY <1>1, <2>1
  <1> DEFINE w == s * HalfWidth
  <1>3. PICK q \in Int : /\ Usable(t - w, s) = Clamp(q * s)
                         /\ 2 * (q * s) <= 2 * (t - w) + s /\ 2 * (t - w) < 2 * (q * s) + s
    <2>1. t - w \in Int
      BY <1>1
    <2> QED BY <2>1, UsableRounds
  <1>4. PICK r \in Int : /\ Usable(t + w, s) = Clamp(r * s)
                         /\ 2 * (r * s) <= 2 * (t + w) + s /\ 2 * (t + w) < 2 * (r * s) + s
    <2>1. t + w \in Int
      BY <1>1
    <2> QED BY <2>1, UsableRounds
  <1> DEFINE lo == q * s
             hi == r * s
  <1>5. w \in Int /\ w >= s /\ lo \in Int /\ hi \in Int /\ s \in Int /\ s >= 1
    BY <1>1, <1>2
  <1> HIDE DEF w, lo, hi
  <1>6. 2 * lo <= 2 * (t - w) + s /\ 2 * (t + w) < 2 * hi + s
    BY <1>3, <1>4 DEF lo, hi
  <1>7. lo < hi /\ lo < LastTick /\ hi > -LastTick
    BY <1>1, <1>5, <1>6
  <1>8. Clamp(lo) < Clamp(hi)
    BY <1>1, <1>5, <1>7 DEF Clamp
  <1> QED BY <1>3, <1>4, <1>8 DEF w, lo, hi

\* What goes with an amount is an amount, and none goes with none.
LEMMA NeedTyped ==
    ASSUME NEW k \in {0, 1}, NEW n \in Nat, NEW d,
           d.lower \in Int, d.upper \in Int, d.pool.tick \in Int
    PROVE  Need(k, n, d) \in Nat /\ (n = 0 => Need(k, n, d) = 0)
  <1> DEFINE below == d.pool.tick - d.lower
             above == d.upper - d.pool.tick
  <1>1. below \in Int /\ above \in Int
    OBVIOUS
  <1>2. Need(k, n, d) = IF below <= 0 \/ above <= 0 THEN 0
                        ELSE IF k = 0 THEN (n * below) \div above ELSE (n * above) \div below
    BY DEF Need
  <1> HIDE DEF below, above
  <1>3. CASE below <= 0 \/ above <= 0
    BY <1>2, <1>3
  <1>4. CASE ~(below <= 0 \/ above <= 0)
    <2>1. below \in Nat \ {0} /\ above \in Nat \ {0}
      BY <1>1, <1>4
    <2>2. n * below \in Nat /\ n * above \in Nat
      BY <2>1, ProductNatural
    <2>3. (n * below) \div above \in Nat /\ (n * above) \div below \in Nat
      BY <2>1, <2>2, QuotientNatural
    <2>4. n = 0 => n * below = 0 /\ n * above = 0
      BY <2>1
    <2>5. 0 \div above = 0 /\ 0 \div below = 0
      <3>1. above * 0 <= 0 /\ 0 < above * 0 + above /\ below * 0 <= 0 /\ 0 < below * 0 + below
        BY <2>1
      <3> QED BY <2>1, <3>1, QuotientUnique
    <2> QED BY <1>2, <1>4, <2>3, <2>4, <2>5
  <1> QED BY <1>3, <1>4

Deposits == [pool : AddPools \cup {NoPool}, lower : -LastTick..LastTick, upper : -LastTick..LastTick,
             amount : [1..2 -> Nat], last : 0..2]
AddStages == {"signing", "submitting", "over"}
Adds == [lower : Int, upper : Int, units : Nat, stage : AddStages, here : BOOLEAN]
Messages == [status : {"idle", "signing", "submitting", "success", "error"},
             why : {"none", "rejected", "network", "failed"}]

\* The amounts agree, in the range of d.
Follows(d) ==
    d.pool # NoPool /\ d.last # 2 => Amount(d, 1 - d.last) = Need(d.last, Amount(d, d.last), d)

\* A bound is a tick of the pool, or an end of the axis.
BoundsUsable(d) ==
    d.pool # NoPool =>
      /\ \A side \in Sides : d[side] = Usable(d[side], d.pool.spacing) \/ d[side] \in {-LastTick, LastTick}
      /\ d.pool.spacing = SelectorSpacing => d.lower < d.upper

AddTyped ==
    /\ deposit \in Deposits /\ adding \in Messages /\ adds \in Seq(Adds) /\ Len(adds) <= MaxAdds

AddsSound == \A i \in DOMAIN adds : adds[i].lower < adds[i].upper /\ adds[i].units > 0

Open(a) == a.here /\ a.stage # "over"
AddOwn ==
    /\ AddUnderWay <=> \E i \in DOMAIN adds : Open(adds[i])
    /\ \A i \in DOMAIN adds : Open(adds[i]) => adding.status = adds[i].stage
    /\ \A i, j \in DOMAIN adds : Open(adds[i]) /\ Open(adds[j]) => i = j

AddInv == AddTyped /\ Follows(deposit) /\ BoundsUsable(deposit) /\ AddsSound /\ AddOwn

LEMMA PoolTyped ==
    ASSUME NEW d \in Deposits
    PROVE  /\ d.lower \in Int /\ d.upper \in Int /\ d.pool.tick \in Int /\ d.last \in 0..2
           /\ \A k \in {0, 1} : Amount(d, k) \in Nat
           /\ d.pool # NoPool => d.pool.spacing \in Nat \ {0} /\ d.pool.tick \in -LastTick..LastTick
  <1>1. LastTick \in Nat /\ CurrentTicks \subseteq -LastTick..LastTick
    BY AddLiquidityAssumption
  <1>2. Spacings \subseteq Nat \ {0}
    BY AddLiquidityAssumption
  <1>3. d.pool \in AddPools \cup {NoPool} /\ d.amount \in [1..2 -> Nat]
    BY DEF Deposits
  <1>4. d.pool.tick \in Int
    <2>1. CASE d.pool = NoPool
      BY <2>1 DEF NoPool
    <2>2. CASE d.pool \in AddPools
      <3>1. d.pool.tick \in CurrentTicks
        BY <2>2 DEF AddPools
      <3>2. \A t \in CurrentTicks : t \in Int
        <4>1. \A t \in -LastTick..LastTick : t \in Int
          BY <1>1
        <4> QED BY <1>1, <4>1
      <3> QED BY <3>1, <3>2
    <2> QED BY <1>3, <2>1, <2>2
  <1>5. d.lower \in Int /\ d.upper \in Int /\ d.last \in 0..2
    BY <1>1 DEF Deposits
  <1>6. \A k \in {0, 1} : Amount(d, k) \in Nat
    BY <1>3 DEF Amount
  <1>7. ASSUME d.pool # NoPool PROVE d.pool.spacing \in Nat \ {0} /\ d.pool.tick \in -LastTick..LastTick
    <2>1. d.pool \in AddPools
      BY <1>3, <1>7
    <2>2. d.pool.spacing \in Spacings /\ d.pool.tick \in CurrentTicks
      BY <2>1 DEF AddPools
    <2> QED BY <1>1, <1>2, <2>2
  <1> QED BY <1>4, <1>5, <1>6, <1>7

\* An amount is entered, and the other with it.
LEMMA AmountsEntered ==
    ASSUME NEW d \in Deposits, NEW k \in {0, 1}, NEW n \in Nat
    PROVE  LET e == WithAmounts(d, k, n)
           IN  /\ e \in Deposits /\ Follows(e) /\ e.pool = d.pool
               /\ e.lower = d.lower /\ e.upper = d.upper
  <1> DEFINE a == [i \in 1..2 |-> IF i = k + 1 THEN n ELSE Need(k, n, d)]
             e == WithAmounts(d, k, n)
  <1>1. Need(k, n, d) \in Nat
    BY NeedTyped, PoolTyped
  <1>2. a \in [1..2 -> Nat]
    BY <1>1
  <1>3. a[k + 1] = n /\ a[(1 - k) + 1] = Need(k, n, d)
    OBVIOUS
  <1>4. e = [d EXCEPT !.amount = a, !.last = k]
    BY DEF WithAmounts
  <1> HIDE DEF a, e
  <1>5. /\ e \in Deposits /\ e.pool = d.pool /\ e.lower = d.lower /\ e.upper = d.upper
        /\ e.amount = a /\ e.last = k
    <2>1. e.pool = d.pool /\ e.lower = d.lower /\ e.upper = d.upper
      BY <1>4 DEF Deposits
    <2>2. e.amount = a /\ e.last = k
      BY <1>4 DEF Deposits
    <2>3. e = [pool |-> e.pool, lower |-> e.lower, upper |-> e.upper, amount |-> e.amount, last |-> e.last]
      BY <1>4 DEF Deposits
    <2>4. e.pool \in AddPools \cup {NoPool} /\ e.lower \in -LastTick..LastTick /\ e.upper \in -LastTick..LastTick
      BY <2>1 DEF Deposits
    <2>5. e.amount \in [1..2 -> Nat] /\ e.last \in 0..2
      BY <1>2, <2>2
    <2>6. e \in Deposits
      BY <2>3, <2>4, <2>5 DEF Deposits
    <2> QED BY <2>1, <2>2, <2>6
  <1>6. Need(k, n, e) = Need(k, n, d)
    BY <1>5 DEF Need
  <1>7. Amount(e, k) = n /\ Amount(e, 1 - k) = Need(k, n, d)
    BY <1>3, <1>5 DEF Amount
  <1>8. Follows(e)
    BY <1>5, <1>6, <1>7 DEF Follows
  <1> QED BY <1>5, <1>8 DEF e

\* Whatever the range becomes, the amounts are brought to it.
LEMMA SyncedFollows ==
    ASSUME NEW c \in Deposits, NEW d \in Deposits, Follows(c),
           d.pool = c.pool, d.amount = c.amount, d.last = c.last
    PROVE  /\ Synced(d) \in Deposits /\ Follows(Synced(d)) /\ Synced(d).pool = d.pool
           /\ Synced(d).lower = d.lower /\ Synced(d).upper = d.upper
  <1>1. CASE d.last = 2
    BY <1>1 DEF Synced, Follows
  <1>2. CASE d.last # 2 /\ Amount(d, d.last) = 0
    <2>1. d.last \in {0, 1} /\ Amount(c, d.last) = 0
      BY <1>2, PoolTyped DEF Amount
    <2>2. Need(d.last, 0, c) = 0 /\ Need(d.last, 0, d) = 0
      BY <2>1, NeedTyped, PoolTyped
    <2>3. d.pool # NoPool => Amount(d, 1 - d.last) = 0
      BY <1>2, <2>1, <2>2 DEF Follows, Amount
    <2>4. Follows(d)
      BY <1>2, <2>2, <2>3 DEF Follows
    <2> QED BY <1>2, <2>4 DEF Synced
  <1>3. CASE d.last # 2 /\ Amount(d, d.last) # 0
    <2>1. d.last \in {0, 1}
      BY <1>3, PoolTyped
    <2>2. Amount(d, d.last) \in Nat
      BY <2>1, PoolTyped
    <2> QED BY <1>3, <2>1, <2>2, AmountsEntered DEF Synced
  <1> QED BY <1>1, <1>2, <1>3

\* The range of the form changes to one that is sound.
LEMMA RangeChanges ==
    ASSUME AddInv, NEW d \in Deposits, deposit' = Synced(d), d.pool = deposit.pool,
           d.amount = deposit.amount, d.last = deposit.last, BoundsUsable(d),
           UNCHANGED <<adding, adds>>
    PROVE  AddInv'
  <1>1. deposit \in Deposits /\ Follows(deposit)
    BY DEF AddInv, AddTyped
  <1>2. /\ deposit' \in Deposits /\ Follows(deposit') /\ deposit'.pool = d.pool
        /\ deposit'.lower = d.lower /\ deposit'.upper = d.upper
    BY <1>1, SyncedFollows
  <1>3. BoundsUsable(deposit')
    <2>1. \A side \in Sides : deposit'[side] = d[side]
      <3>1. deposit'["lower"] = d["lower"] /\ deposit'["upper"] = d["upper"]
        BY <1>2
      <3> QED BY <3>1 DEF Sides
    <2> QED BY <1>2, <2>1 DEF BoundsUsable
  <1> QED BY <1>2, <1>3 DEF AddInv, AddTyped, AddsSound, AddOwn, AddUnderWay

LEMMA AddInitial == AddInit => AddInv
  <1> SUFFICES ASSUME AddInit PROVE AddInv
    OBVIOUS
  <1>1. LastTick \in Nat /\ MaxAdds \in Nat
    BY AddLiquidityAssumption
  <1>2. deposit = BlankForm /\ adding = AddIdle /\ adds = <<>>
    BY DEF AddInit
  <1>3. BlankForm \in Deposits
    BY <1>1 DEF BlankForm, Deposits
  <1>4. AddIdle \in Messages /\ AddIdle.status = "idle"
    BY DEF AddIdle, Messages
  <1>5. BlankForm.pool = NoPool
    BY DEF BlankForm
  <1>6. AddTyped
    BY <1>1, <1>2, <1>3, <1>4 DEF AddTyped
  <1>7. Follows(deposit) /\ BoundsUsable(deposit)
    BY <1>2, <1>5 DEF Follows, BoundsUsable
  <1>8. AddsSound /\ AddOwn
    BY <1>2, <1>4 DEF AddsSound, AddOwn, AddUnderWay
  <1> QED BY <1>6, <1>7, <1>8 DEF AddInv

LEMMA SelectPoolKeeps ==
    ASSUME AddInv, NEW pool \in AddPools, SelectPool(pool)
    PROVE  AddInv'
  <1> DEFINE lo == Usable(pool.tick - pool.spacing * HalfWidth, pool.spacing)
             hi == Usable(pool.tick + pool.spacing * HalfWidth, pool.spacing)
  <1>1. /\ deposit' = [deposit EXCEPT !.pool = pool, !.amount = <<0, 0>>, !.lower = lo, !.upper = hi]
        /\ UNCHANGED <<adding, adds>>
    BY DEF SelectPool, AddMove
  <1>2. deposit \in Deposits
    BY DEF AddInv, AddTyped
  <1>3. pool.tick \in -LastTick..LastTick /\ pool.spacing \in Nat \ {0} /\ HalfWidth \in Nat /\ LastTick \in Nat
    <2>1. pool.tick \in CurrentTicks /\ pool.spacing \in Spacings
      BY DEF AddPools
    <2>2. CurrentTicks \subseteq -LastTick..LastTick
      BY AddLiquidityAssumption
    <2>3. Spacings \subseteq Nat \ {0}
      BY AddLiquidityAssumption
    <2>4. HalfWidth \in Nat /\ LastTick \in Nat
      BY AddLiquidityAssumption
    <2> QED BY <2>1, <2>2, <2>3, <2>4
  <1>4. pool.tick - pool.spacing * HalfWidth \in Int /\ pool.tick + pool.spacing * HalfWidth \in Int
    BY <1>3
  <1>5. lo < hi
    BY <1>3, FirstBounds
  <1>6. /\ lo = Usable(lo, pool.spacing) \/ lo \in {-LastTick, LastTick}
        /\ hi = Usable(hi, pool.spacing) \/ hi \in {-LastTick, LastTick}
    BY <1>3, <1>4, UsableSound
  <1>7. lo \in -LastTick..LastTick /\ hi \in -LastTick..LastTick
    BY <1>3, <1>4, UsableSound
  <1> HIDE DEF lo, hi
  <1>8. /\ deposit'.pool = pool /\ deposit'.amount = <<0, 0>> /\ deposit'.lower = lo /\ deposit'.upper = hi
    BY <1>1, <1>2 DEF Deposits
  <1>9. deposit'.last = deposit.last
    BY <1>1, <1>2 DEF Deposits
  <1>10. deposit' \in Deposits
    <2>1. deposit' = [pool |-> deposit'.pool, lower |-> deposit'.lower, upper |-> deposit'.upper,
                      amount |-> deposit'.amount, last |-> deposit'.last]
      BY <1>1, <1>2 DEF Deposits
    <2>2. <<0, 0>> \in [1..2 -> Nat]
      OBVIOUS
    <2>3. deposit.last \in 0..2
      BY <1>2 DEF Deposits
    <2> QED BY <1>7, <1>8, <1>9, <2>1, <2>2, <2>3 DEF Deposits
  <1>11. Follows(deposit')
    <2>1. SUFFICES ASSUME deposit'.last # 2
                   PROVE  Amount(deposit', 1 - deposit'.last)
                            = Need(deposit'.last, Amount(deposit', deposit'.last), deposit')
      BY DEF Follows
    <2>2. deposit'.last \in {0, 1}
      BY <1>10, <2>1, PoolTyped
    <2>3. Amount(deposit', deposit'.last) = 0 /\ Amount(deposit', 1 - deposit'.last) = 0
      BY <1>8, <2>2 DEF Amount
    <2>4. Need(deposit'.last, 0, deposit') = 0
      BY <1>10, <2>2, NeedTyped, PoolTyped
    <2> QED BY <2>3, <2>4
  <1>12. BoundsUsable(deposit')
    <2>1. \A side \in Sides : deposit'[side] = lo \/ deposit'[side] = hi
      BY <1>8 DEF Sides
    <2> QED BY <1>5, <1>6, <1>8, <2>1 DEF BoundsUsable
  <1> QED BY <1>1, <1>10, <1>11, <1>12 DEF AddInv, AddTyped, AddsSound, AddOwn, AddUnderWay

\* A bound is set to a tick of the pool, in order when the selector's spacing is the pool's.
LEMMA SetBoundKeeps ==
    ASSUME AddInv, deposit.pool # NoPool, NEW side \in Sides, NEW t \in Int, SetBound(side, t),
           deposit.pool.spacing = SelectorSpacing => KeepsOrder(side, Usable(t, SelectorSpacing)),
           UNCHANGED <<adding, adds>>
    PROVE  AddInv'
  <1> DEFINE u == Usable(t, deposit.pool.spacing)
             d == [deposit EXCEPT ![side] = u]
  <1>1. deposit \in Deposits /\ BoundsUsable(deposit)
    BY DEF AddInv, AddTyped
  <1>2. deposit.pool.spacing \in Nat \ {0}
    BY <1>1, PoolTyped
  <1>3. u \in -LastTick..LastTick /\ (u = Usable(u, deposit.pool.spacing) \/ u \in {-LastTick, LastTick})
    BY <1>2, UsableSound
  <1>4. deposit' = Synced(d)
    BY DEF SetBound
  <1>5. deposit.pool.spacing = SelectorSpacing => KeepsOrder(side, u)
    OBVIOUS
  <1> HIDE DEF u
  <1>6. d \in Deposits /\ d.pool = deposit.pool /\ d.amount = deposit.amount /\ d.last = deposit.last
    BY <1>1, <1>3 DEF Deposits, Sides
  <1>7. CASE side = "lower"
    <2>1. d.lower = u /\ d.upper = deposit.upper
      BY <1>1, <1>7 DEF Deposits
    <2>2. deposit.pool.spacing = SelectorSpacing => u < deposit.upper
      BY <1>5, <1>7 DEF KeepsOrder
    <2>3. BoundsUsable(d)
      BY <1>1, <1>3, <1>6, <2>1, <2>2 DEF BoundsUsable, Sides
    <2> HIDE DEF d
    <2> QED BY <1>4, <1>6, <2>3, RangeChanges
  <1>8. CASE side = "upper"
    <2>1. d.upper = u /\ d.lower = deposit.lower
      BY <1>1, <1>8 DEF Deposits
    <2>2. deposit.pool.spacing = SelectorSpacing => u > deposit.lower
      BY <1>5, <1>8 DEF KeepsOrder
    <2>4. deposit.lower \in Int /\ u \in Int
      BY <1>1, <1>3, PoolTyped
    <2>3. BoundsUsable(d)
      BY <1>1, <1>3, <1>6, <2>1, <2>2, <2>4 DEF BoundsUsable, Sides
    <2> HIDE DEF d
    <2> QED BY <1>4, <1>6, <2>3, RangeChanges
  <1> QED BY <1>7, <1>8 DEF Sides

LEMMA FullRangeKeeps ==
    ASSUME AddInv, FullRange
    PROVE  AddInv'
  <1> DEFINE lo == -LastTick
             hi == LastTick
             d == [deposit EXCEPT !.lower = lo, !.upper = hi]
  <1>1. deposit \in Deposits /\ deposit' = Synced(d) /\ UNCHANGED <<adding, adds>>
    BY DEF AddInv, AddTyped, FullRange, Widen, AddMove
  <1>2. LastTick \in Nat \ {0}
    BY AddLiquidityAssumption
  <1>3. lo \in -LastTick..LastTick /\ hi \in -LastTick..LastTick
    BY <1>2
  <1>5. d = [deposit EXCEPT !.lower = lo, !.upper = hi]
    OBVIOUS
  <1> HIDE DEF lo, hi, d
  <1>4. /\ d \in Deposits /\ d.lower = lo /\ d.upper = hi /\ d.pool = deposit.pool
        /\ d.amount = deposit.amount /\ d.last = deposit.last
    <2>1. d.lower = lo /\ d.upper = hi /\ d.pool = deposit.pool
      BY <1>1, <1>5 DEF Deposits
    <2>2. d.amount = deposit.amount /\ d.last = deposit.last
      BY <1>1, <1>5 DEF Deposits
    <2>3. d = [pool |-> d.pool, lower |-> d.lower, upper |-> d.upper, amount |-> d.amount, last |-> d.last]
      BY <1>1, <1>5 DEF Deposits
    <2>4. /\ deposit.pool \in AddPools \cup {NoPool} /\ deposit.amount \in [1..2 -> Nat]
          /\ deposit.last \in 0..2
      BY <1>1 DEF Deposits
    <2>5. d \in Deposits
      BY <1>3, <2>1, <2>2, <2>3, <2>4 DEF Deposits
    <2> QED BY <2>1, <2>2, <2>5
  <1>6. BoundsUsable(d)
    BY <1>2, <1>4 DEF BoundsUsable, Sides, lo, hi
  <1> QED BY <1>1, <1>4, <1>6, RangeChanges

\* A transaction moves on, and the form follows the one that is its own.
LEMMA AddMovesKeep ==
    ASSUME AddInv, NEW i \in DOMAIN adds, adds[i].stage # "over",
           NEW stage \in {"submitting", "over"}, NEW shown \in Messages,
           IF stage = "over" THEN shown.status \in {"success", "error"} ELSE shown.status = stage,
           AddMovesOn(i, stage, shown)
    PROVE  AddInv'
  <1>0. /\ deposit \in Deposits /\ adding \in Messages /\ adds \in Seq(Adds) /\ Len(adds) <= MaxAdds
        /\ AddsSound /\ AddOwn
    BY DEF AddInv, AddTyped
  <1>1. /\ adds' = [adds EXCEPT ![i].stage = stage]
        /\ adding' = IF adds[i].here THEN shown ELSE adding
        /\ deposit' = deposit
    BY DEF AddMovesOn
  <1>2. \A a \in Adds : LET b == [a EXCEPT !.stage = stage]
                        IN  /\ b \in Adds /\ b.lower = a.lower /\ b.upper = a.upper /\ b.units = a.units
                            /\ b.here = a.here /\ b.stage = stage
    BY DEF Adds, AddStages
  <1>3. \A j \in DOMAIN adds : adds[j] \in Adds
    BY <1>0
  <1>4. /\ DOMAIN adds' = DOMAIN adds /\ adds'[i] = [adds[i] EXCEPT !.stage = stage]
        /\ \A j \in DOMAIN adds \ {i} : adds'[j] = adds[j]
    BY <1>0, <1>1
  <1>5. /\ adds'[i] \in Adds /\ adds'[i].lower = adds[i].lower /\ adds'[i].upper = adds[i].upper
        /\ adds'[i].units = adds[i].units /\ adds'[i].here = adds[i].here /\ adds'[i].stage = stage
    BY <1>2, <1>3, <1>4
  <1>6. adds' \in Seq(Adds) /\ Len(adds') = Len(adds)
    BY <1>0, <1>1, <1>4, <1>5
  <1>7. AddsSound'
    BY <1>0, <1>4, <1>5 DEF AddsSound
  <1>8. adding' \in Messages
    BY <1>0, <1>1
  <1>9. AddOwn'
    <2>1. CASE ~adds[i].here
      <3>1. \A j \in DOMAIN adds : Open(adds'[j]) <=> Open(adds[j])
        BY <1>4, <1>5, <2>1 DEF Open
      <3>2. \A j \in DOMAIN adds : Open(adds[j]) => adds'[j] = adds[j]
        BY <1>4, <2>1 DEF Open
      <3>3. adding' = adding
        BY <1>1, <2>1
      <3> QED BY <1>0, <1>4, <3>1, <3>2, <3>3 DEF AddOwn, AddUnderWay
    <2>2. CASE adds[i].here
      <3>1. Open(adds[i])
        BY <2>2 DEF Open
      <3>2. \A j \in DOMAIN adds \ {i} : ~Open(adds[j])
        BY <1>0, <3>1 DEF AddOwn
      <3>3. \A j \in DOMAIN adds \ {i} : ~Open(adds'[j])
        BY <1>4, <3>2
      <3>4. Open(adds'[i]) <=> stage # "over"
        BY <1>5, <2>2 DEF Open
      <3>5. adding' = shown
        BY <1>1, <2>2
      <3>6. CASE stage = "over"
        <4>1. \A j \in DOMAIN adds' : ~Open(adds'[j])
          BY <1>4, <3>3, <3>4, <3>6
        <4>2. ~AddUnderWay'
          BY <3>5, <3>6 DEF AddUnderWay
        <4> QED BY <4>1, <4>2 DEF AddOwn
      <3>7. CASE stage = "submitting"
        <4>1. Open(adds'[i]) /\ i \in DOMAIN adds' /\ adding'.status = adds'[i].stage
          BY <1>4, <1>5, <3>4, <3>5, <3>7
        <4>2. \A j \in DOMAIN adds' : Open(adds'[j]) => j = i
          BY <1>4, <3>3
        <4>3. AddUnderWay'
          BY <3>5, <3>7 DEF AddUnderWay
        <4> QED BY <4>1, <4>2, <4>3 DEF AddOwn
      <3> QED BY <3>6, <3>7
    <2> QED BY <2>1, <2>2
  <1> QED BY <1>0, <1>1, <1>6, <1>7, <1>8, <1>9 DEF AddInv, AddTyped

LEMMA PressAddKeeps ==
    ASSUME AddInv, PressAdd
    PROVE  AddInv'
  <1>0. /\ deposit \in Deposits /\ adding \in Messages /\ adds \in Seq(Adds) /\ Len(adds) <= MaxAdds
        /\ AddsSound /\ AddOwn
    BY DEF AddInv, AddTyped
  <1>1. Len(adds) < MaxAdds /\ ~AddUnderWay /\ deposit' = deposit
    BY DEF PressAdd
  <1>2. MaxAdds \in Nat
    BY AddLiquidityAssumption
  <1>3. \A j \in DOMAIN adds : ~Open(adds[j])
    BY <1>0, <1>1 DEF AddOwn
  <1>4. CASE Builds(deposit)
    <2> DEFINE e == [lower |-> deposit.lower, upper |-> deposit.upper, units |-> LiquidityUnits(deposit),
                     stage |-> "signing", here |-> TRUE]
               n == Len(adds) + 1
    <2>1. adds' = Append(adds, e) /\ adding' = [status |-> "signing", why |-> "none"]
      BY <1>4 DEF PressAdd
    <2>2. LiquidityUnits(deposit) \in Nat /\ LiquidityUnits(deposit) > 0
      <3>1. Amount(deposit, 0) \in Nat /\ Amount(deposit, 1) \in Nat
        BY <1>0, PoolTyped
      <3>2. Amount(deposit, 0) > 0 \/ Amount(deposit, 1) > 0
        BY DEF PressAdd
      <3> QED BY <3>1, <3>2 DEF LiquidityUnits
    <2>3. deposit.lower \in Int /\ deposit.upper \in Int
      BY <1>0, PoolTyped
    <2>4. e \in Adds
      BY <2>2, <2>3 DEF Adds, AddStages
    <2>5. e.lower < e.upper /\ e.units > 0 /\ e.stage = "signing" /\ Open(e)
      BY <1>4, <2>2 DEF Builds, Open
    <2> HIDE DEF e
    <2>6. /\ DOMAIN adds' = DOMAIN adds \cup {n} /\ adds'[n] = e /\ adds' \in Seq(Adds)
          /\ \A j \in DOMAIN adds : adds'[j] = adds[j]
      BY <1>0, <2>1, <2>4
    <2>7. Len(adds') <= MaxAdds
      BY <1>0, <1>1, <1>2, <2>1, <2>4
    <2> HIDE DEF n
    <2>8. AddsSound'
      BY <1>0, <2>5, <2>6 DEF AddsSound
    <2>9. adding' \in Messages /\ adding'.status = "signing"
      BY <2>1 DEF Messages
    <2>10. AddOwn'
      <3>1. \A j \in DOMAIN adds' : Open(adds'[j]) => j = n
        BY <1>3, <2>6
      <3>2. Open(adds'[n]) /\ n \in DOMAIN adds' /\ adding'.status = adds'[n].stage
        BY <2>5, <2>6, <2>9
      <3>3. AddUnderWay'
        BY <2>9 DEF AddUnderWay
      <3> QED BY <3>1, <3>2, <3>3 DEF AddOwn
    <2> QED BY <1>1, <2>6, <2>7, <2>8, <2>9, <2>10 DEF AddInv, AddTyped
  <1>5. CASE ~Builds(deposit)
    <2>1. adding' = AddError("network") /\ adds' = adds
      BY <1>5 DEF PressAdd
    <2>2. adding' \in Messages /\ adding'.status = "error"
      BY <2>1 DEF AddError, Messages
    <2>3. AddOwn'
      BY <1>3, <2>1, <2>2 DEF AddOwn, AddUnderWay
    <2> QED BY <1>0, <1>1, <2>1, <2>2, <2>3 DEF AddInv, AddTyped, AddsSound
  <1> QED BY <1>4, <1>5

\* The form starts over: it has no transaction of its own.
LEMMA FormAnew ==
    ASSUME deposit' = BlankForm, adding' = AddIdle, adds' \in Seq(Adds), Len(adds') <= MaxAdds, AddsSound',
           \A i \in DOMAIN adds' : ~Open(adds'[i])
    PROVE  AddInv'
  <1>1. LastTick \in Nat
    BY AddLiquidityAssumption
  <1>2. BlankForm \in Deposits /\ BlankForm.pool = NoPool
    BY <1>1 DEF BlankForm, Deposits
  <1>3. AddIdle \in Messages /\ AddIdle.status = "idle"
    BY DEF AddIdle, Messages
  <1>4. AddTyped'
    BY <1>2, <1>3 DEF AddTyped
  <1>5. Follows(deposit') /\ BoundsUsable(deposit')
    BY <1>2 DEF Follows, BoundsUsable
  <1>6. AddOwn'
    BY <1>3 DEF AddOwn, AddUnderWay
  <1> QED BY <1>4, <1>5, <1>6 DEF AddInv

LEMMA AddStep == AddInv /\ [AddNext]_addVars => AddInv'
  <1> SUFFICES ASSUME AddInv, [AddNext]_addVars PROVE AddInv'
    OBVIOUS
  <1>0. /\ deposit \in Deposits /\ adding \in Messages /\ adds \in Seq(Adds) /\ Len(adds) <= MaxAdds
        /\ Follows(deposit) /\ BoundsUsable(deposit) /\ AddsSound /\ AddOwn
    BY DEF AddInv, AddTyped
  <1>e. \A t \in -LastTick..LastTick : t \in Int
    BY AddLiquidityAssumption
  <1>1. ASSUME NEW pool \in AddPools, SelectPool(pool) PROVE AddInv'
    BY <1>1, SelectPoolKeeps
  <1>2. ASSUME NEW side \in Sides, NEW t \in -LastTick..LastTick, Drag(side, t) PROVE AddInv'
    <2> DEFINE u == Usable(t, SelectorSpacing)
    <2>1. deposit.pool # NoPool /\ KeepsOrder(side, u) /\ SetBound(side, u) /\ UNCHANGED <<adding, adds>>
      BY <1>2 DEF Drag, AddMove
    <2>2. Usable(u, SelectorSpacing) = u
      BY <1>e, SelectorSettles
    <2>3. u \in Int
      <3>1. t \in Int /\ SelectorSpacing \in Nat \ {0}
        BY <1>e, AddLiquidityAssumption
      <3> QED BY <1>e, <3>1, UsableSound
    <2> HIDE DEF u
    <2> QED BY <2>1, <2>2, <2>3, SetBoundKeeps
  <1>3. ASSUME NEW side \in Sides, NEW t \in -LastTick..LastTick, TypePrice(side, t) PROVE AddInv'
    <2>1. /\ deposit.pool # NoPool /\ KeepsOrder(side, Usable(t, SelectorSpacing)) /\ SetBound(side, t)
          /\ UNCHANGED <<adding, adds>>
      BY <1>3 DEF TypePrice, AddMove
    <2> QED BY <1>e, <2>1, SetBoundKeeps
  <1>4. ASSUME NEW k \in {0, 1}, NEW n \in 0..MaxDeposit, EnterDeposit(k, n) PROVE AddInv'
    <2>1. deposit' = WithAmounts(deposit, k, n) /\ UNCHANGED <<adding, adds>>
      BY <1>4 DEF EnterDeposit, AddMove
    <2>2. n \in Nat
      BY AddLiquidityAssumption
    <2>3. /\ deposit' \in Deposits /\ Follows(deposit') /\ deposit'.pool = deposit.pool
          /\ deposit'.lower = deposit.lower /\ deposit'.upper = deposit.upper
      BY <1>0, <2>1, <2>2, AmountsEntered
    <2>4. deposit'["lower"] = deposit["lower"] /\ deposit'["upper"] = deposit["upper"]
      BY <2>3
    <2>5. BoundsUsable(deposit')
      BY <1>0, <2>3, <2>4 DEF BoundsUsable, Sides
    <2> QED BY <1>0, <2>1, <2>3, <2>5 DEF AddInv, AddTyped, AddsSound, AddOwn, AddUnderWay
  <1>5. CASE FullRange
    BY <1>5, FullRangeKeeps
  <1>6. CASE LeaveForm
    <2>1. /\ deposit' = BlankForm /\ adding' = AddIdle
          /\ adds' = [i \in DOMAIN adds |-> [adds[i] EXCEPT !.here = FALSE]]
      BY <1>6 DEF LeaveForm
    <2>2. \A a \in Adds : LET b == [a EXCEPT !.here = FALSE]
                          IN  b \in Adds /\ b.lower = a.lower /\ b.upper = a.upper
                              /\ b.units = a.units /\ ~b.here
      BY DEF Adds
    <2>3. \A i \in DOMAIN adds : adds[i] \in Adds /\ adds'[i] = [adds[i] EXCEPT !.here = FALSE]
      BY <1>0, <2>1
    <2>4. adds' \in Seq(Adds) /\ DOMAIN adds' = DOMAIN adds /\ Len(adds') = Len(adds)
      BY <1>0, <2>1, <2>2
    <2>5. \A i \in DOMAIN adds : /\ adds'[i].lower = adds[i].lower /\ adds'[i].upper = adds[i].upper
                                 /\ adds'[i].units = adds[i].units /\ ~adds'[i].here
      BY <2>2, <2>3
    <2>6. AddsSound'
      BY <1>0, <2>4, <2>5 DEF AddsSound
    <2>7. \A i \in DOMAIN adds' : ~Open(adds'[i])
      BY <2>4, <2>5 DEF Open
    <2> QED BY <1>0, <2>1, <2>4, <2>6, <2>7, FormAnew
  <1>7. CASE DismissAdd
    <2>1. deposit' = BlankForm /\ adding' = AddIdle /\ adds' = adds /\ adding.status \in {"success", "error"}
      BY <1>7 DEF DismissAdd
    <2>2. \A i \in DOMAIN adds : ~Open(adds[i])
      BY <1>0, <2>1 DEF AddOwn, AddUnderWay
    <2> QED BY <1>0, <2>1, <2>2, FormAnew DEF AddsSound
  <1>8. CASE PressAdd
    BY <1>8, PressAddKeeps
  <1>9. ASSUME NEW i \in DOMAIN adds, WalletAnswersAdd(i) PROVE AddInv'
    <2>1. adds[i].stage # "over"
      BY <1>9 DEF WalletAnswersAdd
    <2>2. CASE AddMovesOn(i, "submitting", [status |-> "submitting", why |-> "none"])
      <3>1. [status |-> "submitting", why |-> "none"] \in Messages
        BY DEF Messages
      <3> QED BY <2>1, <2>2, <3>1, AddMovesKeep
    <2>3. ASSUME NEW why \in {"rejected", "network"}, AddMovesOn(i, "over", AddError(why)) PROVE AddInv'
      <3>1. AddError(why) \in Messages /\ AddError(why).status = "error"
        BY DEF AddError, Messages
      <3> QED BY <2>1, <2>3, <3>1, AddMovesKeep
    <2> QED BY <1>9, <2>2, <2>3 DEF WalletAnswersAdd
  <1>10. ASSUME NEW i \in DOMAIN adds, AddEnds(i) PROVE AddInv'
    <2>1. adds[i].stage # "over"
      BY <1>10 DEF AddEnds
    <2>2. CASE AddMovesOn(i, "over", [status |-> "success", why |-> "none"])
      <3>1. [status |-> "success", why |-> "none"] \in Messages
        BY DEF Messages
      <3> QED BY <2>1, <2>2, <3>1, AddMovesKeep
    <2>3. ASSUME NEW why \in {"failed", "network", "rejected"}, AddMovesOn(i, "over", AddError(why)) PROVE AddInv'
      <3>1. AddError(why) \in Messages /\ AddError(why).status = "error"
        BY DEF AddError, Messages
      <3> QED BY <2>1, <2>3, <3>1, AddMovesKeep
    <2> QED BY <1>10, <2>2, <2>3 DEF AddEnds
  <1>11. CASE UNCHANGED addVars
    BY <1>0, <1>11 DEF addVars, AddInv, AddTyped, Follows, BoundsUsable, AddsSound, AddOwn, AddUnderWay
  <1> QED BY <1>1, <1>2, <1>3, <1>4, <1>5, <1>6, <1>7, <1>8, <1>9, <1>10, <1>11 DEF AddNext

LEMMA AddIsSound == AddInv => AddHolds
  <1> SUFFICES ASSUME AddInv PROVE AddHolds
    OBVIOUS
  <1>0. /\ deposit \in Deposits /\ adding \in Messages /\ adds \in Seq(Adds) /\ Len(adds) <= MaxAdds
        /\ Follows(deposit) /\ BoundsUsable(deposit) /\ AddsSound /\ AddOwn
    BY DEF AddInv, AddTyped
  <1>1. AddTypeOK
    <2>1. deposit.amount \in [1..2 -> Nat]
      BY <1>0 DEF Deposits
    <2>2. deposit.amount \in Seq(Nat)
      <3> DEFINE a == deposit.amount
      <3> HIDE DEF a
      <3>1. a = <<a[1], a[2]>> /\ a[1] \in Nat /\ a[2] \in Nat
        BY <2>1 DEF a
      <3>2. <<a[1], a[2]>> \in Seq(Nat)
        BY <3>1
      <3> QED BY <3>1, <3>2 DEF a
    <2> QED BY <1>0, <2>2 DEF AddTypeOK, Deposits, Messages
  <1>2. AmountsFollow
    <2> SUFFICES ASSUME deposit.pool # NoPool, deposit.last # 2
                 PROVE  /\ Amount(deposit, 1 - deposit.last)
                             = Need(deposit.last, Amount(deposit, deposit.last), deposit)
                        /\ \A k \in {0, 1} : Disabled(deposit, k) => Amount(deposit, k) = 0 \/ deposit.last = k
      BY DEF AmountsFollow
    <2>1. Amount(deposit, 1 - deposit.last) = Need(deposit.last, Amount(deposit, deposit.last), deposit)
      BY <1>0 DEF Follows
    <2>2. deposit.last \in {0, 1} /\ deposit.lower \in Int /\ deposit.upper \in Int /\ deposit.pool.tick \in Int
      BY <1>0, PoolTyped
    <2>3. ASSUME NEW k \in {0, 1}, Disabled(deposit, k), deposit.last # k PROVE Amount(deposit, k) = 0
      <3>1. k = 1 - deposit.last
        BY <2>2, <2>3
      <3>2. deposit.pool.tick < deposit.lower \/ deposit.pool.tick > deposit.upper
        BY <2>3 DEF Disabled, OnlyToken
      <3>3. deposit.pool.tick - deposit.lower <= 0 \/ deposit.upper - deposit.pool.tick <= 0
        BY <2>2, <3>2
      <3>4. Need(deposit.last, Amount(deposit, deposit.last), deposit) = 0
        BY <3>3 DEF Need
      <3> QED BY <2>1, <3>1, <3>4
    <2> QED BY <2>1, <2>3
  <1>3. RangeSound
    BY <1>0 DEF RangeSound, BoundsUsable, AddsSound
  <1>4. AddStatusOwn
    BY <1>0 DEF AddStatusOwn, AddOwn, Open
  <1> QED BY <1>1, <1>2, <1>3, <1>4 DEF AddHolds

-----------------------------------------------------------------------------
(* The screens together: each keeps its own invariant, whoever is in focus.  *)

ScreensInv ==
    FormInv /\ HistoryInv /\ HooksInv /\ AddInv /\ PanelInv /\ RangeInv /\ FolioInv

LEMMA ScreensInvariant == ClientsSpec => []ScreensInv
  <1>1. ClientsInit => ScreensInv
    BY SwapFormInitial, HistoryInitial, HooksInitial, AddInitial, PanelInitial, RangeInitial, FolioInitial
    DEF ClientsInit, ScreensInv
  <1>2. ScreensInv /\ [ClientsNext]_clientVars => ScreensInv'
    <2> SUFFICES ASSUME ScreensInv, [ClientsNext]_clientVars PROVE ScreensInv'
      OBVIOUS
    <2>1. [SwapFormNext]_formVars
      BY DEF ClientsNext, clientVars
    <2>2. [HistoryNext]_historyVars
      BY DEF ClientsNext, clientVars
    <2>3. [HooksNext]_hookVars
      BY DEF ClientsNext, clientVars
    <2>4. [AddNext]_addVars
      BY DEF ClientsNext, clientVars, positionVars
    <2>5. [PanelNext]_panelVars
      BY DEF ClientsNext, clientVars, positionVars
    <2>6. [RangeNext]_rangeVars
      BY DEF ClientsNext, clientVars, positionVars
    <2>7. [FolioNext]_folioVars
      BY DEF ClientsNext, clientVars, positionVars
    <2> QED BY <2>1, <2>2, <2>3, <2>4, <2>5, <2>6, <2>7, SwapFormStep, HistoryStep, HooksStep, AddStep,
               PanelStep, RangeStep, FolioStep
            DEF ScreensInv
  <1> QED BY <1>1, <1>2, PTL DEF ClientsSpec

\* Every screen hands over what it showed and shows what was asked for: the quote
\* confirmed is the one on screen (SwapWidget.tsx, SwapConfirmModal.tsx), a page of
\* the history is one its feed has (TransactionHistory.tsx), a spinner has a list
\* under way (useWebhooks.ts), the other amount follows the range
\* (useAddLiquidity.ts), a removal takes the share asked about
\* (RemoveLiquidityPanel.tsx), a range moves once at a time (rerange/page.tsx), and
\* the portfolio is whole (usePortfolio.ts), for any amounts, ticks, pages and loads.
THEOREM ScreensHoldCorrect == ClientsSpec => []ScreensHold
  <1>1. ScreensInv => ScreensHold
    <2> SUFFICES ASSUME ScreensInv PROVE ScreensHold
      OBVIOUS
    <2>1. FormInv /\ HistoryInv /\ HooksInv /\ AddInv /\ PanelInv /\ RangeInv /\ FolioInv
      BY DEF ScreensInv
    <2>2. SwapFormTypeOK /\ ConfirmedAsShown /\ PickerWhole
      BY <2>1, SwapHolds
    <2>3. HistoryHolds /\ HooksHold /\ AddHolds
      BY <2>1, HistoryIsTrue, AddIsSound DEF HooksInv
    <2>4. AccountTypeOK
      BY <2>1 DEF HistoryInv, HistoryTyped, Views, HooksInv, HooksTyped, AccountTypeOK
    <2>5. PositionScreensTypeOK
      BY <2>1, PanelHolds, RangeHolds, FolioHolds DEF PositionScreensTypeOK
    <2>6. RemovedAsConfirmed /\ RangeMovedOnce /\ PortfolioWhole
      BY <2>1, PanelHolds, RangeHolds, FolioHolds
    <2> QED BY <2>2, <2>3, <2>4, <2>5, <2>6 DEF ScreensHold
  <1> QED BY <1>1, ScreensInvariant, PTL
=============================================================================
