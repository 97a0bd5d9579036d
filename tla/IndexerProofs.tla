---------------------------- MODULE IndexerProofs ----------------------------
(***************************************************************************)
(* What holds of the indexer: of replaying dead letters for every number   *)
(* of events, requests and keys, of the ledger checkpoint for every set of *)
(* callers and ledgers, and of the pipeline for every stream of effects,   *)
(* every number of worker slots, every page size and every number of       *)
(* failures, crashes and shutdowns.                                        *)
(***************************************************************************)
EXTENDS IndexerPipeline, DeadLetterReplay, FiniteSetTheorems, WellFoundedInduction, TLAPS

----------------------------------------------------------------------------
(* Replaying dead letters: the inductive invariant                         *)

RequestStates == [pc : {"idle", "wait", "lost"} \cup Running \cup Answered,
                  key : RunKeys, todo : SUBSET Ids, entry : SUBSET Ids,
                  summary : Summary]

ReplayTyped ==
    /\ rows \in [Ids -> {"none", "dead", "recovered"}]
    /\ dlqJobs \in [Ids -> {"none", "waiting", "active", "failing", "failed"}]
    /\ indexed \subseteq Troubled
    /\ unrecorded \subseteq Troubled
    /\ request \in [Requests -> RequestStates]
    /\ inFlight \in [RunKeys -> SUBSET Requests]
    /\ remembered \in [RunKeys -> SUBSET Summary]
    /\ failures \in 0 .. MaxFailures
    /\ hiccups \in 0 .. MaxHiccups
    /\ deaths \in 0 .. MaxDeaths

\* The prefixes in front of a job's name are no more than the jobs that failed, so
\* that the name of a replay is a name.
Depths ==
    \A id \in Ids :
        /\ dlqJobs[id] # "none" => id[2] <= failures
        /\ dlqJobs[id] \in {"failing", "failed"} => id[2] < failures
        /\ rows[id] # "none" => id[2] < failures

\* A request works on rows that are there, and the one whose row it marks next
\* has had its replay enqueued, unless the event is indexed.
Enqueued ==
    \A r \in Requests :
        /\ \A id \in request[r].todo \cup request[r].entry : rows[id] # "none"
        /\ \A id \in request[r].entry :
              EventOf(id) \in indexed \/ dlqJobs[ReplayId(id)] # "none"
        /\ \A i, j \in request[r].entry : i = j

Trace(id) == \/ rows[id] = "dead"
             \/ dlqJobs[id] \in {"waiting", "active", "failing"}

\* An event that is not indexed has its first job, and each of its jobs a trace
\* at its own depth or deeper.
Traced ==
    \A e \in Troubled \ (indexed \cup unrecorded) :
        /\ dlqJobs[<<e, 0>>] # "none"
        /\ \A id \in Ids : EventOf(id) = e /\ dlqJobs[id] # "none" =>
              \E later \in Ids : EventOf(later) = e /\ id[2] <= later[2] /\ Trace(later)

StoreInv == Depths /\ Enqueued /\ Traced

\* The map has one request for each execution under way and nothing else, and who
\* waits has something to wait for.
FlightInv ==
    /\ \A r \in Requests : request[r].pc \in Running => inFlight[request[r].key] = {r}
    /\ \A k \in RunKeys : inFlight[k] # {} =>
          \E r \in Requests : /\ inFlight[k] = {r}
                              /\ request[r].pc \in Running /\ request[r].key = k
    /\ \A w \in Requests : request[w].pc = "wait" => inFlight[request[w].key] # {}

ReplayInv == ReplayTyped /\ StoreInv /\ FlightInv

----------------------------------------------------------------------------
(* Jobs, rows and their names                                              *)

LEMMA IdParts ==
    ASSUME NEW id \in Ids
    PROVE  /\ id[1] \in Troubled /\ EventOf(id) = id[1]
           /\ id[2] \in 0 .. MaxFailures /\ id[2] \in Nat
           /\ id = <<id[1], id[2]>>
BY ReplayAssumption DEF Ids, EventOf

\* A row's job has failed, so that its replay has a name.
LEMMA ReplayNamed ==
    ASSUME ReplayTyped, Depths, NEW id \in Ids, rows[id] # "none"
    PROVE  /\ ReplayId(id) \in Ids
           /\ EventOf(ReplayId(id)) = EventOf(id)
           /\ ReplayId(id)[2] = id[2] + 1
           /\ id[2] + 1 <= failures
<1>1. id[2] < failures /\ id[2] \in Nat /\ id[1] \in Troubled
  BY IdParts DEF Depths
<1>2. failures \in 0 .. MaxFailures
  BY DEF ReplayTyped
<1>3. id[2] + 1 \in 0 .. MaxFailures /\ id[2] + 1 <= failures
  BY <1>1, <1>2, ReplayAssumption
<1>4. ReplayId(id) = <<id[1], id[2] + 1>>
  BY DEF ReplayId
<1>5. QED
  BY <1>1, <1>3, <1>4 DEF Ids, EventOf

\* A request's fields, without its function.
LEMMA RequestTyped ==
    ASSUME ReplayTyped, NEW r \in Requests
    PROVE  /\ request[r] \in RequestStates
           /\ request[r].key \in RunKeys
           /\ request[r].todo \subseteq Ids
           /\ request[r].entry \subseteq Ids
           /\ request[r].summary \in Summary
BY DEF ReplayTyped, RequestStates

\* A step that leaves the rows and jobs alone, and gives no request work.
LEMMA StoreKept ==
    ASSUME StoreInv,
           UNCHANGED <<rows, dlqJobs, indexed, unrecorded, failures>>,
           \A r \in Requests : /\ request'[r].todo \subseteq request[r].todo
                               /\ request'[r].entry \subseteq request[r].entry
    PROVE  StoreInv'
<1>1. Depths'
  BY DEF StoreInv, Depths
<1>2. Enqueued'
  BY DEF StoreInv, Enqueued
<1>3. Traced'
  BY DEF StoreInv, Traced, Trace
<1>4. QED
  BY <1>1, <1>2, <1>3 DEF StoreInv

\* Adding a job by name: it is there afterwards, and no other has changed.
LEMMA AddedJob ==
    ASSUME ReplayTyped, NEW id \in Ids, dlqJobs' = Added(id)
    PROVE  /\ dlqJobs' \in [Ids -> {"none", "waiting", "active", "failing", "failed"}]
           /\ dlqJobs'[id] # "none"
           /\ \A j \in Ids : \/ dlqJobs'[j] = dlqJobs[j]
                             \/ j = id /\ dlqJobs[j] = "none" /\ dlqJobs'[j] = "waiting"
BY DEF ReplayTyped, Added

\* A replay of a row is enqueued, or Redis failed and it was perhaps enqueued.
LEMMA StoreEnqueued ==
    ASSUME ReplayTyped, StoreInv, NEW r \in Requests, NEW id \in request[r].todo,
           UNCHANGED <<rows, indexed, unrecorded, failures>>,
           \/ dlqJobs' = Added(ReplayId(id))
           \/ dlqJobs' = dlqJobs /\ request'[r].entry \subseteq request[r].entry,
           \A s \in Requests : request'[s].todo \subseteq request[s].todo,
           request'[r].entry \subseteq request[r].entry \/ request'[r].entry \subseteq {id},
           \A s \in Requests : s # r => request'[s].entry \subseteq request[s].entry
    PROVE  StoreInv'
<1>1. CASE dlqJobs' = dlqJobs /\ request'[r].entry \subseteq request[r].entry
  BY <1>1, StoreKept
<1>2. CASE dlqJobs' = Added(ReplayId(id))
  <2>1. id \in Ids /\ rows[id] # "none"
    BY RequestTyped DEF StoreInv, Enqueued
  <2>2. /\ ReplayId(id) \in Ids
        /\ EventOf(ReplayId(id)) = EventOf(id)
        /\ ReplayId(id)[2] = id[2] + 1
        /\ id[2] + 1 <= failures
    BY <2>1, ReplayNamed DEF StoreInv
  <2>3. /\ dlqJobs'[ReplayId(id)] # "none"
        /\ \A j \in Ids : \/ dlqJobs'[j] = dlqJobs[j]
                          \/ /\ j = ReplayId(id) /\ dlqJobs[j] = "none"
                             /\ dlqJobs'[j] = "waiting"
    BY <1>2, <2>2, AddedJob
  <2>4. \A j \in Ids : dlqJobs[j] # "none" => dlqJobs'[j] = dlqJobs[j]
    BY <2>3
  <2>5. Depths'
    BY <2>2, <2>3 DEF StoreInv, Depths
  <2>6. Enqueued'
    <3>1. ASSUME NEW s \in Requests, NEW j \in request'[s].todo \cup request'[s].entry
          PROVE  rows[j] # "none"
      BY <3>1 DEF StoreInv, Enqueued
    <3>2. ASSUME NEW s \in Requests, NEW j \in request'[s].entry
          PROVE  EventOf(j) \in indexed \/ dlqJobs'[ReplayId(j)] # "none"
      <4>1. CASE j \in request[s].entry
        <5>1. j \in Ids /\ rows[j] # "none"
          BY <4>1, RequestTyped DEF StoreInv, Enqueued
        <5>2. ReplayId(j) \in Ids
          BY <5>1, ReplayNamed DEF StoreInv
        <5>3. EventOf(j) \in indexed \/ dlqJobs[ReplayId(j)] # "none"
          BY <4>1 DEF StoreInv, Enqueued
        <5>4. QED
          BY <2>4, <5>2, <5>3
      <4>2. CASE s = r /\ j = id
        BY <2>3, <4>2
      <4>3. QED
        BY <3>2, <4>1, <4>2
    <3>3. ASSUME NEW s \in Requests, NEW i \in request'[s].entry,
                 NEW j \in request'[s].entry
          PROVE  i = j
      <4>1. \/ request'[s].entry \subseteq request[s].entry
            \/ request'[s].entry \subseteq {id}
        OBVIOUS
      <4>2. QED
        BY <3>3, <4>1 DEF StoreInv, Enqueued
    <3>4. QED
      BY <3>1, <3>2, <3>3 DEF Enqueued
  <2>7. Traced'
    <3> SUFFICES ASSUME NEW e \in Troubled \ (indexed \cup unrecorded)
                 PROVE  /\ dlqJobs'[<<e, 0>>] # "none"
                        /\ \A j \in Ids : EventOf(j) = e /\ dlqJobs'[j] # "none" =>
                              \E later \in Ids : /\ EventOf(later) = e
                                                 /\ j[2] <= later[2]
                                                 /\ Trace(later)'
      BY DEF Traced
    <3>1. /\ dlqJobs[<<e, 0>>] # "none" /\ <<e, 0>> \in Ids
      BY ReplayAssumption DEF StoreInv, Traced, Ids
    <3>2. \A j \in Ids : Trace(j) => Trace(j)'
      BY <2>4 DEF Trace
    <3>3. ASSUME NEW j \in Ids, EventOf(j) = e, dlqJobs'[j] # "none"
          PROVE  \E later \in Ids : /\ EventOf(later) = e
                                    /\ j[2] <= later[2]
                                    /\ Trace(later)'
      <4>1. CASE dlqJobs[j] # "none"
        <5>1. PICK later \in Ids : EventOf(later) = e /\ j[2] <= later[2] /\ Trace(later)
          BY <3>3, <4>1 DEF StoreInv, Traced
        <5>2. QED
          BY <3>2, <5>1
      <4>2. CASE dlqJobs'[j] = "waiting"
        <5>1. Trace(j)' /\ j[2] <= j[2]
          BY <4>2, IdParts DEF Trace
        <5>2. QED
          BY <3>3, <5>1
      <4>3. QED
        BY <2>3, <3>3, <4>1, <4>2
    <3>4. QED
      BY <2>4, <3>1, <3>3
  <2>8. QED
    BY <2>5, <2>6, <2>7 DEF StoreInv
<1>3. QED
  BY <1>1, <1>2

\* A row is marked recovered: the trace that this ends has a deeper one.
LEMMA StoreCleared ==
    ASSUME ReplayTyped, StoreInv, NEW r \in Requests,
           UNCHANGED <<dlqJobs, indexed, unrecorded, failures>>,
           rows' = [id \in Ids |->
                       IF id \in request[r].entry THEN "recovered" ELSE rows[id]],
           \A s \in Requests : /\ request'[s].todo \subseteq request[s].todo
                               /\ request'[s].entry \subseteq request[s].entry
    PROVE  StoreInv'
<1>1. \A id \in Ids : rows[id] # "none" <=> rows'[id] # "none"
  BY DEF StoreInv, Enqueued, ReplayTyped
<1>2. Depths'
  BY <1>1 DEF StoreInv, Depths
<1>3. Enqueued'
  <2>1. \A s \in Requests : request[s].todo \subseteq Ids /\ request[s].entry \subseteq Ids
    BY RequestTyped
  <2>2. QED
    BY <1>1, <2>1 DEF StoreInv, Enqueued
<1>4. ASSUME NEW id \in Ids, Trace(id), EventOf(id) \notin indexed \cup unrecorded
      PROVE  \E later \in Ids : /\ EventOf(later) = EventOf(id)
                                /\ id[2] <= later[2]
                                /\ Trace(later)'
  <2>1. CASE id \notin request[r].entry
    <3>1. Trace(id)' /\ id[2] <= id[2]
      BY <1>4, <2>1, IdParts DEF Trace
    <3>2. QED
      BY <3>1
  <2>2. CASE id \in request[r].entry
    <3>1. rows[id] # "none" /\ dlqJobs[ReplayId(id)] # "none"
      BY <1>4, <2>2 DEF StoreInv, Enqueued
    <3>2. /\ ReplayId(id) \in Ids /\ EventOf(ReplayId(id)) = EventOf(id)
          /\ ReplayId(id)[2] = id[2] + 1
      BY <3>1, ReplayNamed DEF StoreInv
    <3>3. PICK later \in Ids : /\ EventOf(later) = EventOf(id)
                               /\ ReplayId(id)[2] <= later[2] /\ Trace(later)
      BY <1>4, <3>1, <3>2, IdParts DEF StoreInv, Traced
    <3>4. id[2] \in Nat /\ later[2] \in Nat
      BY IdParts
    <3>5. id[2] <= later[2] /\ later # id
      BY <3>2, <3>3, <3>4
    <3>6. later \notin request[r].entry
      BY <2>2, <3>5 DEF StoreInv, Enqueued
    <3>7. Trace(later)'
      BY <3>3, <3>6 DEF Trace
    <3>8. QED
      BY <3>3, <3>5, <3>7
  <2>3. QED
    BY <2>1, <2>2
<1>5. Traced'
  <2> SUFFICES ASSUME NEW e \in Troubled \ (indexed \cup unrecorded)
               PROVE  /\ dlqJobs[<<e, 0>>] # "none"
                      /\ \A j \in Ids : EventOf(j) = e /\ dlqJobs[j] # "none" =>
                            \E later \in Ids : /\ EventOf(later) = e
                                               /\ j[2] <= later[2]
                                               /\ Trace(later)'
    BY DEF Traced
  <2>1. dlqJobs[<<e, 0>>] # "none"
    BY DEF StoreInv, Traced
  <2>2. ASSUME NEW j \in Ids, EventOf(j) = e, dlqJobs[j] # "none"
        PROVE  \E later \in Ids : /\ EventOf(later) = e
                                  /\ j[2] <= later[2]
                                  /\ Trace(later)'
    <3>1. PICK i \in Ids : EventOf(i) = e /\ j[2] <= i[2] /\ Trace(i)
      BY <2>2 DEF StoreInv, Traced
    <3>2. PICK later \in Ids : EventOf(later) = e /\ i[2] <= later[2] /\ Trace(later)'
      BY <1>4, <3>1
    <3>3. j[2] \in Nat /\ i[2] \in Nat /\ later[2] \in Nat
      BY IdParts
    <3>4. j[2] <= later[2]
      BY <3>1, <3>2, <3>3
    <3>5. QED
      BY <3>2, <3>4
  <2>3. QED
    BY <2>1, <2>2
<1>6. QED
  BY <1>2, <1>3, <1>5 DEF StoreInv

\* The worker's steps: jobs only go while their event is indexed, rows only come,
\* and a trace ends only with its event indexed or a record of it lost.
LEMMA StoreWorked ==
    ASSUME ReplayTyped, StoreInv, Depths',
           indexed \subseteq indexed', unrecorded \subseteq unrecorded',
           \A r \in Requests : /\ request'[r].todo = request[r].todo
                               /\ request'[r].entry = request[r].entry,
           \A id \in Ids : rows[id] # "none" => rows'[id] # "none",
           \A id \in Ids : \/ dlqJobs'[id] # "none" <=> dlqJobs[id] # "none"
                           \/ dlqJobs'[id] = "none" /\ EventOf(id) \in indexed',
           \A id \in Ids : Trace(id) =>
               Trace(id)' \/ EventOf(id) \in indexed' \cup unrecorded'
    PROVE  StoreInv'
<1>1. Enqueued'
  <2>1. ASSUME NEW r \in Requests
        PROVE  /\ \A id \in request'[r].todo \cup request'[r].entry : rows'[id] # "none"
               /\ \A id \in request'[r].entry :
                     EventOf(id) \in indexed' \/ dlqJobs'[ReplayId(id)] # "none"
               /\ \A i, j \in request'[r].entry : i = j
    <3>1. \A id \in request[r].todo \cup request[r].entry : id \in Ids
      BY RequestTyped
    <3>2. \A id \in request'[r].todo \cup request'[r].entry : rows'[id] # "none"
      BY <3>1 DEF StoreInv, Enqueued
    <3>3. ASSUME NEW id \in request'[r].entry
          PROVE  EventOf(id) \in indexed' \/ dlqJobs'[ReplayId(id)] # "none"
      <4>1. id \in request[r].entry /\ id \in Ids /\ rows[id] # "none"
        BY <3>1 DEF StoreInv, Enqueued
      <4>2. ReplayId(id) \in Ids /\ EventOf(ReplayId(id)) = EventOf(id)
        BY <4>1, ReplayNamed DEF StoreInv
      <4>3. EventOf(id) \in indexed \/ dlqJobs[ReplayId(id)] # "none"
        BY <4>1 DEF StoreInv, Enqueued
      <4>4. QED
        BY <4>2, <4>3
    <3>4. \A i, j \in request'[r].entry : i = j
      BY DEF StoreInv, Enqueued
    <3>5. QED
      BY <3>2, <3>3, <3>4
  <2>2. QED
    BY <2>1 DEF Enqueued
<1>2. Traced'
  <2> SUFFICES ASSUME NEW e \in Troubled \ (indexed' \cup unrecorded')
               PROVE  /\ dlqJobs'[<<e, 0>>] # "none"
                      /\ \A j \in Ids : EventOf(j) = e /\ dlqJobs'[j] # "none" =>
                            \E later \in Ids : /\ EventOf(later) = e
                                               /\ j[2] <= later[2]
                                               /\ Trace(later)'
    BY DEF Traced
  <2>1. e \in Troubled \ (indexed \cup unrecorded)
    OBVIOUS
  <2>2. <<e, 0>> \in Ids /\ EventOf(<<e, 0>>) = e
    BY ReplayAssumption DEF Ids, EventOf
  <2>3. dlqJobs'[<<e, 0>>] # "none"
    <3>1. dlqJobs[<<e, 0>>] # "none"
      BY <2>1 DEF StoreInv, Traced
    <3>2. EventOf(<<e, 0>>) \notin indexed'
      BY <2>2
    <3>3. QED
      BY <2>2, <3>1, <3>2
  <2>4. ASSUME NEW j \in Ids, EventOf(j) = e, dlqJobs'[j] # "none"
        PROVE  \E later \in Ids : /\ EventOf(later) = e
                                  /\ j[2] <= later[2]
                                  /\ Trace(later)'
    <3>1. dlqJobs[j] # "none"
      BY <2>4
    <3>2. PICK later \in Ids : EventOf(later) = e /\ j[2] <= later[2] /\ Trace(later)
      BY <2>1, <2>4, <3>1 DEF StoreInv, Traced
    <3>3. EventOf(later) \notin indexed' \cup unrecorded'
      BY <3>2
    <3>4. Trace(later)'
      BY <3>2, <3>3
    <3>5. QED
      BY <3>2, <3>4
  <2>5. QED
    BY <2>3, <2>4
<1>3. QED
  BY <1>1, <1>2 DEF StoreInv

LEMMA WorkStore ==
    ASSUME ReplayTyped, StoreInv, NEW id \in Ids, Work(id)
    PROVE  StoreInv'
<1> USE DEF ReplayTyped
<1>1. UNCHANGED request
  BY DEF Work, Take, Succeed, JobFails, Record
<1>2. CASE Take(id)
  <2>1. /\ dlqJobs[id] = "waiting"
        /\ dlqJobs' = [dlqJobs EXCEPT ![id] = "active"]
        /\ UNCHANGED <<rows, indexed, unrecorded, failures>>
    BY <1>2 DEF Take
  <2>2. \A j \in Ids : Trace(j) => Trace(j)'
    BY <2>1 DEF Trace
  <2>3. Depths'
    BY <2>1 DEF StoreInv, Depths
  <2>4. \A j \in Ids : dlqJobs'[j] # "none" <=> dlqJobs[j] # "none"
    BY <2>1
  <2>5. QED
    BY <1>1, <2>1, <2>2, <2>3, <2>4, StoreWorked
<1>3. CASE Succeed(id)
  <2>1. /\ dlqJobs[id] = "active"
        /\ dlqJobs' = [dlqJobs EXCEPT ![id] = "none"]
        /\ indexed' = indexed \cup {EventOf(id)}
        /\ UNCHANGED <<rows, unrecorded, failures>>
    BY <1>3 DEF Succeed
  <2>2. \A j \in Ids : Trace(j) => Trace(j)' \/ EventOf(j) \in indexed'
    BY <2>1 DEF Trace
  <2>3. Depths'
    BY <2>1 DEF StoreInv, Depths
  <2>4. \A j \in Ids : \/ dlqJobs'[j] # "none" <=> dlqJobs[j] # "none"
                       \/ dlqJobs'[j] = "none" /\ EventOf(j) \in indexed'
    BY <2>1
  <2>5. QED
    BY <1>1, <2>1, <2>2, <2>3, <2>4, StoreWorked
<1>4. CASE JobFails(id)
  <2>1. /\ dlqJobs[id] = "active"
        /\ dlqJobs' = [dlqJobs EXCEPT ![id] = "failing"]
        /\ failures' = failures + 1
        /\ UNCHANGED <<rows, indexed, unrecorded>>
    BY <1>4 DEF JobFails
  <2>2. \A j \in Ids : Trace(j) => Trace(j)'
    BY <2>1 DEF Trace
  <2>3. Depths'
    <3>1. id[2] <= failures /\ failures \in Nat
      BY <2>1, ReplayAssumption DEF StoreInv, Depths
    <3>2. ASSUME NEW j \in Ids
          PROVE  /\ dlqJobs'[j] # "none" => j[2] <= failures'
                 /\ dlqJobs'[j] \in {"failing", "failed"} => j[2] < failures'
                 /\ rows'[j] # "none" => j[2] < failures'
      <4>1. j[2] \in Nat
        BY IdParts
      <4>2. j = id \/ dlqJobs'[j] = dlqJobs[j]
        BY <2>1
      <4>3. /\ dlqJobs[j] # "none" => j[2] <= failures
            /\ dlqJobs[j] \in {"failing", "failed"} => j[2] < failures
            /\ rows[j] # "none" => j[2] < failures
        BY DEF StoreInv, Depths
      <4>4. QED
        BY <2>1, <3>1, <4>1, <4>2, <4>3
    <3>3. QED
      BY <3>2 DEF Depths
  <2>4. \A j \in Ids : dlqJobs'[j] # "none" <=> dlqJobs[j] # "none"
    BY <2>1
  <2>5. QED
    BY <1>1, <2>1, <2>2, <2>3, <2>4, StoreWorked
<1>5. CASE Record(id)
  <2>1. /\ dlqJobs[id] = "failing"
        /\ dlqJobs' = [dlqJobs EXCEPT ![id] = "failed"]
        /\ \/ rows' = [rows EXCEPT ![id] = "dead"] /\ unrecorded' = unrecorded
           \/ rows' = rows /\ unrecorded' = unrecorded \cup {EventOf(id)}
        /\ UNCHANGED <<indexed, failures>>
    BY <1>5 DEF Record
  <2>2. \A j \in Ids : Trace(j) => Trace(j)' \/ EventOf(j) \in unrecorded'
    BY <2>1 DEF Trace
  <2>3. Depths'
    BY <2>1 DEF StoreInv, Depths
  <2>4. \A j \in Ids : dlqJobs'[j] # "none" <=> dlqJobs[j] # "none"
    BY <2>1
  <2>5. \A j \in Ids : rows[j] # "none" => rows'[j] # "none"
    BY <2>1
  <2>6. QED
    BY <1>1, <2>1, <2>2, <2>3, <2>4, <2>5, StoreWorked
<1>6. QED
  BY <1>2, <1>3, <1>4, <1>5 DEF Work

LEMMA DeathStore ==
    ASSUME ReplayTyped, StoreInv, ApiDies
    PROVE  StoreInv'
<1> USE DEF ReplayTyped
<1>1. /\ dlqJobs' = [id \in Ids |-> CASE dlqJobs[id] = "active" -> "waiting"
                                      [] dlqJobs[id] = "failing" -> "failed"
                                      [] OTHER -> dlqJobs[id]]
      /\ unrecorded' = unrecorded
             \cup {EventOf(id) : id \in {j \in Ids : dlqJobs[j] = "failing"}}
      /\ UNCHANGED <<rows, indexed, failures>>
  BY DEF ApiDies
<1>2. \A id \in Ids : /\ dlqJobs[id] = "active" => dlqJobs'[id] = "waiting"
                      /\ dlqJobs[id] = "failing" => dlqJobs'[id] = "failed"
                      /\ dlqJobs[id] \notin {"active", "failing"} =>
                            dlqJobs'[id] = dlqJobs[id]
  BY <1>1
<1>3. \A r \in Requests : /\ request'[r].todo = request[r].todo
                          /\ request'[r].entry = request[r].entry
  BY RequestTyped DEF ApiDies, RequestStates
<1>4. \A id \in Ids : dlqJobs[id] = "failing" => EventOf(id) \in unrecorded'
  BY <1>1
<1>5. \A id \in Ids : Trace(id) => Trace(id)' \/ EventOf(id) \in unrecorded'
  BY <1>1, <1>2, <1>4 DEF Trace
<1>6. \A id \in Ids : dlqJobs'[id] # "none" <=> dlqJobs[id] # "none"
  BY <1>2
<1>7. Depths'
  BY <1>1, <1>2 DEF StoreInv, Depths
<1>8. QED
  BY <1>1, <1>3, <1>5, <1>6, <1>7, StoreWorked

----------------------------------------------------------------------------
(* Executions and who waits for them                                       *)

\* A step of an execution that goes on.
LEMMA FlightGoesOn ==
    ASSUME FlightInv, UNCHANGED inFlight, NEW r \in Requests,
           request[r].pc \in Running, request'[r].pc \in Running,
           request'[r].key = request[r].key,
           \A s \in Requests : s # r => request'[s] = request[s]
    PROVE  FlightInv'
<1>1. \A s \in Requests : request'[s].key = request[s].key
  OBVIOUS
<1>2. \A s \in Requests : /\ request'[s].pc \in Running <=> request[s].pc \in Running
                          /\ request'[s].pc = "wait" => request[s].pc = "wait"
  BY DEF Running
<1>3. QED
  BY <1>1, <1>2 DEF FlightInv

\* The end of an execution, which its request and everyone who waits hears of.
LEMMA FlightEnds ==
    ASSUME ReplayTyped, FlightInv, NEW r \in Requests,
           request[r].pc \in Running, request'[r].pc \notin Running \cup {"wait"},
           inFlight' = [inFlight EXCEPT ![request[r].key] = {}],
           \A s \in Waiting(request[r].key) : request'[s].pc \notin Running \cup {"wait"},
           \A s \in Requests :
               s \notin Waiting(request[r].key) \cup {r} => request'[s] = request[s]
    PROVE  FlightInv'
<1> DEFINE k == request[r].key
<1>1. k \in RunKeys /\ inFlight[k] = {r}
  BY RequestTyped DEF FlightInv
<1>2. /\ inFlight'[k] = {}
      /\ \A j \in RunKeys : j # k => inFlight'[j] = inFlight[j]
  BY <1>1 DEF ReplayTyped
<1>3. ASSUME NEW s \in Requests, request'[s].pc \in Running
      PROVE  inFlight'[request'[s].key] = {s}
  <2>1. s # r /\ request'[s] = request[s] /\ request[s].pc \in Running
    BY <1>3
  <2>2. inFlight[request[s].key] = {s} /\ request[s].key \in RunKeys
    BY <2>1, RequestTyped DEF FlightInv
  <2>3. request[s].key # k
    BY <1>1, <2>1, <2>2
  <2>4. QED
    BY <1>2, <2>1, <2>2, <2>3
<1>4. ASSUME NEW j \in RunKeys, inFlight'[j] # {}
      PROVE  \E s \in Requests : /\ inFlight'[j] = {s}
                                 /\ request'[s].pc \in Running /\ request'[s].key = j
  <2>1. j # k /\ inFlight'[j] = inFlight[j]
    BY <1>2, <1>4
  <2>2. PICK s \in Requests : /\ inFlight[j] = {s}
                              /\ request[s].pc \in Running /\ request[s].key = j
    BY <1>4, <2>1 DEF FlightInv
  <2>3. s \notin Waiting(k) \cup {r}
    BY <2>1, <2>2 DEF Waiting
  <2>4. QED
    BY <2>1, <2>2, <2>3
<1>5. ASSUME NEW w \in Requests, request'[w].pc = "wait"
      PROVE  inFlight'[request'[w].key] # {}
  <2>1. w \notin Waiting(k) \cup {r} /\ request'[w] = request[w]
    BY <1>5
  <2>2. request[w].pc = "wait" /\ request[w].key # k /\ request[w].key \in RunKeys
    BY <1>5, <2>1, RequestTyped DEF Waiting
  <2>3. QED
    BY <1>2, <2>1, <2>2 DEF FlightInv
<1>6. QED
  BY <1>3, <1>4, <1>5 DEF FlightInv

\* A request is answered from memory, awaits an execution or begins one.
LEMMA SubmitKeeps ==
    ASSUME ReplayInv, NEW r \in Requests, NEW k \in RunKeys,
           SubmitRemembered(r, k) \/ SubmitShared(r, k) \/ SubmitRun(r, k)
    PROVE  ReplayInv'
<1> USE DEF ReplayInv
<1>1. request[r] \in RequestStates /\ request[r].pc = "idle"
  BY RequestTyped DEF SubmitRemembered, SubmitShared, SubmitRun
<1> DEFINE Became(pc) ==
              /\ request' \in [Requests -> RequestStates]
              /\ request'[r].pc = pc /\ request'[r].key = k
              /\ request'[r].todo = request[r].todo
              /\ request'[r].entry = request[r].entry
              /\ \A s \in Requests : s # r => request'[s] = request[s]
<1>2. CASE SubmitRemembered(r, k)
  <2>1. PICK summary \in remembered[k] :
            request' = [request EXCEPT ![r].pc = "done", ![r].key = k,
                                       ![r].summary = summary]
    BY <1>2 DEF SubmitRemembered
  <2>2. summary \in Summary
    BY DEF ReplayTyped
  <2>3. Became("done")
    <3> DEFINE half == [request[r] EXCEPT !.pc = "done", !.key = k]
               next == [half EXCEPT !.summary = summary]
    <3>1. request' = [request EXCEPT ![r] = next]
      BY <2>1
    <3>2. /\ half \in RequestStates
          /\ half.pc = "done" /\ half.key = k /\ half.todo = request[r].todo
          /\ half.entry = request[r].entry
      BY <1>1 DEF RequestStates, Answered
    <3> HIDE DEF half
    <3>3. next \in RequestStates
      BY <2>2, <3>2 DEF RequestStates
    <3>4. /\ next.pc = "done" /\ next.key = k /\ next.todo = request[r].todo
          /\ next.entry = request[r].entry
      BY <2>2, <3>2 DEF RequestStates
    <3> HIDE DEF next
    <3>5. QED
      BY <3>1, <3>3, <3>4 DEF ReplayTyped
  <2>4. UNCHANGED <<WithStore, inFlight, remembered, hiccups>>
    BY <1>2 DEF SubmitRemembered
  <2> HIDE DEF Became
  <2>5. StoreInv'
    BY <2>3, <2>4, StoreKept DEF WithStore, Became
  <2>6. FlightInv'
    <3>1. \A s \in Requests : request'[s].pc \in Running \cup {"wait"} =>
              s # r /\ request'[s] = request[s]
      BY <2>3 DEF Became, Running
    <3>2. \A s \in Requests : request[s].pc \in Running => request'[s] = request[s]
      BY <1>1, <2>3 DEF Became, Running
    <3>3. QED
      BY <2>4, <3>1, <3>2 DEF FlightInv
  <2>7. QED
    BY <2>3, <2>4, <2>5, <2>6 DEF ReplayTyped, WithStore, Became
<1>3. CASE SubmitShared(r, k)
  <2>1. /\ request' = [request EXCEPT ![r].pc = "wait", ![r].key = k]
        /\ inFlight[k] # {}
        /\ UNCHANGED <<WithStore, inFlight, remembered, hiccups>>
    BY <1>3 DEF SubmitShared
  <2>2. Became("wait")
    BY <2>1 DEF ReplayTyped, RequestStates
  <2> HIDE DEF Became
  <2>3. StoreInv'
    BY <2>1, <2>2, StoreKept DEF WithStore, Became
  <2>4. FlightInv'
    <3>1. \A s \in Requests : request'[s].pc \in Running => s # r
      BY <2>2 DEF Became, Running
    <3>2. \A s \in Requests : request[s].pc \in Running => request'[s] = request[s]
      BY <1>1, <2>2 DEF Became, Running
    <3>3. QED
      BY <2>1, <2>2, <3>1, <3>2 DEF FlightInv, Became
  <2>5. QED
    BY <2>1, <2>2, <2>3, <2>4 DEF ReplayTyped, WithStore, Became
<1>4. CASE SubmitRun(r, k)
  <2>1. /\ request' = [request EXCEPT ![r].pc = "load", ![r].key = k]
        /\ inFlight[k] = {}
        /\ inFlight' = [inFlight EXCEPT ![k] = {r}]
        /\ UNCHANGED <<WithStore, remembered, hiccups>>
    BY <1>4 DEF SubmitRun
  <2>2. Became("load")
    BY <2>1 DEF ReplayTyped, RequestStates, Running
  <2> HIDE DEF Became
  <2>3. StoreInv'
    BY <2>1, <2>2, StoreKept DEF WithStore, Became
  <2>4. /\ inFlight'[k] = {r}
        /\ \A j \in RunKeys : j # k => inFlight'[j] = inFlight[j]
        /\ inFlight' \in [RunKeys -> SUBSET Requests]
    BY <2>1 DEF ReplayTyped
  <2>5. FlightInv'
    <3>1. ASSUME NEW s \in Requests, request'[s].pc \in Running
          PROVE  inFlight'[request'[s].key] = {s}
      <4>1. CASE s = r
        BY <2>2, <2>4, <4>1 DEF Became
      <4>2. CASE s # r
        <5>1. request'[s] = request[s] /\ request[s].key \in RunKeys
          BY <2>2, <4>2, RequestTyped DEF Became
        <5>2. inFlight[request[s].key] = {s}
          BY <3>1, <5>1 DEF FlightInv
        <5>3. QED
          BY <2>1, <2>4, <5>1, <5>2
      <4>3. QED
        BY <4>1, <4>2
    <3>2. ASSUME NEW j \in RunKeys, inFlight'[j] # {}
          PROVE  \E s \in Requests : /\ inFlight'[j] = {s}
                                     /\ request'[s].pc \in Running /\ request'[s].key = j
      <4>1. CASE j = k
        BY <2>2, <2>4, <4>1 DEF Became, Running
      <4>2. CASE j # k
        <5>1. PICK s \in Requests : /\ inFlight[j] = {s}
                                    /\ request[s].pc \in Running /\ request[s].key = j
          BY <2>4, <3>2, <4>2 DEF FlightInv
        <5>2. s # r
          BY <1>1, <5>1 DEF Running
        <5>3. QED
          BY <2>2, <2>4, <4>2, <5>1, <5>2 DEF Became
      <4>3. QED
        BY <4>1, <4>2
    <3>3. ASSUME NEW w \in Requests, request'[w].pc = "wait"
          PROVE  inFlight'[request'[w].key] # {}
      <4>1. w # r /\ request'[w] = request[w] /\ request[w].key \in RunKeys
        BY <2>2, <3>3, RequestTyped DEF Became
      <4>2. inFlight[request[w].key] # {}
        BY <3>3, <4>1 DEF FlightInv
      <4>3. QED
        BY <2>1, <2>4, <4>1, <4>2
    <3>4. QED
      BY <3>1, <3>2, <3>3 DEF FlightInv
  <2>6. QED
    BY <2>1, <2>2, <2>3, <2>4, <2>5 DEF ReplayTyped, WithStore, Became
<1>5. QED
  BY <1>2, <1>3, <1>4

\* What a step of r's execution does to its request: the rest it leaves alone.
OnlyRequest(r) == /\ request' \in [Requests -> RequestStates]
                  /\ request'[r].key = request[r].key
                  /\ \A s \in Requests : s # r => request'[s] = request[s]

\* An execution that throws: its rows stay to be replayed, nothing waits for it.
LEMMA RejectKeeps ==
    ASSUME ReplayInv, NEW r \in Requests, request[r].pc = "load",
           NEW answer \in Answered, Reject(r, answer),
           UNCHANGED <<WithStore, remembered>>, hiccups' \in 0 .. MaxHiccups
    PROVE  ReplayInv'
<1> USE DEF ReplayInv
<1> DEFINE k == request[r].key
<1>1. /\ request' = [w \in Requests |->
                        IF w = r THEN [request[w] EXCEPT !.pc = answer]
                        ELSE IF w \in Waiting(k) THEN [request[w] EXCEPT !.pc = "error"]
                        ELSE request[w]]
      /\ inFlight' = [inFlight EXCEPT ![k] = {}]
  BY DEF Reject
<1>2. \A w \in Requests : /\ [request[w] EXCEPT !.pc = answer] \in RequestStates
                          /\ [request[w] EXCEPT !.pc = "error"] \in RequestStates
  BY RequestTyped DEF RequestStates, Answered
<1>3. request' \in [Requests -> RequestStates]
  BY <1>1, <1>2, RequestTyped
<1>4. \A w \in Requests : /\ request'[w].todo = request[w].todo
                          /\ request'[w].entry = request[w].entry
  BY <1>1, RequestTyped DEF RequestStates
<1>5. StoreInv'
  BY <1>4, StoreKept DEF WithStore
<1>6. FlightInv'
  <2>1. request[r].pc \in Running /\ answer \notin Running \cup {"wait"}
    BY DEF Running, Answered
  <2>2. request'[r].pc = answer
    BY <1>1, RequestTyped DEF RequestStates
  <2>3. \A w \in Waiting(k) : w # r /\ w \in Requests
    BY DEF Waiting
  <2>4. \A w \in Waiting(k) : request'[w].pc = "error"
    BY <1>1, <2>3, RequestTyped DEF RequestStates
  <2>5. \A w \in Requests : w \notin Waiting(k) \cup {r} => request'[w] = request[w]
    BY <1>1
  <2> HIDE DEF k
  <2>6. \A w \in Waiting(k) : request'[w].pc \notin Running \cup {"wait"}
    BY <2>4 DEF Running
  <2>7. request'[r].pc \notin Running \cup {"wait"}
    BY <2>1, <2>2
  <2>8. inFlight' = [inFlight EXCEPT ![k] = {}]
    BY <1>1
  <2>9. QED
    BY <2>1, <2>5, <2>6, <2>7, <2>8, FlightEnds DEF k
<1>7. inFlight' \in [RunKeys -> SUBSET Requests]
  BY <1>1 DEF ReplayTyped
<1>8. ReplayTyped'
  BY <1>3, <1>7 DEF ReplayTyped, WithStore
<1>9. QED
  BY <1>5, <1>6, <1>8

\* The rows to replay are read, or there are none, or Postgres does not answer.
LEMMA LoadKeeps ==
    ASSUME ReplayInv, NEW r \in Requests, Load(r) \/ LoadFails(r)
    PROVE  ReplayInv'
<1> USE DEF ReplayInv
<1>1. request[r].pc = "load" /\ UNCHANGED <<WithStore, remembered>>
  BY DEF Load, LoadFails
<1>2. CASE Reject(r, "notfound") /\ UNCHANGED hiccups
  BY <1>1, <1>2, RejectKeeps DEF Answered, ReplayTyped
<1>3. CASE LoadFails(r)
  <2>1. hiccups' \in 0 .. MaxHiccups
    BY <1>3, ReplayAssumption DEF LoadFails, Hiccup, ReplayTyped
  <2>2. QED
    BY <1>1, <1>3, <2>1, RejectKeeps DEF LoadFails, Answered
<1>4. CASE /\ \E found \in SUBSET {id \in Ids : rows[id] # "none"} :
                 request' = [request EXCEPT ![r].pc = "loop", ![r].todo = found]
           /\ UNCHANGED <<inFlight, hiccups>>
  <2>1. PICK found \in SUBSET {id \in Ids : rows[id] # "none"} :
            request' = [request EXCEPT ![r].pc = "loop", ![r].todo = found]
    BY <1>4
  <2>2. /\ OnlyRequest(r)
        /\ request'[r].pc = "loop" /\ request'[r].todo = found
        /\ request'[r].entry = request[r].entry
    BY <2>1, RequestTyped DEF OnlyRequest, ReplayTyped, RequestStates, Running
  <2>3. StoreInv'
    <3>1. Depths' /\ Traced'
      BY <1>1 DEF WithStore, StoreInv, Depths, Traced, Trace
    <3>2. Enqueued'
      BY <1>1, <2>2 DEF WithStore, StoreInv, Enqueued, OnlyRequest
    <3>3. QED
      BY <3>1, <3>2 DEF StoreInv
  <2>4. FlightInv'
    BY <1>1, <1>4, <2>2, FlightGoesOn DEF OnlyRequest, Running
  <2>5. QED
    BY <1>1, <1>4, <2>2, <2>3, <2>4 DEF ReplayTyped, WithStore, OnlyRequest
<1>5. ASSUME Load(r)
      PROVE  \/ Reject(r, "notfound") /\ UNCHANGED hiccups
             \/ /\ \E found \in SUBSET {id \in Ids : rows[id] # "none"} :
                      request' = [request EXCEPT ![r].pc = "loop", ![r].todo = found]
                /\ UNCHANGED <<inFlight, hiccups>>
  <2>1. request[r].key[1] \in Ids \cup {All}
    BY RequestTyped DEF RunKeys, Targets
  <2> DEFINE target == request[r].key[1]
             found == IF target = All THEN {id \in Ids : rows[id] = "dead"}
                      ELSE {id \in {target} : rows[id] # "none"}
  <2>2. /\ UNCHANGED hiccups
        /\ \/ Reject(r, "notfound")
           \/ /\ request' = [request EXCEPT ![r].pc = "loop", ![r].todo = found]
              /\ UNCHANGED inFlight
    BY <1>5 DEF Load
  <2>3. found \in SUBSET {id \in Ids : rows[id] # "none"}
    BY <2>1
  <2> HIDE DEF found
  <2>4. QED
    BY <2>2, <2>3
<1>6. QED
  BY <1>2, <1>3, <1>4, <1>5

\* A replay is enqueued, or Redis fails.
LEMMA EnqueueKeeps ==
    ASSUME ReplayInv, NEW r \in Requests, NEW id \in Ids,
           Enqueue(r, id) \/ AddFails(r, id)
    PROVE  ReplayInv'
<1> USE DEF ReplayInv
<1>1. /\ request[r].pc = "loop" /\ id \in request[r].todo
      /\ UNCHANGED <<rows, indexed, unrecorded, inFlight, remembered, failures, deaths>>
      /\ dlqJobs' \in {dlqJobs, Added(ReplayId(id))}
  BY DEF Enqueue, AddFails
<1>2. hiccups' \in 0 .. MaxHiccups
  BY ReplayAssumption DEF Enqueue, AddFails, Hiccup, ReplayTyped
<1>3. /\ OnlyRequest(r) /\ request'[r].pc \in Running
      /\ request'[r].todo = request[r].todo \ {id}
      /\ \/ request'[r].entry = {id} /\ dlqJobs' = Added(ReplayId(id))
         \/ request'[r].entry = request[r].entry
  <2>1. CASE Enqueue(r, id)
    <3>1. /\ dlqJobs' = Added(ReplayId(id))
          /\ request' = [request EXCEPT ![r].pc = "clear", ![r].entry = {id},
                                        ![r].todo = @ \ {id}]
      BY <2>1 DEF Enqueue
    <3> DEFINE half == [request[r] EXCEPT !.pc = "clear", !.entry = {id}]
               next == [half EXCEPT !.todo = request[r].todo \ {id}]
    <3>2. request' = [request EXCEPT ![r] = next]
      BY <3>1, RequestTyped DEF RequestStates
    <3>3. /\ half \in RequestStates
          /\ half.pc = "clear" /\ half.key = request[r].key /\ half.entry = {id}
      BY RequestTyped DEF RequestStates, Running
    <3> HIDE DEF half
    <3>4. request[r].todo \ {id} \in SUBSET Ids
      BY RequestTyped
    <3>5. next \in RequestStates
      BY <3>3, <3>4 DEF RequestStates
    <3>6. /\ next.pc = "clear" /\ next.key = request[r].key
          /\ next.todo = request[r].todo \ {id} /\ next.entry = {id}
      BY <3>3 DEF RequestStates
    <3> HIDE DEF next
    <3>7. request' \in [Requests -> RequestStates] /\ request'[r] = next
          /\ \A s \in Requests : s # r => request'[s] = request[s]
      BY <3>2, <3>5 DEF ReplayTyped
    <3>8. QED
      BY <3>1, <3>6, <3>7 DEF OnlyRequest, Running
  <2>2. CASE AddFails(r, id)
    <3>1. request' = [request EXCEPT ![r].todo = @ \ {id},
                                     ![r].summary.skipped = @ \cup {id}]
      BY <2>2 DEF AddFails
    <3> DEFINE half == [request[r] EXCEPT !.todo = request[r].todo \ {id}]
               told == [request[r].summary EXCEPT
                           !.skipped = request[r].summary.skipped \cup {id}]
               next == [half EXCEPT !.summary = told]
    <3>2. request' = [request EXCEPT ![r] = next]
      BY <3>1, RequestTyped DEF RequestStates
    <3>3. /\ half \in RequestStates
          /\ half.pc = request[r].pc /\ half.key = request[r].key
          /\ half.entry = request[r].entry /\ half.todo = request[r].todo \ {id}
      BY RequestTyped DEF RequestStates
    <3>4. told \in Summary
      BY RequestTyped DEF Summary
    <3> HIDE DEF half, told
    <3>5. next \in RequestStates
      BY <3>3, <3>4 DEF RequestStates
    <3>6. /\ next.pc = request[r].pc /\ next.key = request[r].key
          /\ next.todo = request[r].todo \ {id} /\ next.entry = request[r].entry
      BY <3>3 DEF RequestStates
    <3> HIDE DEF next
    <3>7. QED
      BY <1>1, <3>2, <3>5, <3>6 DEF ReplayTyped, OnlyRequest, Running
  <2>3. QED
    BY <2>1, <2>2
<1>4. StoreInv'
  BY <1>1, <1>3, StoreEnqueued DEF OnlyRequest
<1>5. FlightInv'
  BY <1>1, <1>3, FlightGoesOn DEF OnlyRequest, Running
<1>6. dlqJobs' \in [Ids -> {"none", "waiting", "active", "failing", "failed"}]
  BY <1>1 DEF ReplayTyped, Added
<1>7. QED
  BY <1>1, <1>2, <1>3, <1>4, <1>5, <1>6 DEF ReplayTyped, OnlyRequest

\* The row is marked, or its statement fails: either way it counts as replayed.
LEMMA ClearKeeps ==
    ASSUME ReplayInv, NEW r \in Requests, Clear(r)
    PROVE  ReplayInv'
<1> USE DEF ReplayInv
<1>1. /\ request[r].pc = "clear"
      /\ UNCHANGED <<dlqJobs, indexed, unrecorded, inFlight, remembered, failures, deaths>>
      /\ \/ rows' = [id \in Ids |->
                        IF id \in request[r].entry THEN "recovered" ELSE rows[id]]
         \/ rows' = rows
  BY DEF Clear
<1>2. hiccups' \in 0 .. MaxHiccups
  BY ReplayAssumption DEF Clear, Hiccup, ReplayTyped
<1>3. /\ OnlyRequest(r) /\ request'[r].pc = "loop"
      /\ request'[r].todo = request[r].todo
      /\ request'[r].entry = {}
  <2>1. request' = [request EXCEPT ![r].pc = "loop", ![r].entry = {},
                                   ![r].summary.replayed = @ \cup request[r].entry]
    BY DEF Clear
  <2> DEFINE half == [request[r] EXCEPT !.pc = "loop", !.entry = {}]
             told == [request[r].summary EXCEPT
                         !.replayed = request[r].summary.replayed \cup request[r].entry]
             next == [half EXCEPT !.summary = told]
  <2>2. request' = [request EXCEPT ![r] = next]
    BY <2>1, RequestTyped DEF RequestStates
  <2>3. /\ half \in RequestStates
        /\ half.pc = "loop" /\ half.key = request[r].key
        /\ half.entry = {} /\ half.todo = request[r].todo
    BY RequestTyped DEF RequestStates, Running
  <2>4. told \in Summary
    BY RequestTyped DEF Summary
  <2> HIDE DEF half, told
  <2>5. next \in RequestStates
    BY <2>3, <2>4 DEF RequestStates
  <2>6. /\ next.pc = "loop" /\ next.key = request[r].key
        /\ next.todo = request[r].todo /\ next.entry = {}
    BY <2>3 DEF RequestStates
  <2> HIDE DEF next
  <2>7. request' \in [Requests -> RequestStates] /\ request'[r] = next
        /\ \A s \in Requests : s # r => request'[s] = request[s]
    BY <2>2, <2>5 DEF ReplayTyped
  <2>8. QED
    BY <2>6, <2>7 DEF OnlyRequest
<1>4. \A s \in Requests : /\ request'[s].todo \subseteq request[s].todo
                          /\ request'[s].entry \subseteq request[s].entry
  BY <1>3 DEF OnlyRequest
<1>5. StoreInv'
  BY <1>1, <1>4, StoreCleared, StoreKept
<1>6. FlightInv'
  BY <1>1, <1>3, FlightGoesOn DEF OnlyRequest, Running
<1>7. rows' \in [Ids -> {"none", "dead", "recovered"}]
  BY <1>1 DEF ReplayTyped
<1>8. QED
  BY <1>1, <1>2, <1>3, <1>5, <1>6, <1>7 DEF ReplayTyped, OnlyRequest

\* The execution ends, and everyone who awaits it is answered.
LEMMA AnswerKeeps ==
    ASSUME ReplayInv, NEW r \in Requests, Answer(r)
    PROVE  ReplayInv'
<1> USE DEF ReplayInv
<1> DEFINE k == request[r].key
           done(w) == [request[w] EXCEPT !.pc = "done", !.summary = request[r].summary]
<1>1. /\ request[r].pc = "loop"
      /\ request' = [w \in Requests |->
                        IF w \in Waiting(k) \cup {r} THEN done(w) ELSE request[w]]
      /\ inFlight' = [inFlight EXCEPT ![k] = {}]
      /\ remembered' = IF k[2] = NoKey THEN remembered
                       ELSE [remembered EXCEPT ![k] = {request[r].summary}]
      /\ UNCHANGED <<WithStore, hiccups>>
  BY DEF Answer
<1>2. ASSUME NEW w \in Requests
      PROVE  /\ done(w) \in RequestStates /\ done(w).pc = "done"
             /\ done(w).todo = request[w].todo /\ done(w).entry = request[w].entry
  BY RequestTyped DEF RequestStates, Answered
<1>3. request[r].summary \in Summary /\ k \in RunKeys
  BY RequestTyped
<1> HIDE DEF k, done
<1>4. request' \in [Requests -> RequestStates]
  BY <1>1, <1>2, RequestTyped
<1>5. \A w \in Requests : /\ request'[w].todo = request[w].todo
                          /\ request'[w].entry = request[w].entry
  BY <1>1, <1>2
<1>6. StoreInv'
  BY <1>1, <1>5, StoreKept DEF WithStore
<1>7. FlightInv'
  <2>1. \A w \in Waiting(k) : w \in Requests
    BY DEF Waiting
  <2>2. \A w \in Waiting(k) \cup {r} : request'[w].pc = "done"
    BY <1>1, <1>2, <2>1
  <2>3. \A w \in Waiting(k) \cup {r} : request'[w].pc \notin Running \cup {"wait"}
    BY <2>2 DEF Running
  <2>4. \A w \in Requests : w \notin Waiting(k) \cup {r} => request'[w] = request[w]
    BY <1>1
  <2>5. request[r].pc \in Running
    BY <1>1 DEF Running
  <2>6. /\ request'[r].pc \notin Running \cup {"wait"}
        /\ \A w \in Waiting(k) : request'[w].pc \notin Running \cup {"wait"}
        /\ inFlight' = [inFlight EXCEPT ![k] = {}]
    BY <1>1, <2>3
  <2>7. QED
    BY <2>4, <2>5, <2>6, FlightEnds DEF k
<1>8. /\ inFlight' \in [RunKeys -> SUBSET Requests]
      /\ remembered' \in [RunKeys -> SUBSET Summary]
  BY <1>1, <1>3 DEF ReplayTyped
<1>9. QED
  BY <1>1, <1>4, <1>6, <1>7, <1>8 DEF ReplayTyped, WithStore

\* A remembered answer is forgotten.
LEMMA ExpireKeeps ==
    ASSUME ReplayInv, NEW k \in RunKeys, Expire(k)
    PROVE  ReplayInv'
<1> USE DEF ReplayInv
<1>1. /\ remembered' = [remembered EXCEPT ![k] = {}]
      /\ UNCHANGED <<WithStore, request, inFlight, hiccups>>
  BY DEF Expire
<1>2. remembered' \in [RunKeys -> SUBSET Summary]
  BY <1>1 DEF ReplayTyped
<1>3. StoreInv'
  BY <1>1, StoreKept DEF WithStore
<1>4. FlightInv'
  BY <1>1 DEF FlightInv
<1>5. QED
  BY <1>1, <1>2, <1>3, <1>4 DEF ReplayTyped, WithStore

\* The worker runs a job, and records one that failed.
LEMMA WorkKeeps ==
    ASSUME ReplayInv, NEW id \in Ids, Work(id)
    PROVE  ReplayInv'
<1> USE DEF ReplayInv
<1>1. UNCHANGED <<request, inFlight, remembered, deaths>>
  BY DEF Work, Take, Succeed, JobFails, Record
<1>2. FlightInv'
  BY <1>1 DEF FlightInv
<1>3. StoreInv'
  BY WorkStore
<1>4. EventOf(id) \in Troubled
  BY IdParts
<1>5. ReplayTyped'
  BY <1>1, <1>4, ReplayAssumption
     DEF ReplayTyped, Work, Take, Succeed, JobFails, Record, Hiccup
<1>6. QED
  BY <1>2, <1>3, <1>5

\* The process dies: what ran and waited is lost, and so are its maps.
LEMMA DeathKeeps ==
    ASSUME ReplayInv, ApiDies
    PROVE  ReplayInv'
<1> USE DEF ReplayInv
<1> DEFINE lost(r) == [request[r] EXCEPT !.pc = "lost"]
<1>1. /\ request' = [r \in Requests |->
                        IF request[r].pc \in Running \cup {"wait"} THEN lost(r)
                        ELSE request[r]]
      /\ inFlight' = [k \in RunKeys |-> {}]
      /\ remembered' = [k \in RunKeys |-> {}]
      /\ UNCHANGED <<rows, indexed, failures, hiccups>>
  BY DEF ApiDies
<1>2. \A r \in Requests : lost(r) \in RequestStates /\ lost(r).pc = "lost"
  BY RequestTyped DEF RequestStates
<1> HIDE DEF lost
<1>3. request' \in [Requests -> RequestStates]
  BY <1>1, <1>2, RequestTyped
<1>4. \A r \in Requests : request'[r].pc \notin Running \cup {"wait"}
  BY <1>1, <1>2 DEF Running
<1>5. FlightInv'
  BY <1>1, <1>4 DEF FlightInv
<1>6. StoreInv'
  BY DeathStore
<1>7. dlqJobs' \in [Ids -> {"none", "waiting", "active", "failing", "failed"}]
  <2>1. \A id \in Ids : dlqJobs'[id] \in {"none", "waiting", "active", "failing", "failed"}
    BY DEF ApiDies, ReplayTyped
  <2>2. QED
    BY <2>1 DEF ApiDies
<1>8. unrecorded' \subseteq Troubled
  BY IdParts DEF ApiDies, ReplayTyped
<1>9. deaths' \in 0 .. MaxDeaths
  BY ReplayAssumption DEF ApiDies, ReplayTyped
<1>10. QED
  BY <1>1, <1>3, <1>5, <1>6, <1>7, <1>8, <1>9 DEF ReplayTyped

----------------------------------------------------------------------------
(* Replaying dead letters: the theorems                                    *)

LEMMA ReplayInvInit ==
    ASSUME ReplayInit
    PROVE  ReplayInv
<1>1. Unasked \in RequestStates
  BY DEF Unasked, RequestStates, RunKeys, Targets, Empty, Summary
<1>2. ReplayTyped
  BY <1>1, ReplayAssumption DEF ReplayInit, ReplayTyped
<1>3. \A r \in Requests : request[r].pc = "idle" /\ request[r].todo = {} /\ request[r].entry = {}
  BY DEF ReplayInit, Unasked
<1>4. Depths
  BY IdParts DEF ReplayInit, Depths
<1>5. Enqueued
  BY <1>3 DEF Enqueued
<1>6. Traced
  <2>1. \A e \in Troubled : <<e, 0>> \in Ids /\ <<e, 0>>[2] = 0
    BY ReplayAssumption DEF Ids
  <2>2. \A e \in Troubled : dlqJobs[<<e, 0>>] = "waiting"
    BY <2>1 DEF ReplayInit
  <2>3. \A id \in Ids : dlqJobs[id] # "none" => Trace(id) /\ id[2] <= id[2]
    BY IdParts DEF ReplayInit, Trace
  <2>4. QED
    BY <2>2, <2>3 DEF Traced
<1>7. FlightInv
  BY <1>3 DEF ReplayInit, FlightInv, Running
<1>8. QED
  BY <1>2, <1>4, <1>5, <1>6, <1>7 DEF ReplayInv, StoreInv

LEMMA ReplayInvNext ==
    ASSUME ReplayInv, [ReplayNext]_replayVars
    PROVE  ReplayInv'
<1>1. ASSUME NEW r \in Requests, Submit(r) \/ Execute(r)
      PROVE  ReplayInv'
  BY <1>1, SubmitKeeps, LoadKeeps, EnqueueKeeps, ClearKeeps, AnswerKeeps
     DEF Submit, Execute
<1>2. CASE UNCHANGED replayVars
  <2>1. ReplayTyped' /\ FlightInv'
    BY <1>2 DEF ReplayInv, ReplayTyped, FlightInv, replayVars
  <2>2. StoreInv'
    BY <1>2, StoreKept DEF ReplayInv, replayVars
  <2>3. QED
    BY <2>1, <2>2 DEF ReplayInv
<1>3. QED
  BY <1>1, <1>2, ExpireKeeps, WorkKeeps, DeathKeeps DEF ReplayNext

\* Whatever requests, jobs, failures and deaths interleave.
LEMMA ReplayInvAlways == ReplaySpec => []ReplayInv
<1>1. ReplayInit => ReplayInv
  BY ReplayInvInit
<1>2. ReplayInv /\ [ReplayNext]_replayVars => ReplayInv'
  BY ReplayInvNext
<1>3. QED
  BY <1>1, <1>2, PTL DEF ReplaySpec

\* Rows, jobs, requests and the two maps keep their types.
THEOREM ReplayTypeCorrect == ReplaySpec => []ReplayTypeOK
<1>1. ReplayInv => ReplayTypeOK
  BY RequestTyped DEF ReplayInv, ReplayTyped, ReplayTypeOK, RequestStates
<1>2. QED
  BY <1>1, ReplayInvAlways, PTL

\* Replaying never makes the last trace of an event disappear: before a row is
\* marked recovered, a job that follows it has been enqueued.
THEOREM EventAccountedCorrect == ReplaySpec => []EventAccounted
<1>1. ReplayInv => EventAccounted
  <2> SUFFICES ASSUME ReplayInv, NEW e \in Troubled \ (indexed \cup unrecorded)
               PROVE  \E id \in Ids : EventOf(id) = e /\ Trace(id)
    BY DEF EventAccounted, Trace
  <2>1. <<e, 0>> \in Ids /\ EventOf(<<e, 0>>) = e
    BY ReplayAssumption DEF Ids, EventOf
  <2>2. QED
    BY <2>1 DEF ReplayInv, StoreInv, Traced
<1>2. QED
  BY <1>1, ReplayInvAlways, PTL

\* Requests of one target and key share one execution, and none awaits one that is
\* over.
THEOREM SharedExecutionCorrect == ReplaySpec => []SharedExecution
<1>1. ReplayInv => SharedExecution
  <2> SUFFICES ASSUME ReplayInv
               PROVE  SharedExecution
    OBVIOUS
  <2>1. \A r, s \in Requests :
            /\ request[r].pc \in Running
            /\ request[s].pc \in Running
            /\ request[r].key = request[s].key
            => r = s
    BY DEF ReplayInv, FlightInv
  <2>2. \A w \in Requests :
            request[w].pc = "wait" =>
                \E r \in Requests : /\ request[r].pc \in Running
                                    /\ request[r].key = request[w].key
    BY RequestTyped DEF ReplayInv, FlightInv
  <2>3. QED
    BY <2>1, <2>2 DEF SharedExecution
<1>2. QED
  BY <1>1, ReplayInvAlways, PTL

----------------------------------------------------------------------------
(* The checkpoint                                                          *)

USE LedgersAssumption, MaxLapsesAssumption

\* Every variable keeps its type, whatever steps the calls interleave.
THEOREM CursorTypeCorrect == CursorSpec => []CursorTypeOK
<1> USE DEF CursorTypeOK, Checkpoint, CallState, Idle, NoLedger
<1>1. CursorInit => CursorTypeOK
  BY DEF CursorInit
<1>2. CursorTypeOK /\ [CursorNext]_cursorVars => CursorTypeOK'
  <2> SUFFICES ASSUME CursorTypeOK, [CursorNext]_cursorVars
               PROVE  CursorTypeOK'
    OBVIOUS
  <2> USE DEF At, Goto, Return, Lapse
  <2>1. ASSUME NEW c \in Callers, NEW ledger \in Ledgers, BeginAdvance(c, ledger)
        PROVE  CursorTypeOK'
    BY <2>1 DEF BeginAdvance
  <2>2. ASSUME NEW c \in Callers, BeginGet(c) \/ UseResult(c)
        PROVE  CursorTypeOK'
    BY <2>2 DEF BeginGet, UseResult
  <2>3. ASSUME NEW c \in Callers, SetMax(c)
        PROVE  CursorTypeOK'
    BY <2>3 DEF SetMax, SetMaxNumber, Larger
  <2>4. ASSUME NEW c \in Callers, FindCursor(c) \/ AdvanceFails(c)
        PROVE  CursorTypeOK'
    BY <2>4 DEF FindCursor, AdvanceFails
  <2>5. ASSUME NEW c \in Callers, UpsertCursor(c)
        PROVE  CursorTypeOK'
    BY <2>5 DEF UpsertCursor
  <2>6. ASSUME NEW c \in Callers, ReadCache(c)
        PROVE  CursorTypeOK'
    BY <2>6 DEF ReadCache
  <2>7. ASSUME NEW c \in Callers, ReadDb(c) \/ GetFails(c)
        PROVE  CursorTypeOK'
    <3>1. CASE ReadDb(c)
      BY <3>1 DEF ReadDb
    <3>2. CASE GetFails(c)
      BY <3>2 DEF GetFails
    <3>3. QED
      BY <2>7, <3>1, <3>2
  <2>8. ASSUME NEW c \in Callers, WarmCache(c)
        PROVE  CursorTypeOK'
    BY <2>8 DEF WarmCache, SetMaxNumber, Larger
  <2>9. CASE WipeCache
    BY <2>9 DEF WipeCache
  <2>10. CASE CrashCalls
    BY <2>10 DEF CrashCalls
  <2>11. CASE UNCHANGED cursorVars
    BY <2>11 DEF cursorVars
  <2>12. QED
    BY <2>1, <2>2, <2>3, <2>4, <2>5, <2>6, <2>7, <2>8, <2>9, <2>10, <2>11
       DEF CursorNext, CallStep
<1>3. QED
  BY <1>1, <1>2, PTL DEF CursorSpec

----------------------------------------------------------------------------
\* No failure, crash or wipe puts a ledger into either store that no
\* advanceLedger call was made with.
THEOREM NeverAheadCorrect == CursorSpec => []NeverAhead
<1> USE DEF NeverAhead, NoLedger
<1>1. CursorInit => NeverAhead
  BY DEF CursorInit, Idle
<1>2. CursorTypeOK /\ NeverAhead /\ [CursorNext]_cursorVars => NeverAhead'
  <2> SUFFICES ASSUME CursorTypeOK, NeverAhead, [CursorNext]_cursorVars
               PROVE  NeverAhead'
    OBVIOUS
  <2> USE DEF CursorTypeOK, Checkpoint, CallState, Idle, At, Goto, Return, Lapse
  <2>1. ASSUME NEW c \in Callers, NEW ledger \in Ledgers, BeginAdvance(c, ledger)
        PROVE  NeverAhead'
    BY <2>1 DEF BeginAdvance
  <2>2. ASSUME NEW c \in Callers, BeginGet(c) \/ UseResult(c)
        PROVE  NeverAhead'
    BY <2>2 DEF BeginGet, UseResult
  <2>3. ASSUME NEW c \in Callers, SetMax(c)
        PROVE  NeverAhead'
    BY <2>3 DEF SetMax, SetMaxNumber, Larger
  <2>4. ASSUME NEW c \in Callers, FindCursor(c) \/ AdvanceFails(c)
        PROVE  NeverAhead'
    BY <2>4 DEF FindCursor, AdvanceFails
  <2>5. ASSUME NEW c \in Callers, UpsertCursor(c)
        PROVE  NeverAhead'
    BY <2>5 DEF UpsertCursor
  <2>6. ASSUME NEW c \in Callers, ReadCache(c)
        PROVE  NeverAhead'
    BY <2>6 DEF ReadCache
  <2>7. ASSUME NEW c \in Callers, ReadDb(c) \/ GetFails(c)
        PROVE  NeverAhead'
    BY <2>7 DEF ReadDb, GetFails
  <2>8. ASSUME NEW c \in Callers, WarmCache(c)
        PROVE  NeverAhead'
    BY <2>8 DEF WarmCache, SetMaxNumber, Larger
  <2>9. CASE WipeCache
    BY <2>9 DEF WipeCache
  <2>10. CASE CrashCalls
    BY <2>10 DEF CrashCalls
  <2>11. CASE UNCHANGED cursorVars
    BY <2>11 DEF cursorVars
  <2>12. QED
    BY <2>1, <2>2, <2>3, <2>4, <2>5, <2>6, <2>7, <2>8, <2>9, <2>10, <2>11
       DEF CursorNext, CallStep
<1>3. QED
  BY <1>1, <1>2, CursorTypeCorrect, PTL DEF CursorSpec

----------------------------------------------------------------------------
\* CacheCoversDb is not inductive: a caller past setMaxNumber carries the ledger
\* it will write to Postgres, and that one must be covered by Redis as well.
CoveredCalls ==
    lapses = 0 => \A c \in Callers :
        call[c].pc \in {"find", "upsert", "getSet"} => call[c].ledger <= cacheLedger

\* While Redis keeps its data and answers, it is never behind Postgres.
THEOREM CacheCoversDbCorrect == CursorSpec => []CacheCoversDb
<1> USE DEF CacheCoversDb, CoveredCalls, NoLedger
<1>1. CursorInit => CacheCoversDb /\ CoveredCalls
  <2> SUFFICES ASSUME CursorInit
               PROVE  CacheCoversDb /\ CoveredCalls
    OBVIOUS
  <2>1. dbLedger \in Int /\ cacheLedger = dbLedger
    BY DEF CursorInit, Checkpoint
  <2>2. CacheCoversDb
    BY <2>1
  <2>3. CoveredCalls
    BY DEF CursorInit, Idle
  <2>4. QED
    BY <2>2, <2>3
<1>2. CursorTypeOK /\ CacheCoversDb /\ CoveredCalls /\ [CursorNext]_cursorVars
        => CacheCoversDb' /\ CoveredCalls'
  <2> SUFFICES ASSUME CursorTypeOK, CacheCoversDb, CoveredCalls,
                      [CursorNext]_cursorVars
               PROVE  CacheCoversDb' /\ CoveredCalls'
    OBVIOUS
  <2> USE DEF CursorTypeOK, Checkpoint, CallState, Idle, At, Goto, Return, Lapse
  <2>1. ASSUME NEW c \in Callers, NEW ledger \in Ledgers, BeginAdvance(c, ledger)
        PROVE  CacheCoversDb' /\ CoveredCalls'
    BY <2>1 DEF BeginAdvance
  <2>2. ASSUME NEW c \in Callers, BeginGet(c) \/ UseResult(c)
        PROVE  CacheCoversDb' /\ CoveredCalls'
    BY <2>2 DEF BeginGet, UseResult
  <2>3. ASSUME NEW c \in Callers, SetMax(c)
        PROVE  CacheCoversDb' /\ CoveredCalls'
    BY <2>3 DEF SetMax, SetMaxNumber, Larger
  <2>4. ASSUME NEW c \in Callers, FindCursor(c) \/ AdvanceFails(c)
        PROVE  CacheCoversDb' /\ CoveredCalls'
    BY <2>4 DEF FindCursor, AdvanceFails
  <2>5. ASSUME NEW c \in Callers, UpsertCursor(c)
        PROVE  CacheCoversDb' /\ CoveredCalls'
    BY <2>5 DEF UpsertCursor
  <2>6. ASSUME NEW c \in Callers, ReadCache(c)
        PROVE  CacheCoversDb' /\ CoveredCalls'
    BY <2>6 DEF ReadCache
  <2>7. ASSUME NEW c \in Callers, ReadDb(c) \/ GetFails(c)
        PROVE  CacheCoversDb' /\ CoveredCalls'
    BY <2>7 DEF ReadDb, GetFails
  <2>8. ASSUME NEW c \in Callers, WarmCache(c)
        PROVE  CacheCoversDb' /\ CoveredCalls'
    BY <2>8 DEF WarmCache, SetMaxNumber, Larger
  <2>9. CASE WipeCache
    BY <2>9 DEF WipeCache
  <2>10. CASE CrashCalls
    BY <2>10 DEF CrashCalls
  <2>11. CASE UNCHANGED cursorVars
    BY <2>11 DEF cursorVars
  <2>12. QED
    BY <2>1, <2>2, <2>3, <2>4, <2>5, <2>6, <2>7, <2>8, <2>9, <2>10, <2>11
       DEF CursorNext, CallStep
<1>3. QED
  BY <1>1, <1>2, CursorTypeCorrect, PTL DEF CursorSpec

----------------------------------------------------------------------------
\* The Redis copy implements the maximum register: until it is lost it only
\* rises, and only to a ledger advanceLedger was called with.
THEOREM RegisterImplemented == CursorSpec => ImplementsMaxRegister
<1> USE DEF NoLedger
<1>1. CursorInit => Promise!RegisterInit
  BY DEF CursorInit, Checkpoint, Promise!RegisterInit
<1>2. CursorTypeOK /\ NeverAhead /\ [CursorNext]_cursorVars
        => [Promise!RegisterNext]_(Promise!registerVars)
  <2> SUFFICES ASSUME CursorTypeOK, NeverAhead, [CursorNext]_cursorVars
               PROVE  [Promise!RegisterNext]_(Promise!registerVars)
    OBVIOUS
  <2> USE DEF Promise!registerVars
  <2>1. ASSUME NEW c \in Callers, NEW ledger \in Ledgers, BeginAdvance(c, ledger)
        PROVE  [Promise!RegisterNext]_(Promise!registerVars)
    BY <2>1 DEF BeginAdvance, Promise!RegisterNext, Promise!Offer
  <2>2. ASSUME NEW c \in Callers, SetMax(c) \/ WarmCache(c)
        PROVE  [Promise!RegisterNext]_(Promise!registerVars)
    <3>1. /\ call[c].ledger \in requested
          /\ SetMaxNumber(call[c].ledger)
          /\ UNCHANGED requested
      BY <2>2 DEF SetMax, WarmCache, At, NeverAhead
    <3>2. call[c].ledger \in Ledgers
      BY <3>1 DEF CursorTypeOK
    <3>3. CASE cacheLedger' = cacheLedger
      BY <3>1, <3>3
    <3>4. CASE cacheLedger' # cacheLedger
      <4>1. cacheLedger' = Larger(cacheLedger, call[c].ledger)
        BY <3>1, <3>4 DEF SetMaxNumber
      <4>2. cacheLedger \in Int
        BY DEF CursorTypeOK, Checkpoint
      <4>3. call[c].ledger \in Nat
        BY <3>2
      <4>4. call[c].ledger > cacheLedger /\ cacheLedger' = call[c].ledger
        BY <3>4, <4>1, <4>2, <4>3 DEF Larger
      <4>5. QED
        BY <3>1, <3>2, <4>4 DEF Promise!RegisterNext, Promise!Raise
    <3>5. QED
      BY <3>3, <3>4
  <2>3. ASSUME NEW c \in Callers,
               \/ BeginGet(c) \/ UseResult(c) \/ FindCursor(c)
               \/ UpsertCursor(c) \/ AdvanceFails(c) \/ ReadCache(c)
               \/ ReadDb(c) \/ GetFails(c)
        PROVE  UNCHANGED Promise!registerVars
    BY <2>3 DEF BeginGet, UseResult, FindCursor, UpsertCursor, AdvanceFails,
                ReadCache, ReadDb, GetFails
  <2>4. CASE WipeCache
    BY <2>4 DEF WipeCache, Promise!RegisterNext, Promise!Forget
  <2>5. CASE CrashCalls \/ UNCHANGED cursorVars
    BY <2>5 DEF CrashCalls, cursorVars
  <2>6. QED
    BY <2>1, <2>2, <2>3, <2>4, <2>5 DEF CursorNext, CallStep
<1>3. QED
  BY <1>1, <1>2, CursorTypeCorrect, NeverAheadCorrect, PTL
     DEF CursorSpec, ImplementsMaxRegister, Promise!RegisterSpec

----------------------------------------------------------------------------
(* The pipeline                                                            *)

USE StreamAssumption, AccountsAssumption, StarterAssumption, LimitsAssumption

----------------------------------------------------------------------------
(* Lemmas about events.                                                    *)

\* The stream's length is a number and each of its members an effect.
LEMMA StreamTyped ==
    /\ Length \in Nat
    /\ \A e \in Events : /\ Stream[e] \in Effect
                         /\ LedgerOf(e) \in Ledgers \cup {NoLedger}
<1>1. Stream \in Seq(Effect)
  BY StreamAssumption
<1>2. Length \in Nat
  BY <1>1 DEF Length
<1>3. \A e \in Events : Stream[e] \in Effect
  BY <1>1 DEF Events, Length
<1>4. QED
  BY <1>2, <1>3 DEF LedgerOf, Effect

\* There are finitely many events.
LEMMA EventsFinite == IsFiniteSet(Events)
<1>1. Length \in Nat
  BY StreamTyped
<1>2. QED
  BY <1>1, FS_Interval DEF Events

\* A set of events is finite, so its size is a number.
LEMMA EventSetSize ==
    ASSUME NEW S, S \subseteq Events
    PROVE  Cardinality(S) \in Nat
<1> QED
  BY EventsFinite, FS_Subset, FS_CardinalityType

\* A nonempty set of numbers has a least member.
LEMMA LeastNatural ==
    ASSUME NEW S, S \subseteq Nat, S # {}
    PROVE  \E e \in S : \A f \in S : e <= f
<1> DEFINE R == OpToRel(<, Nat)
<1>1. PICK e \in S : \A f \in S : ~ <<f, e>> \in R
  <2> HIDE DEF R
  <2>1. IsWellFoundedOn(R, Nat)
    BY NatLessThanWellFounded, Zenon DEF R
  <2>2. QED
    BY <2>1, WFMin, Zenon
<1>2. \A f \in S : ~ f < e
  BY <1>1, Zenon DEF OpToRel
<1>3. ASSUME NEW f \in S
      PROVE  e <= f
  <2>1. ~ f < e /\ f \in Nat /\ e \in Nat
    BY <1>2
  <2>2. QED
    BY <2>1
<1>4. QED
  BY <1>3

\* A nonempty set of events has a last member: the least distance to the end.
LEMMA LastEvent ==
    ASSUME NEW S, S \subseteq Events, S # {}
    PROVE  \E e \in S : \A f \in S : f <= e
<1> DEFINE D == {Length - e : e \in S}
<1>1. Length \in Nat /\ S \subseteq 1..Length
  BY StreamTyped DEF Events
<1>2. D \subseteq Nat /\ D # {}
  <2>1. \A e \in S : Length - e \in Nat
    BY <1>1
  <2>2. QED
    BY <2>1
<1>3. PICK d \in D : \A c \in D : d <= c
  <2> HIDE DEF D
  <2> QED
    BY <1>2, LeastNatural
<1>4. PICK e \in S : d = Length - e
  BY <1>3
<1>5. \A f \in S : Length - e <= Length - f
  BY <1>3, <1>4
<1>6. \A f \in S : f <= e
  BY <1>1, <1>5
<1>7. QED
  BY <1>6

----------------------------------------------------------------------------
(* Type correctness.  A page under way has records left, so that a window  *)
(* of it has a first and a last one; CursorTypeOK comes from the theorem   *)
(* about IndexerCursor, whose steps the pipeline's steps are.              *)

PageHasEvents == page # NoPage => page.left # {}

LocalTypeOK == PollTypeOK /\ QueueTypeOK /\ WorkTypeOK /\ EnvTypeOK

\* The window of a page is a nonempty part of it.
LEMMA WindowTyped ==
    ASSUME PollTypeOK, PageHasEvents, page # NoPage
    PROVE  /\ page.account \in Accounts
           /\ page.from \in Events \cup {0, Now}
           /\ page.left \subseteq Events
           /\ Window \subseteq page.left
           /\ Window # {}
           /\ (CHOOSE e \in Window : \A f \in Window : f <= e) \in Window
<1>1. page \in [account : Accounts, from : Events \cup {0, Now}, left : SUBSET Events]
  BY DEF PollTypeOK
<1>2. page.left \subseteq Events /\ page.left # {}
  BY <1>1 DEF PageHasEvents
<1>3. Window \subseteq page.left
  BY DEF Window
<1>4. PICK first \in page.left : \A f \in page.left : first <= f
  BY <1>2, StreamTyped, LeastNatural DEF Events
<1>5. (CHOOSE e \in page.left : \A f \in page.left : e <= f) \in page.left
  BY <1>4
<1>6. Window # {}
  BY <1>5 DEF Window
<1>7. PICK last \in Window : \A f \in Window : f <= last
  BY <1>2, <1>3, <1>6, LastEvent
<1>8. (CHOOSE e \in Window : \A f \in Window : f <= e) \in Window
  BY <1>7
<1>9. QED
  BY <1>1, <1>2, <1>3, <1>6, <1>8

\* What batchEnqueueLedgerWindow adds are jobs for events of the stream.
LEMMA AddJobsTyped ==
    ASSUME PollTypeOK, PageHasEvents, QueueTypeOK, page # NoPage,
           NEW Q \in SUBSET Queues, AddJobs(Q)
    PROVE  QueueTypeOK'
<1>1. Window \subseteq Events
  BY WindowTyped
<1>2. \A q : Batch(q) \subseteq Events
  BY <1>1 DEF Batch
<1>3. \A q : Cardinality(Batch(q)) \in Nat
  BY <1>2, EventSetSize
<1>4. \A q, e : Cardinality({f \in Batch(q) : f <= e}) \in Nat
  <2> TAKE q, e
  <2>1. {f \in Batch(q) : f <= e} \subseteq Events
    BY <1>2
  <2>2. QED
    BY <2>1, EventSetSize
<1>5. \A q \in Queues : NewJobs(q) \subseteq Job
  <2> TAKE q \in Queues
  <2>1. lastId[q] \in Nat
    BY DEF QueueTypeOK
  <2>2. SUFFICES ASSUME NEW e \in Batch(q)
                 PROVE  [queue |-> q, event |-> e, state |-> "waiting",
                         attempts |-> 0, stalls |-> 0,
                         id |-> lastId[q] + Cardinality({f \in Batch(q) : f <= e})] \in Job
    BY Zenon DEF NewJobs
  <2>3. Cardinality({f \in Batch(q) : f <= e}) \in Nat
    BY <1>4
  <2>4. lastId[q] + Cardinality({f \in Batch(q) : f <= e}) \in Nat
    BY <2>1, <2>3
  <2>5. e \in Events
    BY <1>2
  <2>6. QED
    BY <2>4, <2>5 DEF Job
<1>6. jobs' \subseteq Job
  BY <1>5 DEF AddJobs, QueueTypeOK
<1>7. lastId' \in [Queues -> Nat]
  BY <1>3 DEF AddJobs, QueueTypeOK
<1>8. enqueued' \subseteq Events
  BY <1>2 DEF AddJobs, QueueTypeOK
<1>9. QED
  BY <1>6, <1>7, <1>8 DEF QueueTypeOK

\* The pipeline starts with well-typed variables and no page under way.
LEMMA InitTyped == PipelineInit => LocalTypeOK /\ PageHasEvents
<1> SUFFICES ASSUME PipelineInit
             PROVE  LocalTypeOK /\ PageHasEvents
  OBVIOUS
<1> USE DEF PipelineInit
<1>1. Length \in Nat /\ Backlog \in 0..Length
  BY StreamTyped
<1>2. PollTypeOK
  BY DEF PollTypeOK
<1>3. QueueTypeOK
  BY DEF QueueTypeOK
<1>4. WorkTypeOK
  BY <1>1 DEF WorkTypeOK, Indexed, Events
<1>5. EnvTypeOK
  BY <1>1 DEF EnvTypeOK, Events
<1>6. PageHasEvents
  BY DEF PageHasEvents
<1>7. QED
  BY <1>2, <1>3, <1>4, <1>5, <1>6 DEF LocalTypeOK

\* The poller's steps keep the types.
LEMMA PollerTyped ==
    ASSUME LocalTypeOK, PageHasEvents, Emit \/ Poller
    PROVE  LocalTypeOK' /\ PageHasEvents'
<1> USE DEF LocalTypeOK, pollVars, queueVars, workVars, envVars
<1>1. CASE Emit
  <2>1. emitted' \in Events
    BY <1>1, StreamTyped DEF Emit, Events, EnvTypeOK
  <2>2. EnvTypeOK'
    BY <1>1, <2>1 DEF Emit, EnvTypeOK
  <2>3. PollTypeOK' /\ QueueTypeOK' /\ WorkTypeOK' /\ PageHasEvents'
    BY <1>1 DEF Emit, PollTypeOK, QueueTypeOK, WorkTypeOK, PageHasEvents
  <2>4. QED
    BY <2>2, <2>3
<1>2. CASE Boot
  <2>1. PollTypeOK' /\ PageHasEvents'
    BY <1>2 DEF Boot, PollTypeOK, PageHasEvents
  <2>2. EnvTypeOK'
    BY <1>2 DEF Boot, EnvTypeOK
  <2>3. QueueTypeOK' /\ WorkTypeOK'
    BY <1>2 DEF Boot, QueueTypeOK, WorkTypeOK
  <2>4. QED
    BY <2>1, <2>2, <2>3
<1>3. CASE StartPolling
  <2>1. PollTypeOK' /\ PageHasEvents'
    BY <1>3 DEF StartPolling, PollTypeOK, PageHasEvents
  <2>2. QueueTypeOK' /\ WorkTypeOK' /\ EnvTypeOK'
    BY <1>3 DEF StartPolling, QueueTypeOK, WorkTypeOK, EnvTypeOK
  <2>3. QED
    BY <2>1, <2>2
<1>4. CASE Poll
  <2>1. PollTypeOK' /\ PageHasEvents'
    BY <1>4 DEF Poll, PollTypeOK, PageHasEvents
  <2>2. QueueTypeOK' /\ WorkTypeOK' /\ EnvTypeOK'
    BY <1>4 DEF Poll, QueueTypeOK, WorkTypeOK, EnvTypeOK
  <2>3. QED
    BY <2>1, <2>2
<1>5. ASSUME NEW a \in Accounts, FetchPage(a)
      PROVE  LocalTypeOK' /\ PageHasEvents'
  <2> DEFINE records == FirstOf(Following(a))
  <2>1. records \subseteq Events
    BY StreamTyped DEF FirstOf, Following, Events, EnvTypeOK
  <2>2. PollTypeOK' /\ PageHasEvents'
    <3>1. CASE records = {}
      BY <1>5, <3>1 DEF FetchPage, PollTypeOK, PageHasEvents
    <3>2. CASE records # {}
      <4>1. page' = [account |-> a, from |-> cursors[a], left |-> records]
        BY <1>5, <3>2 DEF FetchPage
      <4>2. cursors[a] \in Events \cup {0, Now}
        BY DEF PollTypeOK
      <4>3. UNCHANGED <<tracked, cursors, toPoll>>
        BY <1>5, <3>2 DEF FetchPage
      <4> HIDE DEF records
      <4>4. QED
        BY <2>1, <3>2, <4>1, <4>2, <4>3 DEF PollTypeOK, PageHasEvents
    <3>3. QED
      BY <3>1, <3>2
  <2>3. QueueTypeOK' /\ WorkTypeOK' /\ EnvTypeOK'
    BY <1>5 DEF FetchPage, QueueTypeOK, WorkTypeOK, EnvTypeOK
  <2>4. QED
    BY <2>2, <2>3
<1>6. ASSUME NEW a \in Accounts, FetchFails(a)
      PROVE  LocalTypeOK' /\ PageHasEvents'
  <2>1. PollTypeOK' /\ PageHasEvents'
    BY <1>6 DEF FetchFails, PollTypeOK, PageHasEvents
  <2>2. EnvTypeOK'
    BY <1>6 DEF FetchFails, Fault, EnvTypeOK
  <2>3. QueueTypeOK' /\ WorkTypeOK'
    BY <1>6 DEF FetchFails, QueueTypeOK, WorkTypeOK
  <2>4. QED
    BY <2>1, <2>2, <2>3
<1>7. ASSUME page # NoPage
      PROVE  /\ Discover \in [Accounts -> Events \cup {0, Now}]
             /\ Discovered \subseteq Accounts
  <2>1. Window \subseteq Events
    BY <1>7, WindowTyped
  <2>2. \A e \in Events : Stream[e].pool \in Accounts
    BY StreamTyped DEF Effect
  <2>3. page.from \in Events \cup {0, Now}
    BY <1>7, WindowTyped
  <2>4. QED
    BY <2>1, <2>2, <2>3 DEF Discovered, Discover, PollTypeOK
<1>8. CASE EnqueueWindow
  <2> DEFINE last == CHOOSE e \in Window : \A f \in Window : f <= e
  <2>1. /\ page # NoPage
        /\ AddJobs(Queues)
        /\ tracked' = tracked \cup Discovered
        /\ cursors' = [Discover EXCEPT ![page.account] = last]
    BY <1>8 DEF EnqueueWindow
  <2>2. /\ page.account \in Accounts
        /\ last \in Events
    BY <2>1, WindowTyped
  <2>3. cursors' \in [Accounts -> Events \cup {0, Now}] /\ tracked' \subseteq Accounts
    <3> HIDE DEF last
    <3> QED
      BY <1>7, <2>1, <2>2 DEF PollTypeOK
  <2>4. toPoll' \subseteq Accounts
    BY <1>8 DEF EnqueueWindow, PollTypeOK
  <2>5. /\ page' \in [account : Accounts, from : Events \cup {0, Now}, left : SUBSET Events]
                       \cup {NoPage}
        /\ PageHasEvents'
    <3>1. CASE page.left = Window
      BY <1>8, <3>1 DEF EnqueueWindow, PageHasEvents
    <3>2. CASE page.left # Window
      <4>1. page' = [page EXCEPT !.left = page.left \ Window]
        BY <1>8, <3>2 DEF EnqueueWindow
      <4>2. page \in [account : Accounts, from : Events \cup {0, Now}, left : SUBSET Events]
        BY <2>1 DEF PollTypeOK
      <4>3. page.left \ Window # {}
        BY <2>1, <3>2, WindowTyped
      <4>4. page'.left = page.left \ Window
        BY <4>1, <4>2
      <4>5. QED
        BY <4>1, <4>2, <4>3, <4>4 DEF PageHasEvents
    <3>3. QED
      BY <3>1, <3>2
  <2>6. QueueTypeOK'
    BY <2>1, AddJobsTyped
  <2>7. WorkTypeOK' /\ EnvTypeOK'
    BY <1>8 DEF EnqueueWindow, WorkTypeOK, EnvTypeOK
  <2>8. QED
    BY <2>3, <2>4, <2>5, <2>6, <2>7 DEF PollTypeOK
<1>9. ASSUME NEW Q \in SUBSET Queues, EnqueueFails(Q)
      PROVE  LocalTypeOK' /\ PageHasEvents'
  <2>1. page # NoPage /\ AddJobs(Q)
    BY <1>9 DEF EnqueueFails
  <2>2. PollTypeOK' /\ PageHasEvents'
    BY <1>7, <1>9, <2>1 DEF EnqueueFails, PollTypeOK, PageHasEvents
  <2>3. QueueTypeOK'
    BY <2>1, AddJobsTyped
  <2>4. EnvTypeOK'
    BY <1>9 DEF EnqueueFails, Fault, EnvTypeOK
  <2>5. WorkTypeOK'
    BY <1>9 DEF EnqueueFails, WorkTypeOK
  <2>6. QED
    BY <2>2, <2>3, <2>4, <2>5
<1>10. CASE Advance(Starter)
  BY <1>10 DEF Advance, PollTypeOK, QueueTypeOK, WorkTypeOK, EnvTypeOK, PageHasEvents
<1>11. QED
  BY <1>1, <1>2, <1>3, <1>4, <1>5, <1>6, <1>8, <1>9, <1>10 DEF Poller

\* A slot that is not free has a job.
LEMMA SlotTyped ==
    ASSUME WorkTypeOK, NEW s \in Slots, slot[s].pc # "free"
    PROVE  /\ slot[s].job \in Job
           /\ slot[s].job.event \in Events
           /\ slot[s].pc \in {"fetched", "persist", "checkpoint"}
<1>1. slot[s] \in [pc : {"fetched", "persist", "checkpoint"}, job : Job]
  BY DEF WorkTypeOK, Free
<1>2. QED
  BY <1>1 DEF Job

\* A slot's record with a step taken or a job given is one again.
LEMMA SlotUpdated ==
    ASSUME WorkTypeOK, NEW s \in Slots, NEW r,
           r \in [pc : {"fetched", "persist", "checkpoint"}, job : Job] \cup {Free},
           slot' = [slot EXCEPT ![s] = r],
           raw' \subseteq Events, reports' \subseteq Job, UNCHANGED deadLetter
    PROVE  WorkTypeOK'
BY DEF WorkTypeOK

\* The steps of a worker slot keep the types.
LEMMA WorkerTyped ==
    ASSUME LocalTypeOK, PageHasEvents, NEW s \in Slots, Worker(s)
    PROVE  LocalTypeOK' /\ PageHasEvents'
<1> USE DEF LocalTypeOK, pollVars, queueVars, workVars, envVars
<1>1. raw \subseteq Events /\ reports \subseteq Job /\ jobs \subseteq Job
  BY DEF WorkTypeOK, QueueTypeOK
<1>2. UNCHANGED pollVars => PollTypeOK' /\ PageHasEvents'
  BY DEF PollTypeOK, PageHasEvents
<1>3. UNCHANGED envVars => EnvTypeOK'
  BY DEF EnvTypeOK
<1>4. jobs' \subseteq Job /\ UNCHANGED <<lastId, enqueued>> => QueueTypeOK'
  BY DEF QueueTypeOK
<1>5. ASSUME NEW j \in jobs, Fetch(s, j)
      PROVE  LocalTypeOK' /\ PageHasEvents'
  <2> DEFINE active == [j EXCEPT !.state = "active"]
  <2>1. active \in Job
    BY <1>1 DEF Job
  <2>2. slot' = [slot EXCEPT ![s] = [pc |-> "fetched", job |-> active]]
    BY <1>5 DEF Fetch
  <2>3. jobs' = (jobs \ {j}) \cup {active}
    BY <1>5 DEF Fetch, Replace
  <2>4. UNCHANGED <<pollVars, envVars, lastId, enqueued, raw, reports, deadLetter>>
    BY <1>5 DEF Fetch
  <2> HIDE DEF active
  <2>5. WorkTypeOK'
    BY <1>1, <2>1, <2>2, <2>4, SlotUpdated
  <2>6. jobs' \subseteq Job
    BY <1>1, <2>1, <2>3
  <2>7. QED
    BY <1>2, <1>3, <1>4, <2>4, <2>5, <2>6
<1>6. ASSUME Finish(s), UNCHANGED <<pollVars, envVars, lastId, enqueued, raw, reports,
                                    deadLetter>>
      PROVE  LocalTypeOK' /\ PageHasEvents'
  <2>1. WorkTypeOK'
    BY <1>1, <1>6, SlotUpdated DEF Finish
  <2>2. jobs' \subseteq Job
    BY <1>1, <1>6 DEF Finish
  <2>3. QED
    BY <1>2, <1>3, <1>4, <1>6, <2>1, <2>2
<1>7. CASE Skip(s)
  BY <1>6, <1>7 DEF Skip
<1>8. CASE Complete(s)
  BY <1>6, <1>8 DEF Complete
<1>9. CASE Handle(s)
  <2>1. slot[s].pc # "free"
    BY <1>9 DEF Handle
  <2>2. WorkTypeOK'
    <3>1. slot[s] \in [pc : {"fetched", "persist", "checkpoint"}, job : Job]
      BY <2>1 DEF WorkTypeOK, Free
    <3>2. slot' = [slot EXCEPT ![s] = [slot[s] EXCEPT !.pc = "persist"]]
      BY <1>9 DEF Handle, WorkTypeOK
    <3>3. [slot[s] EXCEPT !.pc = "persist"] \in
              [pc : {"fetched", "persist", "checkpoint"}, job : Job]
      BY <3>1
    <3>4. QED
      BY <1>1, <1>9, <3>2, <3>3, SlotUpdated DEF Handle
  <2>3. QED
    BY <1>1, <1>2, <1>3, <1>4, <1>9, <2>2 DEF Handle
<1>10. CASE Persist(s)
  <2>1. slot[s].pc # "free"
    BY <1>10 DEF Persist
  <2>2. WorkTypeOK'
    <3>1. slot[s] \in [pc : {"fetched", "persist", "checkpoint"}, job : Job]
      BY <2>1 DEF WorkTypeOK, Free
    <3>2. slot' = [slot EXCEPT ![s] = [slot[s] EXCEPT !.pc = "checkpoint"]]
      BY <1>10 DEF Persist, WorkTypeOK
    <3>3. [slot[s] EXCEPT !.pc = "checkpoint"] \in
              [pc : {"fetched", "persist", "checkpoint"}, job : Job]
      BY <3>1
    <3>4. raw' \subseteq Events
      BY <1>1, <1>10, <2>1, SlotTyped DEF Persist
    <3>5. UNCHANGED <<reports, deadLetter>>
      BY <1>10 DEF Persist
    <3>6. QED
      BY <1>1, <3>2, <3>3, <3>4, <3>5, SlotUpdated
  <2>3. UNCHANGED <<pollVars, queueVars, envVars>>
    BY <1>10 DEF Persist
  <2>4. QED
    BY <1>1, <1>2, <1>3, <1>4, <2>2, <2>3
<1>11. CASE PersistFails(s)
  <2> DEFINE j == slot[s].job
             tried == [j EXCEPT !.attempts = j.attempts + 1]
             last == tried.attempts >= MaxAttempts
             next == [tried EXCEPT !.state = IF last THEN "failed" ELSE "waiting"]
  <2>1. slot[s].pc # "free"
    BY <1>11 DEF PersistFails
  <2>2. j \in Job
    BY <2>1, SlotTyped
  <2>3. tried \in Job
    <3> HIDE DEF j
    <3> QED
      BY <2>2 DEF Job
  <2>4. next \in Job
    <3> HIDE DEF tried, last
    <3> QED
      BY <2>3 DEF Job
  <2>5. /\ jobs' = (jobs \ {j}) \cup {next}
        /\ reports' \in {reports, reports \cup {next}}
        /\ raw' \in {raw, raw \cup {j.event}}
        /\ slot' = [slot EXCEPT ![s] = Free]
    BY <1>11 DEF PersistFails, Replace
  <2>6. UNCHANGED <<pollVars, lastId, enqueued, deadLetter, emitted, status, crashes,
                    shutdowns>>
    BY <1>11 DEF PersistFails
  <2>7. EnvTypeOK'
    BY <1>11, <2>6 DEF PersistFails, Fault, EnvTypeOK
  <2>8. j.event \in Events
    BY <2>1, SlotTyped
  <2> HIDE DEF next, j
  <2>9. raw' \subseteq Events /\ reports' \subseteq Job /\ jobs' \subseteq Job
    BY <1>1, <2>4, <2>5, <2>8
  <2>10. WorkTypeOK'
    BY <2>5, <2>6, <2>9, SlotUpdated
  <2>11. QED
    BY <1>2, <1>4, <2>6, <2>7, <2>9, <2>10
<1>12. CASE Advance(s)
  BY <1>12 DEF Advance, PollTypeOK, QueueTypeOK, WorkTypeOK, EnvTypeOK, PageHasEvents
<1>13. QED
  BY <1>5, <1>7, <1>8, <1>9, <1>10, <1>11, <1>12 DEF Worker

\* The steps of the dead-letter service and of BullMQ's stalled check, and the
\* end of a process, keep the types.
LEMMA OthersTyped ==
    ASSUME LocalTypeOK, PageHasEvents,
           \/ DeadLetters \/ \E j \in jobs : Stall(j)
           \/ Crash \/ Shutdown \/ Exit
    PROVE  LocalTypeOK' /\ PageHasEvents'
<1> USE DEF LocalTypeOK, pollVars, queueVars, workVars, envVars
<1>1. UNCHANGED pollVars => PollTypeOK' /\ PageHasEvents'
  BY DEF PollTypeOK, PageHasEvents
<1>2. UNCHANGED envVars => EnvTypeOK'
  BY DEF EnvTypeOK
<1>3. jobs' \subseteq Job /\ UNCHANGED <<lastId, enqueued>> => QueueTypeOK'
  BY DEF QueueTypeOK
<1>4. raw \subseteq Events /\ reports \subseteq Job /\ jobs \subseteq Job
  BY DEF WorkTypeOK, QueueTypeOK
<1>5. ASSUME NEW j \in reports, RecordDeadLetter(j)
      PROVE  LocalTypeOK' /\ PageHasEvents'
  <2>1. j \in Job /\ [j EXCEPT !.state = "dead"] \in Job
    BY <1>4 DEF Job
  <2>2. jobs' \subseteq Job
    BY <1>4, <1>5, <2>1 DEF RecordDeadLetter, Replace
  <2>3. \A id \in DOMAIN deadLetter' :
          deadLetter'[id] \in [queue : Queues, event : Events]
    <3>1. [queue |-> j.queue, event |-> j.event] \in [queue : Queues, event : Events]
      BY <2>1 DEF Job
    <3>2. CASE j.id \in DOMAIN deadLetter
      BY <1>5, <3>2 DEF RecordDeadLetter, WorkTypeOK
    <3>3. CASE j.id \notin DOMAIN deadLetter
      <4>1. deadLetter' = [id \in DOMAIN deadLetter \cup {j.id} |->
                             IF id = j.id THEN [queue |-> j.queue, event |-> j.event]
                             ELSE deadLetter[id]]
        BY <1>5, <3>3 DEF RecordDeadLetter
      <4>2. QED
        BY <3>1, <4>1 DEF WorkTypeOK
    <3>4. QED
      BY <3>2, <3>3
  <2>4. UNCHANGED <<pollVars, envVars, lastId, enqueued, slot, raw>>
        /\ reports' \subseteq reports
    BY <1>5 DEF RecordDeadLetter
  <2>5. WorkTypeOK'
    BY <2>3, <2>4 DEF WorkTypeOK
  <2>6. QED
    BY <1>1, <1>2, <1>3, <2>2, <2>4, <2>5
<1>6. ASSUME NEW j \in reports, RecordFails(j)
      PROVE  LocalTypeOK' /\ PageHasEvents'
  <2>1. WorkTypeOK'
    BY <1>6 DEF RecordFails, WorkTypeOK
  <2>2. EnvTypeOK'
    BY <1>6 DEF RecordFails, Fault, EnvTypeOK
  <2>3. QED
    BY <1>1, <1>3, <1>4, <1>6, <2>1, <2>2 DEF RecordFails
<1>7. ASSUME NEW j \in jobs, Stall(j)
      PROVE  LocalTypeOK' /\ PageHasEvents'
  <2> DEFINE state == IF j.stalls + 1 > MaxStalled THEN "failed" ELSE "waiting"
             again == [j EXCEPT !.stalls = j.stalls + 1, !.state = state]
  <2>1. again \in Job
    <3>1. state \in {"failed", "waiting"}
      OBVIOUS
    <3>2. j \in Job
      BY <1>4
    <3>3. j.stalls + 1 \in Nat
      BY <3>2 DEF Job
    <3> HIDE DEF state
    <3>4. [j EXCEPT !.stalls = j.stalls + 1] \in Job
      BY <3>2, <3>3 DEF Job
    <3>5. again = [[j EXCEPT !.stalls = j.stalls + 1] EXCEPT !.state = state]
      OBVIOUS
    <3>6. QED
      BY <3>1, <3>4, <3>5 DEF Job
  <2>2. jobs' = (jobs \ {j}) \cup {again}
    BY <1>7 DEF Stall, Replace
  <2> HIDE DEF again
  <2>3. jobs' \subseteq Job
    BY <1>4, <2>1, <2>2
  <2>4. UNCHANGED <<pollVars, envVars, lastId, enqueued, workVars>>
    BY <1>7 DEF Stall
  <2>5. WorkTypeOK'
    BY <2>4 DEF WorkTypeOK
  <2>6. QED
    BY <1>1, <1>2, <1>3, <2>3, <2>4, <2>5
<1>8. ASSUME Gone
      PROVE  PollTypeOK' /\ PageHasEvents' /\ QueueTypeOK' /\ WorkTypeOK'
  <2>1. PollTypeOK' /\ PageHasEvents'
    BY <1>8 DEF Gone, PollTypeOK, PageHasEvents
  <2>2. QueueTypeOK' /\ WorkTypeOK'
    BY <1>8 DEF Gone, QueueTypeOK, WorkTypeOK
  <2>3. QED
    BY <2>1, <2>2
<1>9. CASE Crash
  <2>1. EnvTypeOK'
    BY <1>9 DEF Crash, Gone, EnvTypeOK
  <2>2. QED
    BY <1>8, <1>9, <2>1 DEF Crash
<1>10. CASE Exit
  <2>1. EnvTypeOK'
    BY <1>10 DEF Exit, Gone, EnvTypeOK
  <2>2. QED
    BY <1>8, <1>10, <2>1 DEF Exit
<1>11. CASE Shutdown
  <2>1. EnvTypeOK'
    BY <1>11 DEF Shutdown, EnvTypeOK
  <2>2. WorkTypeOK'
    BY <1>11 DEF Shutdown, WorkTypeOK
  <2>3. QED
    BY <1>1, <1>3, <1>4, <1>11, <2>1, <2>2 DEF Shutdown
<1>12. QED
  BY <1>5, <1>6, <1>7, <1>9, <1>10, <1>11 DEF DeadLetters

----------------------------------------------------------------------------
(* The pipeline drives the cursor service, so what is proved of            *)
(* IndexerCursor holds of it.                                              *)

\* Every step of the pipeline is a step of the cursor service or leaves it alone.
LEMMA StepIsCursorStep ==
    ASSUME LocalTypeOK, [PipelineNext]_vars
    PROVE  [CursorNext]_cursorVars
<1> USE DEF vars
<1>1. CASE Boot
  BY <1>1 DEF Boot, CursorNext
<1>2. CASE StartPolling
  BY <1>2 DEF StartPolling, CursorNext
<1>3. ASSUME NEW c \in Callers, Advance(c)
      PROVE  CursorNext
  BY <1>3 DEF Advance, CursorNext
<1>4. ASSUME NEW s \in Slots, Persist(s)
      PROVE  [CursorNext]_cursorVars
  <2> DEFINE l == LedgerOf(slot[s].job.event)
  <2>1. slot[s].job.event \in Events
    BY <1>4, SlotTyped DEF Persist, LocalTypeOK
  <2>2. l = NoLedger \/ l \in Ledgers
    BY <2>1, StreamTyped
  <2>3. CASE l = NoLedger
    BY <1>4, <2>3 DEF Persist
  <2>4. CASE l # NoLedger
    <3>1. BeginAdvance(s, l)
      BY <1>4, <2>4 DEF Persist
    <3>2. s \in Callers /\ l \in Ledgers
      BY <2>2, <2>4 DEF Slots
    <3> HIDE DEF l
    <3>3. QED
      BY <3>1, <3>2 DEF CursorNext
  <2>5. QED
    BY <2>3, <2>4
<1>5. ASSUME Gone
      PROVE  CursorNext
  BY <1>5 DEF Gone, CursorNext
<1>6. CASE Emit
  BY <1>6 DEF Emit
<1>7. CASE Poller
  <2>1. Poll => UNCHANGED cursorVars
    BY DEF Poll
  <2>2. \A a \in Accounts : FetchPage(a) \/ FetchFails(a) => UNCHANGED cursorVars
    BY DEF FetchPage, FetchFails
  <2>3. EnqueueWindow => UNCHANGED cursorVars
    BY DEF EnqueueWindow
  <2>4. \A Q \in SUBSET Queues : EnqueueFails(Q) => UNCHANGED cursorVars
    BY DEF EnqueueFails
  <2>5. QED
    BY <1>1, <1>2, <1>3, <1>7, <2>1, <2>2, <2>3, <2>4 DEF Poller
<1>8. ASSUME NEW s \in Slots, Worker(s)
      PROVE  [CursorNext]_cursorVars
  <2>1. \A j \in jobs : Fetch(s, j) => UNCHANGED cursorVars
    BY DEF Fetch
  <2>2. Skip(s) \/ Handle(s) \/ PersistFails(s) \/ Complete(s) => UNCHANGED cursorVars
    BY DEF Skip, Handle, PersistFails, Complete
  <2>3. s \in Callers
    BY DEF Slots
  <2>4. QED
    BY <1>3, <1>4, <1>8, <2>1, <2>2, <2>3 DEF Worker
<1>9. CASE DeadLetters
  BY <1>9 DEF DeadLetters, RecordDeadLetter, RecordFails
<1>10. ASSUME NEW j \in jobs, Stall(j)
       PROVE  UNCHANGED cursorVars
  BY <1>10 DEF Stall
<1>11. CASE Crash \/ Shutdown \/ Exit
  BY <1>5, <1>11 DEF Crash, Shutdown, Exit
<1>12. QED
  BY <1>6, <1>7, <1>8, <1>9, <1>10, <1>11 DEF PipelineNext

\* LocalTypeOK and PageHasEvents are kept by every step.
LEMMA LocalStep ==
    ASSUME LocalTypeOK, PageHasEvents, [PipelineNext]_vars
    PROVE  LocalTypeOK' /\ PageHasEvents'
<1>1. CASE UNCHANGED vars
  BY <1>1 DEF vars, pollVars, queueVars, workVars, envVars, LocalTypeOK, PollTypeOK,
              QueueTypeOK, WorkTypeOK, EnvTypeOK, PageHasEvents
<1>2. CASE PipelineNext
  BY <1>2, PollerTyped, WorkerTyped, OthersTyped DEF PipelineNext
<1>3. QED
  BY <1>1, <1>2

\* From its start on, the pipeline's own variables have their types and a page
\* under way has records left.
LEMMA LocalTypeCorrect == PipelineSpec => [](LocalTypeOK /\ PageHasEvents)
<1>1. PipelineInit => LocalTypeOK /\ PageHasEvents
  BY InitTyped
<1>2. LocalTypeOK /\ PageHasEvents /\ [PipelineNext]_vars
        => (LocalTypeOK /\ PageHasEvents)'
  BY LocalStep
<1>3. QED
  BY <1>1, <1>2, PTL DEF PipelineSpec

\* The pipeline is a use of the cursor service: each of its behaviours is one of
\* IndexerCursor.
THEOREM PipelineUsesCursor == PipelineSpec => CursorSpec
<1>1. PipelineInit => CursorInit
  BY DEF PipelineInit
<1>2. LocalTypeOK /\ [PipelineNext]_vars => [CursorNext]_cursorVars
  BY StepIsCursorStep
<1>3. QED
  BY <1>1, <1>2, LocalTypeCorrect, PTL DEF PipelineSpec, CursorSpec

\* Every variable of the poller, the queues, the workers and the checkpoint
\* keeps its type, whatever stream of effects Horizon serves.
THEOREM PipelineTypeCorrect == PipelineSpec => []PipelineTypeOK
<1>1. PipelineSpec => []CursorTypeOK
  BY PipelineUsesCursor, CursorTypeCorrect, PTL
<1>2. CursorTypeOK /\ LocalTypeOK => PipelineTypeOK
  BY DEF PipelineTypeOK, LocalTypeOK
<1>3. QED
  BY <1>1, <1>2, LocalTypeCorrect, PTL

----------------------------------------------------------------------------
(* The checkpoint names only events that are in Postgres.                  *)

\* advanceLedger is only ever called for an event whose row is there.
RequestedPersisted == requested \subseteq LedgersOf(raw)

\* Rows are never taken away, so what was requested stays persisted.
LEMMA RequestedPersistedStep ==
    ASSUME LocalTypeOK, RequestedPersisted, [PipelineNext]_vars
    PROVE  RequestedPersisted'
<1> USE DEF vars, cursorVars, workVars, RequestedPersisted, LedgersOf
<1>1. UNCHANGED requested /\ raw \subseteq raw' => RequestedPersisted'
  OBVIOUS
<1>2. UNCHANGED requested /\ UNCHANGED raw => RequestedPersisted'
  OBVIOUS
<1>3. \A c \in Callers : CallStep(c) => UNCHANGED requested
  BY DEF CallStep, SetMax, FindCursor, UpsertCursor, AdvanceFails, ReadCache, ReadDb,
         WarmCache, GetFails
<1>4. Starter \in Callers /\ Slots \subseteq Callers
  BY DEF Slots
<1>5. CASE Poller
  <2>1. UNCHANGED requested /\ UNCHANGED raw
    BY <1>3, <1>4, <1>5 DEF Poller, Boot, BeginGet, StartPolling, UseResult, Poll, Advance, FetchPage,
       FetchFails, EnqueueWindow, EnqueueFails
  <2>2. QED
    BY <1>2, <2>1
<1>6. ASSUME NEW s \in Slots, Worker(s)
      PROVE  RequestedPersisted'
  <2>1. CASE Persist(s)
    <3> DEFINE e == slot[s].job.event
    <3>1. raw' = raw \cup {e}
      BY <2>1 DEF Persist
    <3>2. requested' \in {requested, requested \cup {LedgerOf(e)}}
      BY <2>1 DEF Persist, BeginAdvance
    <3>3. QED
      BY <3>1, <3>2
  <2>2. CASE PersistFails(s)
    BY <1>1, <2>2 DEF PersistFails
  <2>3. CASE Advance(s)
    BY <1>2, <1>3, <1>4, <2>3 DEF Advance
  <2>4. CASE Skip(s) \/ Handle(s) \/ Complete(s) \/ \E j \in jobs : Fetch(s, j)
    BY <1>2, <2>4 DEF Skip, Handle, Complete, Fetch
  <2>5. QED
    BY <1>6, <2>1, <2>2, <2>3, <2>4 DEF Worker
<1>7. CASE DeadLetters \/ \E j \in jobs : Stall(j)
  BY <1>2, <1>7 DEF DeadLetters, RecordDeadLetter, RecordFails, Stall
<1>8. CASE Emit \/ Crash \/ Shutdown \/ Exit
  BY <1>2, <1>8 DEF Emit, Crash, Shutdown, Exit, Gone, CrashCalls
<1>9. CASE UNCHANGED vars
  BY <1>2, <1>9
<1>10. QED
  BY <1>5, <1>6, <1>7, <1>8, <1>9 DEF PipelineNext

\* "the ledger checkpoint only advances after a successful persist"
\* (docs/ARCHITECTURE.md:147), through any failures, crashes and shutdowns: a
\* store never holds a ledger no call was made with, and no call is made for an
\* event without a row.
THEOREM CheckpointPersistedCorrect == PipelineSpec => []CheckpointPersisted
<1>1. PipelineInit => RequestedPersisted
  BY DEF PipelineInit, CursorInit, RequestedPersisted, LedgersOf
<1>2. LocalTypeOK /\ RequestedPersisted /\ [PipelineNext]_vars => RequestedPersisted'
  BY RequestedPersistedStep
<1>3. PipelineSpec => []NeverAhead
  BY PipelineUsesCursor, NeverAheadCorrect, PTL
<1>4. RequestedPersisted /\ NeverAhead => CheckpointPersisted
  BY DEF RequestedPersisted, NeverAhead, CheckpointPersisted
<1>5. QED
  BY <1>1, <1>2, <1>3, <1>4, LocalTypeCorrect, PTL DEF PipelineSpec

----------------------------------------------------------------------------
(* Jobs.  BullMQ numbers the jobs of a queue, so two jobs in it are told    *)
(* apart by queue and number; the job a slot is busy with is in the queue,  *)
(* active, and no other slot's; what is reported is in the queue, failed    *)
(* for good.  That no two slots have one job rests on the numbers: a job    *)
(* that is taken could otherwise become the one another slot has.           *)

JobsNumbered ==
    /\ \A j \in jobs : j.id <= lastId[j.queue]
    /\ \A i, j \in jobs : i.queue = j.queue /\ i.id = j.id => i = j

SlotsWork ==
    /\ \A s \in Slots : slot[s] # Free => slot[s].job \in jobs /\ slot[s].job.state = "active"
    /\ \A s, t \in Slots : slot[s] # Free /\ slot[t] # Free /\ s # t
                              => slot[s].job # slot[t].job

ReportsFailed ==
    /\ reports \subseteq jobs
    /\ \A j \in reports : j.state = "failed" /\ j.attempts >= MaxAttempts

\* A process that is down works on nothing, one that closes was told to, and a
\* slot that has come to the checkpoint has written its event.
SlotsTrue ==
    /\ status = "down" => \A s \in Slots : slot[s] = Free
    /\ status = "closing" => shutdowns > 0
    /\ \A s \in Slots : slot[s].pc = "checkpoint" => slot[s].job.event \in raw

JobsInv == JobsNumbered /\ SlotsWork /\ ReportsFailed /\ DeadLetterIsFinal
             /\ SlotsTrue /\ EnqueuedNotLost

\* The number of a job added for an event exceeds the last number by the event's
\* rank in its batch: ranks start from one and are distinct.
LEMMA RankInBatch ==
    ASSUME NEW S, S \subseteq Events, NEW e \in S
    PROVE  /\ Cardinality({x \in S : x <= e}) \in 1..Cardinality(S)
           /\ \A f \in S : e < f =>
                Cardinality({x \in S : x <= e}) < Cardinality({x \in S : x <= f})
<1>1. Length \in Nat
  BY StreamTyped
<1>2. IsFiniteSet(Events)
  BY <1>1, FS_Interval DEF Events
<1>3. IsFiniteSet(S)
  BY <1>2, FS_Subset
<1>4. \A T \in SUBSET S : /\ IsFiniteSet(T) /\ Cardinality(T) \in Nat
                          /\ Cardinality(T) <= Cardinality(S)
  <2> TAKE T \in SUBSET S
  <2>1. IsFiniteSet(T) /\ Cardinality(T) <= Cardinality(S)
    BY <1>3, FS_Subset
  <2>2. QED
    BY <2>1, FS_CardinalityType
<1>5. S \subseteq Int
  BY <1>1 DEF Events
<1>6. Cardinality({x \in S : x <= e}) \in 1..Cardinality(S)
  <2> DEFINE T == {x \in S : x <= e}
  <2>1. T \in SUBSET S /\ e \in T
    BY <1>5
  <2> HIDE DEF T
  <2>2. IsFiniteSet(T) /\ Cardinality(T) \in Nat /\ Cardinality(T) <= Cardinality(S)
    BY <1>4, <2>1
  <2>3. Cardinality(T) # 0
    BY <2>1, <2>2, FS_EmptySet
  <2>4. Cardinality(S) \in Nat
    BY <1>4
  <2>5. Cardinality(T) \in 1..Cardinality(S)
    BY <2>2, <2>3, <2>4
  <2>6. QED
    BY <2>5 DEF T
<1>7. ASSUME NEW f \in S, e < f
      PROVE  Cardinality({x \in S : x <= e}) < Cardinality({x \in S : x <= f})
  <2> DEFINE T == {x \in S : x <= e}
             U == {x \in S : x <= f}
  <2>1. T \in SUBSET U /\ U \in SUBSET S /\ T \in SUBSET S
    <3>1. \A x \in S : x <= e => x <= f
      BY <1>5, <1>7
    <3>2. QED
      BY <3>1
  <2>2. f \in U /\ f \notin T
    BY <1>5, <1>7
  <2> HIDE DEF T, U
  <2>3. IsFiniteSet(U) /\ Cardinality(U) \in Nat /\ Cardinality(T) \in Nat
    BY <1>4, <2>1
  <2>4. Cardinality(T) <= Cardinality(U) /\ (Cardinality(U) = Cardinality(T) => U = T)
    BY <2>1, <2>3, FS_Subset
  <2>5. Cardinality(T) < Cardinality(U)
    BY <2>2, <2>3, <2>4
  <2>6. QED
    BY <2>5 DEF T, U
<1>8. QED
  BY <1>6, <1>7

\* A job put back under its queue and number, or taken away, leaves the others'.
LEMMA ReplacedNumbered ==
    ASSUME QueueTypeOK, JobsNumbered, NEW j \in jobs, NEW n,
           n.queue = j.queue, n.id = j.id,
           jobs' \subseteq (jobs \ {j}) \cup {n}, UNCHANGED lastId
    PROVE  JobsNumbered'
<1>1. \A i \in jobs' : (i \in jobs /\ i # j) \/ i = n
  OBVIOUS
<1>2. ASSUME NEW i \in jobs'
      PROVE  i.id <= lastId'[i.queue]
  BY <1>1 DEF JobsNumbered
<1>3. ASSUME NEW i \in jobs', NEW k \in jobs', i.queue = k.queue, i.id = k.id
      PROVE  i = k
  <2>1. CASE i = n /\ k = n
    BY <2>1
  <2>2. CASE i = n /\ k # n
    BY <1>1, <1>3, <2>2 DEF JobsNumbered
  <2>3. CASE i # n /\ k = n
    BY <1>1, <1>3, <2>3 DEF JobsNumbered
  <2>4. CASE i # n /\ k # n
    BY <1>1, <1>3, <2>4 DEF JobsNumbered
  <2>5. QED
    BY <2>1, <2>2, <2>3, <2>4
<1>4. QED
  BY <1>2, <1>3 DEF JobsNumbered

\* The jobs of a window get numbers of their own.
LEMMA AddedNumbered ==
    ASSUME PollTypeOK, PageHasEvents, QueueTypeOK, page # NoPage, JobsNumbered,
           NEW Q \in SUBSET Queues, AddJobs(Q)
    PROVE  JobsNumbered'
<1> DEFINE Rank(q, e) == Cardinality({f \in Batch(q) : f <= e})
<1>1. Window \subseteq Events
  BY WindowTyped
<1>2. \A q : Batch(q) \subseteq Events
  BY <1>1 DEF Batch
<1>3. \A q \in Queues : lastId[q] \in Nat /\ Cardinality(Batch(q)) \in Nat
  BY <1>2, EventSetSize DEF QueueTypeOK
<1>4. \A q \in Queues : lastId'[q] = IF q \in Q THEN lastId[q] + Cardinality(Batch(q))
                                     ELSE lastId[q]
  BY DEF AddJobs
<1>5. \A q, e : e \in Batch(q) => Rank(q, e) \in 1..Cardinality(Batch(q))
  <2> TAKE q, e
  <2>1. SUFFICES ASSUME e \in Batch(q)
                 PROVE  Rank(q, e) \in 1..Cardinality(Batch(q))
    OBVIOUS
  <2>2. QED
    BY <1>2, <2>1, RankInBatch
<1>6. \A q, e, f : e \in Batch(q) /\ f \in Batch(q) /\ e < f => Rank(q, e) < Rank(q, f)
  <2> TAKE q, e, f
  <2>1. SUFFICES ASSUME e \in Batch(q), f \in Batch(q), e < f
                 PROVE  Rank(q, e) < Rank(q, f)
    OBVIOUS
  <2>2. QED
    BY <1>2, <2>1, RankInBatch
<1>7. \A j \in jobs : j.queue \in Queues /\ j.id \in Nat
  BY DEF QueueTypeOK, Job
<1>8. ASSUME NEW j \in jobs', j \notin jobs
      PROVE  /\ j.queue \in Q
             /\ j.event \in Batch(j.queue)
             /\ j.id = lastId[j.queue] + Rank(j.queue, j.event)
             /\ j.state = "waiting" /\ j.attempts = 0 /\ j.stalls = 0
             /\ j = [queue |-> j.queue, event |-> j.event, state |-> "waiting",
                     attempts |-> 0, stalls |-> 0, id |-> j.id]
  <2>1. PICK q \in Q : j \in NewJobs(q)
    BY <1>8 DEF AddJobs
  <2>2. PICK e \in Batch(q) :
          j = [queue |-> q, event |-> e, state |-> "waiting", attempts |-> 0, stalls |-> 0,
               id |-> lastId[q] + Rank(q, e)]
    BY <2>1, Zenon DEF NewJobs
  <2> HIDE DEF Rank
  <2>3. QED
    BY <2>2
<1> HIDE DEF Rank
<1>9. ASSUME NEW j \in jobs'
      PROVE  j.id <= lastId'[j.queue]
  <2>1. CASE j \in jobs
    <3>1. j.id <= lastId[j.queue] /\ j.queue \in Queues /\ j.id \in Nat
      BY <1>7, <2>1 DEF JobsNumbered
    <3>2. QED
      BY <1>3, <1>4, <3>1
  <2>2. CASE j \notin jobs
    <3>1. /\ j.queue \in Q /\ j.queue \in Queues
          /\ j.id = lastId[j.queue] + Rank(j.queue, j.event)
          /\ Rank(j.queue, j.event) \in 1..Cardinality(Batch(j.queue))
      BY <1>5, <1>8, <2>2
    <3>2. QED
      BY <1>3, <1>4, <3>1
  <2>3. QED
    BY <2>1, <2>2
<1>10. ASSUME NEW i \in jobs', NEW j \in jobs', i \in jobs, j \notin jobs,
              i.queue = j.queue, i.id = j.id
       PROVE  FALSE
  <2>1. i.id <= lastId[i.queue] /\ i.queue \in Queues /\ i.id \in Nat
    BY <1>7, <1>10 DEF JobsNumbered
  <2>2. /\ j.id = lastId[j.queue] + Rank(j.queue, j.event)
        /\ Rank(j.queue, j.event) \in 1..Cardinality(Batch(j.queue))
    BY <1>5, <1>8, <1>10
  <2>3. QED
    BY <1>3, <1>10, <2>1, <2>2
<1>11. ASSUME NEW i \in jobs', NEW j \in jobs', i \notin jobs, j \notin jobs,
              i.queue = j.queue, i.id = j.id
       PROVE  i = j
  <2> DEFINE q == i.queue
  <2>1. /\ q \in Queues /\ i.event \in Batch(q) /\ j.event \in Batch(q)
        /\ i.id = lastId[q] + Rank(q, i.event)
        /\ j.id = lastId[q] + Rank(q, j.event)
        /\ Rank(q, i.event) \in 1..Cardinality(Batch(q))
        /\ Rank(q, j.event) \in 1..Cardinality(Batch(q))
    BY <1>5, <1>8, <1>11
  <2>2. Rank(q, i.event) = Rank(q, j.event)
    <3>1. \A n, k, l \in Nat : n + k = n + l => k = l
      OBVIOUS
    <3>2. Rank(q, i.event) \in Nat /\ Rank(q, j.event) \in Nat
      <4>1. \A n : n \in 1..Cardinality(Batch(q)) => n \in Nat
        BY <1>3, <2>1
      <4>2. QED
        BY <2>1, <4>1
    <3>3. lastId[q] \in Nat
      BY <1>3, <2>1
    <3>4. lastId[q] + Rank(q, i.event) = lastId[q] + Rank(q, j.event)
      BY <1>11, <2>1
    <3>5. QED
      BY <3>1, <3>2, <3>3, <3>4, Zenon
  <2>3. i.event \in Int /\ j.event \in Int
    BY <1>2, <2>1, StreamTyped DEF Events
  <2>4. ~(i.event < j.event) /\ ~(j.event < i.event)
    BY <1>6, <2>1, <2>2
  <2>5. i.event = j.event
    BY <2>3, <2>4
  <2>6. QED
    BY <1>8, <1>11, <2>5
<1>12. QED
  BY <1>9, <1>10, <1>11 DEF JobsNumbered

\* What the parts of the invariant need of a step.
LEMMA DeadKept ==
    ASSUME DeadLetterIsFinal, UNCHANGED deadLetter,
           \A j \in jobs : j.state = "dead" => j \in jobs'
    PROVE  DeadLetterIsFinal'
<1> SUFFICES ASSUME NEW id \in DOMAIN deadLetter
             PROVE  \E j \in jobs' : /\ j.id = id
                                     /\ j.queue = deadLetter[id].queue
                                     /\ j.event = deadLetter[id].event
                                     /\ j.state = "dead"
                                     /\ j.attempts >= MaxAttempts
  BY DEF DeadLetterIsFinal
<1>1. PICK j \in jobs : /\ j.id = id
                        /\ j.queue = deadLetter[id].queue
                        /\ j.event = deadLetter[id].event
                        /\ j.state = "dead"
                        /\ j.attempts >= MaxAttempts
  BY DEF DeadLetterIsFinal
<1>2. QED
  BY <1>1

LEMMA EnqueuedKept ==
    ASSUME EnqueuedNotLost, UNCHANGED <<enqueued, shutdowns>>, raw \subseteq raw',
           \A j \in jobs : \/ shutdowns # 0
                           \/ Stream[j.event].shape # "complete"
                           \/ j.event \in raw'
                           \/ \E i \in jobs' : i.event = j.event
    PROVE  EnqueuedNotLost'
<1> SUFFICES ASSUME shutdowns = 0, NEW e \in enqueued, Stream[e].shape = "complete",
                    e \notin raw'
             PROVE  \E j \in jobs' : j.event = e
  BY DEF EnqueuedNotLost
<1>1. PICK j \in jobs : j.event = e
  BY DEF EnqueuedNotLost
<1>2. QED
  BY <1>1

LEMMA SlotsKept ==
    ASSUME SlotsWork, UNCHANGED slot, \A s \in Slots : slot[s] # Free => slot[s].job \in jobs'
    PROVE  SlotsWork'
BY DEF SlotsWork

LEMMA SlotFreed ==
    ASSUME WorkTypeOK, SlotsWork, NEW s \in Slots, slot[s] # Free,
           slot' = [slot EXCEPT ![s] = Free],
           \A j \in jobs : j # slot[s].job => j \in jobs'
    PROVE  SlotsWork'
<1>1. \A t \in Slots : slot'[t] = IF t = s THEN Free ELSE slot[t]
  BY DEF WorkTypeOK
<1>2. QED
  BY <1>1 DEF SlotsWork

LEMMA SlotMoved ==
    ASSUME WorkTypeOK, SlotsWork, NEW s \in Slots, slot[s] # Free, NEW p,
           slot' = [slot EXCEPT ![s].pc = p], UNCHANGED jobs
    PROVE  SlotsWork'
<1>1. slot[s] \in [pc : {"fetched", "persist", "checkpoint"}, job : Job]
  BY DEF WorkTypeOK
<1>2. /\ \A t \in Slots : t # s => slot'[t] = slot[t]
      /\ slot'[s].job = slot[s].job
  BY <1>1 DEF WorkTypeOK
<1>3. QED
  BY <1>2 DEF SlotsWork

LEMMA ReportsKept ==
    ASSUME ReportsFailed, reports' \subseteq reports,
           \A j \in jobs : j.state = "failed" => j \in jobs'
    PROVE  ReportsFailed'
BY DEF ReportsFailed

\* The states of a job are distinct, and so are a busy slot and a free one.
LEMMA SlotBusy ==
    ASSUME NEW s \in Slots, slot[s].pc # "free"
    PROVE  slot[s] # Free
BY DEF Free

\* A step that leaves jobs and slots alone, perhaps of a process that starts.
LEMMA JobsFrame ==
    ASSUME JobsInv, UNCHANGED <<queueVars, workVars, shutdowns>>, status' \in {status, "up"}
    PROVE  JobsInv'
<1> USE DEF JobsInv, queueVars, workVars
<1>1. JobsNumbered' /\ SlotsWork' /\ ReportsFailed' /\ DeadLetterIsFinal'
  BY DEF JobsNumbered, SlotsWork, ReportsFailed, DeadLetterIsFinal
<1>2. SlotsTrue'
  BY DEF SlotsTrue
<1>3. EnqueuedNotLost'
  BY DEF EnqueuedNotLost
<1>4. QED
  BY <1>1, <1>2, <1>3

\* Every event added has a job, and nothing a slot or a report holds is touched.
LEMMA AddedJobs ==
    ASSUME LocalTypeOK, PageHasEvents, page # NoPage, JobsInv,
           NEW Q \in SUBSET Queues, AddJobs(Q),
           UNCHANGED <<workVars, status, shutdowns>>
    PROVE  JobsInv'
<1> USE DEF JobsInv, workVars
<1>1. jobs \subseteq jobs'
  BY DEF AddJobs
<1>2. JobsNumbered'
  BY AddedNumbered DEF LocalTypeOK
<1>3. SlotsWork' /\ ReportsFailed' /\ DeadLetterIsFinal'
  BY <1>1, SlotsKept, ReportsKept, DeadKept DEF SlotsWork
<1>4. SlotsTrue'
  BY DEF SlotsTrue
<1>5. EnqueuedNotLost'
  <2> SUFFICES ASSUME shutdowns = 0, NEW e \in enqueued', Stream[e].shape = "complete",
                      e \notin raw
               PROVE  \E j \in jobs' : j.event = e
    BY DEF EnqueuedNotLost
  <2>1. CASE e \in enqueued
    <3>1. PICK j \in jobs : j.event = e
      BY <2>1 DEF EnqueuedNotLost
    <3>2. QED
      BY <1>1, <3>1
  <2>2. CASE e \notin enqueued
    <3>1. PICK q \in Q : e \in Batch(q)
      BY <2>2 DEF AddJobs
    <3> DEFINE new == [queue |-> q, event |-> e, state |-> "waiting", attempts |-> 0,
                       stalls |-> 0,
                       id |-> lastId[q] + Cardinality({f \in Batch(q) : f <= e})]
    <3>2. new \in NewJobs(q)
      BY <3>1, Zenon DEF NewJobs
    <3>3. new.event = e
      OBVIOUS
    <3> HIDE DEF new
    <3>4. new \in jobs'
      BY <3>2 DEF AddJobs
    <3>5. QED
      BY <3>3, <3>4
  <2>3. QED
    BY <2>1, <2>2
<1>6. QED
  BY <1>2, <1>3, <1>4, <1>5

\* The steps of the poller.
LEMMA PollerJobs ==
    ASSUME LocalTypeOK, PageHasEvents, JobsInv, Emit \/ Poller
    PROVE  JobsInv'
<1> USE DEF envVars
<1>1. CASE Emit \/ Boot \/ StartPolling \/ Poll \/ Advance(Starter)
  <2>1. UNCHANGED <<queueVars, workVars, shutdowns>> /\ status' \in {status, "up"}
    BY <1>1 DEF Emit, Boot, StartPolling, Poll, Advance
  <2>2. QED
    BY <2>1, JobsFrame
<1>2. ASSUME NEW a \in Accounts, FetchPage(a) \/ FetchFails(a)
      PROVE  JobsInv'
  <2>1. UNCHANGED <<queueVars, workVars, shutdowns, status>>
    BY <1>2 DEF FetchPage, FetchFails
  <2>2. QED
    BY <2>1, JobsFrame
<1>3. CASE EnqueueWindow
  <2>1. page # NoPage /\ AddJobs(Queues) /\ UNCHANGED <<workVars, status, shutdowns>>
    BY <1>3 DEF EnqueueWindow
  <2>2. Queues \in SUBSET Queues
    OBVIOUS
  <2>3. QED
    BY <2>1, <2>2, AddedJobs
<1>4. ASSUME NEW Q \in SUBSET Queues, EnqueueFails(Q)
      PROVE  JobsInv'
  <2>1. page # NoPage /\ AddJobs(Q) /\ UNCHANGED <<workVars, status, shutdowns>>
    BY <1>4 DEF EnqueueFails
  <2>2. QED
    BY <2>1, AddedJobs
<1>5. QED
  BY <1>1, <1>2, <1>3, <1>4 DEF Poller

\* A slot takes a waiting job: it is not another slot's, which is active, and no
\* other has its number.
LEMMA FetchJobs ==
    ASSUME LocalTypeOK, JobsInv, NEW s \in Slots, NEW j \in jobs, Fetch(s, j)
    PROVE  JobsInv'
<1> DEFINE active == [j EXCEPT !.state = "active"]
<1> USE DEF JobsInv
<1>1. j \in Job
  BY DEF LocalTypeOK, QueueTypeOK
<1>2. /\ active.queue = j.queue /\ active.id = j.id /\ active.event = j.event
      /\ active.state = "active"
  BY <1>1 DEF Job
<1>3. /\ status = "up" /\ slot[s] = Free /\ j.state = "waiting"
      /\ jobs' = (jobs \ {j}) \cup {active}
      /\ slot' = [slot EXCEPT ![s] = [pc |-> "fetched", job |-> active]]
      /\ UNCHANGED <<lastId, enqueued, raw, reports, deadLetter, status, shutdowns>>
  BY DEF Fetch, Replace, envVars
<1>4. slot' = [t \in Slots |-> IF t = s THEN [pc |-> "fetched", job |-> active] ELSE slot[t]]
  BY <1>3 DEF LocalTypeOK, WorkTypeOK
<1> HIDE DEF active
<1>5. JobsNumbered'
  <2>1. QueueTypeOK
    BY DEF LocalTypeOK
  <2>2. jobs' \subseteq (jobs \ {j}) \cup {active} /\ UNCHANGED lastId
    BY <1>3
  <2>3. QED
    BY <1>2, <2>1, <2>2, ReplacedNumbered
<1>6. SlotsWork'
  <2>1. \A t \in Slots : t # s /\ slot[t] # Free => slot[t].job \in jobs' /\ slot[t].job # active
    <3> SUFFICES ASSUME NEW t \in Slots, slot[t] # Free
                 PROVE  slot[t].job \in jobs' /\ slot[t].job # active
      OBVIOUS
    <3>1. slot[t].job \in jobs /\ slot[t].job.state = "active"
      BY DEF SlotsWork
    <3>2. slot[t].job # j
      BY <1>3, <3>1
    <3>3. slot[t].job # active
      BY <1>2, <3>1, <3>2 DEF JobsNumbered
    <3>4. QED
      BY <1>3, <3>1, <3>2, <3>3
  <2>2. active \in jobs'
    BY <1>3
  <2>3. /\ \A t \in Slots : t # s => slot'[t] = slot[t]
        /\ slot'[s].job = active
    BY <1>4
  <2>4. QED
    BY <1>2, <2>1, <2>2, <2>3 DEF SlotsWork
<1>7. ReportsFailed' /\ DeadLetterIsFinal'
  <2>1. \A i \in jobs : i.state # "waiting" => i \in jobs'
    BY <1>3
  <2>2. QED
    BY <1>3, <2>1, ReportsKept, DeadKept
<1>8. SlotsTrue'
  BY <1>3, <1>4 DEF SlotsTrue
<1>9. EnqueuedNotLost'
  <2>1. \A k \in jobs : \E i \in jobs' : i.event = k.event
    BY <1>2, <1>3
  <2>2. QED
    BY <1>3, <2>1, EnqueuedKept
<1>10. QED
  BY <1>5, <1>6, <1>7, <1>8, <1>9

\* A job is acknowledged whose event is written or not to be written, or by a
\* process that was told to stop.
LEMMA FinishJobs ==
    ASSUME LocalTypeOK, JobsInv, NEW s \in Slots, slot[s].pc # "free", Finish(s),
           UNCHANGED <<lastId, enqueued, raw, reports, deadLetter, status, shutdowns>>,
           \/ shutdowns # 0
           \/ Stream[slot[s].job.event].shape # "complete"
           \/ slot[s].job.event \in raw
    PROVE  JobsInv'
<1> DEFINE j == slot[s].job
<1> USE DEF JobsInv
<1>1. slot[s] # Free
  BY SlotBusy
<1>2. j \in jobs /\ j.state = "active"
  BY <1>1 DEF SlotsWork
<1>3. jobs' = jobs \ {j} /\ slot' = [slot EXCEPT ![s] = Free]
  BY DEF Finish
<1>4. \A t \in Slots : slot'[t] = IF t = s THEN Free ELSE slot[t]
  BY <1>3 DEF LocalTypeOK, WorkTypeOK
<1>5. JobsNumbered'
  BY <1>3 DEF JobsNumbered
<1>6. SlotsWork'
  BY <1>1, <1>3, SlotFreed DEF LocalTypeOK
<1>7. ReportsFailed' /\ DeadLetterIsFinal'
  <2>1. \A i \in jobs : i.state # "active" => i \in jobs'
    BY <1>2, <1>3
  <2>2. QED
    BY <2>1, ReportsKept, DeadKept
<1>8. SlotsTrue'
  BY <1>4 DEF SlotsTrue, Free
<1>9. EnqueuedNotLost'
  <2>1. \A i \in jobs : i # j => i \in jobs'
    BY <1>3
  <2>2. QED
    BY <2>1, EnqueuedKept
<1>10. QED
  BY <1>5, <1>6, <1>7, <1>8, <1>9

\* A slot goes on with its job, which is written before the checkpoint.
LEMMA MovedJobs ==
    ASSUME LocalTypeOK, JobsInv, NEW s \in Slots, slot[s].pc # "free",
           NEW p \in {"persist", "checkpoint"}, slot' = [slot EXCEPT ![s].pc = p],
           raw \subseteq raw', p = "checkpoint" => slot[s].job.event \in raw',
           UNCHANGED <<queueVars, reports, deadLetter, status, shutdowns>>,
           status # "down"
    PROVE  JobsInv'
<1> USE DEF JobsInv, queueVars
<1>1. slot[s] # Free
  BY SlotBusy
<1>2. slot[s] \in [pc : {"fetched", "persist", "checkpoint"}, job : Job]
  BY <1>1 DEF LocalTypeOK, WorkTypeOK
<1>3. /\ \A t \in Slots : t # s => slot'[t] = slot[t]
      /\ slot'[s].pc = p /\ slot'[s].job = slot[s].job
  BY <1>2 DEF LocalTypeOK, WorkTypeOK
<1>4. JobsNumbered'
  BY DEF JobsNumbered
<1>5. SlotsWork'
  BY <1>1, SlotMoved DEF LocalTypeOK
<1>6. ReportsFailed' /\ DeadLetterIsFinal'
  BY ReportsKept, DeadKept
<1>7. SlotsTrue'
  <2>1. \A t \in Slots : slot'[t].pc = "checkpoint" => slot'[t].job.event \in raw'
    BY <1>3 DEF SlotsTrue
  <2>2. QED
    BY <2>1 DEF SlotsTrue
<1>8. EnqueuedNotLost'
  BY EnqueuedKept
<1>9. QED
  BY <1>4, <1>5, <1>6, <1>7, <1>8

\* The handler throws: the job waits again or is failed for good and reported.
LEMMA PersistFailsJobs ==
    ASSUME LocalTypeOK, JobsInv, NEW s \in Slots, PersistFails(s)
    PROVE  JobsInv'
<1> DEFINE j == slot[s].job
           tried == [j EXCEPT !.attempts = j.attempts + 1]
           last == tried.attempts >= MaxAttempts
           next == [tried EXCEPT !.state = IF last THEN "failed" ELSE "waiting"]
<1> USE DEF JobsInv
<1>1. slot[s].pc # "free" /\ slot[s] # Free
  BY SlotBusy DEF PersistFails, Free
<1>2. j \in Job /\ j \in jobs /\ j.state = "active"
  BY <1>1, SlotTyped DEF SlotsWork, LocalTypeOK
<1>3. /\ jobs' = (jobs \ {j}) \cup {next}
      /\ reports' = IF last THEN reports \cup {next} ELSE reports
      /\ raw \subseteq raw'
      /\ slot' = [slot EXCEPT ![s] = Free]
      /\ UNCHANGED <<lastId, enqueued, deadLetter, status, shutdowns>>
  BY DEF PersistFails, Replace
<1>4. /\ tried.queue = j.queue /\ tried.id = j.id /\ tried.event = j.event
      /\ tried \in Job
  <2> HIDE DEF j
  <2>1. j.attempts + 1 \in Nat
    BY <1>2 DEF Job
  <2>2. \A n \in Nat : LET t == [j EXCEPT !.attempts = n]
                       IN t.queue = j.queue /\ t.id = j.id /\ t.event = j.event /\ t \in Job
    BY <1>2 DEF Job
  <2>3. QED
    BY <2>1, <2>2
<1>5. /\ next.queue = j.queue /\ next.id = j.id /\ next.event = j.event
      /\ last => next.state = "failed" /\ next.attempts >= MaxAttempts
  <2> HIDE DEF tried, j
  <2>1. QED
    BY <1>4 DEF Job
<1> HIDE DEF next, last
<1>6. \A t \in Slots : slot'[t] = IF t = s THEN Free ELSE slot[t]
  BY <1>3 DEF LocalTypeOK, WorkTypeOK
<1>7. JobsNumbered'
  <2>1. QueueTypeOK /\ JobsNumbered /\ jobs' \subseteq (jobs \ {j}) \cup {next}
    BY <1>3 DEF LocalTypeOK
  <2>2. next.queue = j.queue /\ next.id = j.id /\ j \in jobs /\ UNCHANGED lastId
    BY <1>2, <1>3, <1>5
  <2> HIDE DEF j
  <2>3. QED
    BY <2>1, <2>2, ReplacedNumbered
<1>8. SlotsWork'
  BY <1>1, <1>3, SlotFreed DEF LocalTypeOK
<1>9. ReportsFailed'
  <2>1. next \in jobs'
    BY <1>3
  <2>2. \A i \in reports : i \in jobs'
    BY <1>2, <1>3 DEF ReportsFailed
  <2>3. QED
    BY <1>3, <1>5, <2>1, <2>2 DEF ReportsFailed
<1>10. DeadLetterIsFinal'
  BY <1>2, <1>3, DeadKept
<1>11. SlotsTrue'
  BY <1>3, <1>6 DEF SlotsTrue, Free
<1>12. EnqueuedNotLost'
  <2>1. \A k \in jobs : \E i \in jobs' : i.event = k.event
    BY <1>3, <1>5
  <2>2. QED
    BY <1>3, <2>1, EnqueuedKept
<1>13. QED
  BY <1>7, <1>8, <1>9, <1>10, <1>11, <1>12

\* The steps of a worker slot.
LEMMA WorkerJobs ==
    ASSUME LocalTypeOK, JobsInv, NEW s \in Slots, Worker(s)
    PROVE  JobsInv'
<1> USE DEF envVars
<1>1. slot[s].pc # "free" => status # "down"
  BY DEF JobsInv, SlotsTrue, Free
<1>2. CASE \E j \in jobs : Fetch(s, j)
  BY <1>2, FetchJobs
<1>3. CASE Skip(s)
  <2>1. /\ slot[s].pc # "free"
        /\ status # "up" \/ Stream[slot[s].job.event].shape = "blank"
        /\ Finish(s)
        /\ UNCHANGED <<lastId, enqueued, raw, reports, deadLetter, status, shutdowns>>
    BY <1>3 DEF Skip
  <2>2. status \in {"down", "up", "closing"} /\ shutdowns \in Nat
    BY DEF LocalTypeOK, EnvTypeOK
  <2>3. status # "up" => shutdowns # 0
    BY <1>1, <2>1, <2>2 DEF JobsInv, SlotsTrue
  <2>4. QED
    BY <2>1, <2>3, FinishJobs
<1>4. CASE Complete(s)
  <2>1. /\ slot[s].pc = "checkpoint" /\ Finish(s)
        /\ UNCHANGED <<lastId, enqueued, raw, reports, deadLetter, status, shutdowns>>
    BY <1>4 DEF Complete
  <2>2. slot[s].job.event \in raw
    BY <2>1 DEF JobsInv, SlotsTrue
  <2>3. QED
    BY <2>1, <2>2, FinishJobs
<1>5. CASE Handle(s)
  <2>1. /\ slot[s].pc # "free" /\ slot' = [slot EXCEPT ![s].pc = "persist"]
        /\ UNCHANGED <<queueVars, raw, reports, deadLetter, status, shutdowns>>
    BY <1>5 DEF Handle
  <2>2. QED
    BY <1>1, <2>1, MovedJobs
<1>6. CASE Persist(s)
  <2>1. /\ slot[s].pc # "free" /\ slot' = [slot EXCEPT ![s].pc = "checkpoint"]
        /\ raw' = raw \cup {slot[s].job.event}
        /\ UNCHANGED <<queueVars, reports, deadLetter, status, shutdowns>>
    BY <1>6 DEF Persist
  <2>2. raw \subseteq raw' /\ slot[s].job.event \in raw'
    BY <2>1
  <2>3. QED
    BY <1>1, <2>1, <2>2, MovedJobs
<1>7. CASE PersistFails(s)
  BY <1>7, PersistFailsJobs
<1>8. CASE Advance(s)
  <2>1. UNCHANGED <<queueVars, workVars, shutdowns, status>>
    BY <1>8 DEF Advance
  <2>2. QED
    BY <2>1, JobsFrame
<1>9. QED
  BY <1>2, <1>3, <1>4, <1>5, <1>6, <1>7, <1>8 DEF Worker

\* The row of a reported job: an id that has a row keeps it, whatever the queue.
LEMMA RecordJobs ==
    ASSUME LocalTypeOK, JobsInv, NEW j \in reports, RecordDeadLetter(j)
    PROVE  JobsInv'
<1> DEFINE dead == [j EXCEPT !.state = "dead"]
<1> USE DEF JobsInv
<1>1. j \in Job /\ j \in jobs /\ j.state = "failed" /\ j.attempts >= MaxAttempts
  BY DEF LocalTypeOK, WorkTypeOK, ReportsFailed
<1>2. /\ dead.queue = j.queue /\ dead.id = j.id /\ dead.event = j.event
      /\ dead.state = "dead" /\ dead.attempts = j.attempts
  BY <1>1 DEF Job
<1>3. /\ jobs' = (jobs \ {j}) \cup {dead}
      /\ reports' = reports \ {j}
      /\ UNCHANGED <<lastId, enqueued, slot, raw, status, shutdowns>>
  BY DEF RecordDeadLetter, Replace, envVars
<1> HIDE DEF dead
<1>4. JobsNumbered'
  <2>1. QueueTypeOK /\ jobs' \subseteq (jobs \ {j}) \cup {dead} /\ UNCHANGED lastId
    BY <1>3 DEF LocalTypeOK
  <2>2. QED
    BY <1>1, <1>2, <2>1, ReplacedNumbered
<1>5. SlotsWork'
  <2>1. \A s \in Slots : slot[s] # Free => slot[s].job \in jobs'
    BY <1>1, <1>3 DEF SlotsWork
  <2>2. QED
    BY <1>3, <2>1, SlotsKept
<1>6. ReportsFailed'
  BY <1>3 DEF ReportsFailed
<1>7. DeadLetterIsFinal'
  <2> SUFFICES ASSUME NEW id \in DOMAIN deadLetter'
               PROVE  \E i \in jobs' : /\ i.id = id
                                       /\ i.queue = deadLetter'[id].queue
                                       /\ i.event = deadLetter'[id].event
                                       /\ i.state = "dead"
                                       /\ i.attempts >= MaxAttempts
    BY DEF DeadLetterIsFinal
  <2>1. CASE id \in DOMAIN deadLetter
    <3>1. deadLetter'[id] = deadLetter[id]
      <4>1. CASE j.id \in DOMAIN deadLetter
        BY <4>1 DEF RecordDeadLetter
      <4>2. CASE j.id \notin DOMAIN deadLetter
        <5>1. deadLetter' = [d \in DOMAIN deadLetter \cup {j.id} |->
                               IF d = j.id THEN [queue |-> j.queue, event |-> j.event]
                               ELSE deadLetter[d]]
          BY <4>2 DEF RecordDeadLetter
        <5>2. QED
          BY <2>1, <4>2, <5>1
      <4>3. QED
        BY <4>1, <4>2
    <3>2. PICK i \in jobs : /\ i.id = id
                            /\ i.queue = deadLetter[id].queue
                            /\ i.event = deadLetter[id].event
                            /\ i.state = "dead"
                            /\ i.attempts >= MaxAttempts
      BY <2>1 DEF DeadLetterIsFinal
    <3>3. i \in jobs'
      BY <1>1, <1>3, <3>2
    <3>4. QED
      BY <3>1, <3>2, <3>3
  <2>2. CASE id \notin DOMAIN deadLetter
    <3>1. j.id \notin DOMAIN deadLetter
      BY <2>2 DEF RecordDeadLetter
    <3>2. deadLetter' = [d \in DOMAIN deadLetter \cup {j.id} |->
                           IF d = j.id THEN [queue |-> j.queue, event |-> j.event]
                           ELSE deadLetter[d]]
      BY <3>1 DEF RecordDeadLetter
    <3>3. id = j.id /\ deadLetter'[id] = [queue |-> j.queue, event |-> j.event]
      BY <2>2, <3>2
    <3>4. dead \in jobs'
      BY <1>3
    <3>5. QED
      BY <1>1, <1>2, <3>3, <3>4
  <2>3. QED
    BY <2>1, <2>2
<1>8. SlotsTrue'
  BY <1>3 DEF SlotsTrue
<1>9. EnqueuedNotLost'
  <2>1. \A k \in jobs : \E i \in jobs' : i.event = k.event
    BY <1>2, <1>3
  <2>2. QED
    BY <1>3, <2>1, EnqueuedKept
<1>10. QED
  BY <1>4, <1>5, <1>6, <1>7, <1>8, <1>9

\* BullMQ's stalled check takes up an active job that is in no slot.
LEMMA StallJobs ==
    ASSUME LocalTypeOK, JobsInv, NEW j \in jobs, Stall(j)
    PROVE  JobsInv'
<1> DEFINE more == [j EXCEPT !.stalls = j.stalls + 1]
           state == IF j.stalls + 1 > MaxStalled THEN "failed" ELSE "waiting"
           again == [more EXCEPT !.state = state]
<1> USE DEF JobsInv
<1>1. j \in Job
  BY DEF LocalTypeOK, QueueTypeOK
<1>2. more \in Job /\ more.queue = j.queue /\ more.id = j.id /\ more.event = j.event
  <2>1. j.stalls + 1 \in Nat
    BY <1>1 DEF Job
  <2>2. \A n \in Nat : LET t == [j EXCEPT !.stalls = n]
                       IN t.queue = j.queue /\ t.id = j.id /\ t.event = j.event /\ t \in Job
    BY <1>1 DEF Job
  <2>3. QED
    BY <2>1, <2>2
<1>3. again.queue = j.queue /\ again.id = j.id /\ again.event = j.event
  <2> HIDE DEF more, state
  <2>1. QED
    BY <1>2 DEF Job
<1>4. again = [j EXCEPT !.stalls = j.stalls + 1, !.state = state]
  OBVIOUS
<1> HIDE DEF again, more
<1>5. /\ j.state = "active" /\ \A s \in Slots : slot[s].job # j
      /\ jobs' = (jobs \ {j}) \cup {again}
      /\ UNCHANGED <<lastId, enqueued, slot, raw, reports, deadLetter, status, shutdowns>>
  BY <1>4, Zenon DEF Stall, Replace, workVars, envVars
<1>6. JobsNumbered'
  <2>1. QueueTypeOK /\ jobs' \subseteq (jobs \ {j}) \cup {again} /\ UNCHANGED lastId
    BY <1>5 DEF LocalTypeOK
  <2>2. QED
    BY <1>3, <2>1, ReplacedNumbered
<1>7. SlotsWork'
  <2>1. \A s \in Slots : slot[s] # Free => slot[s].job \in jobs'
    BY <1>5 DEF SlotsWork
  <2>2. QED
    BY <1>5, <2>1, SlotsKept
<1>8. ReportsFailed' /\ DeadLetterIsFinal'
  <2>1. \A i \in jobs : i.state # "active" => i \in jobs'
    BY <1>5
  <2>2. QED
    BY <1>5, <2>1, ReportsKept, DeadKept
<1>9. SlotsTrue'
  BY <1>5 DEF SlotsTrue
<1>10. EnqueuedNotLost'
  <2>1. \A k \in jobs : \E i \in jobs' : i.event = k.event
    BY <1>3, <1>5
  <2>2. QED
    BY <1>5, <2>1, EnqueuedKept
<1>11. QED
  BY <1>6, <1>7, <1>8, <1>9, <1>10

\* The process is gone: BullMQ keeps the jobs, and no slot has one.
LEMMA GoneJobs ==
    ASSUME JobsInv, Gone, UNCHANGED shutdowns
    PROVE  JobsInv'
<1> USE DEF JobsInv
<1>1. /\ status' = "down" /\ slot' = [s \in Slots |-> Free] /\ reports' = {}
      /\ UNCHANGED <<jobs, lastId, enqueued, raw, deadLetter>>
  BY DEF Gone, queueVars
<1>2. JobsNumbered' /\ DeadLetterIsFinal' /\ EnqueuedNotLost'
  BY <1>1 DEF JobsNumbered, DeadLetterIsFinal, EnqueuedNotLost
<1>3. SlotsWork'
  BY <1>1 DEF SlotsWork
<1>4. ReportsFailed'
  BY <1>1 DEF ReportsFailed
<1>5. SlotsTrue'
  BY <1>1 DEF SlotsTrue, Free
<1>6. QED
  BY <1>2, <1>3, <1>4, <1>5

\* A step of the process being told to stop.
LEMMA ShutdownJobs ==
    ASSUME LocalTypeOK, JobsInv, Shutdown
    PROVE  JobsInv'
<1> USE DEF JobsInv
<1>1. /\ status = "up" /\ status' = "closing" /\ shutdowns' = shutdowns + 1
      /\ UNCHANGED <<jobs, lastId, enqueued, slot, raw, reports, deadLetter>>
  BY DEF Shutdown, queueVars, workVars
<1>2. shutdowns \in Nat
  BY DEF LocalTypeOK, EnvTypeOK
<1>3. JobsNumbered' /\ SlotsWork' /\ ReportsFailed' /\ DeadLetterIsFinal'
  BY <1>1 DEF JobsNumbered, SlotsWork, ReportsFailed, DeadLetterIsFinal
<1>4. SlotsTrue'
  BY <1>1, <1>2 DEF SlotsTrue
<1>5. EnqueuedNotLost'
  BY <1>1, <1>2 DEF EnqueuedNotLost
<1>6. QED
  BY <1>3, <1>4, <1>5

LEMMA JobsInitial == PipelineInit => JobsInv
<1> SUFFICES ASSUME PipelineInit
             PROVE  JobsInv
  OBVIOUS
<1>1. /\ jobs = {} /\ enqueued = {} /\ reports = {} /\ deadLetter = <<>>
      /\ slot = [s \in Slots |-> Free] /\ status = "down"
  BY DEF PipelineInit
<1>2. DOMAIN deadLetter = {}
  BY <1>1
<1>3. JobsNumbered /\ ReportsFailed /\ DeadLetterIsFinal /\ EnqueuedNotLost
  BY <1>1, <1>2 DEF JobsNumbered, ReportsFailed, DeadLetterIsFinal, EnqueuedNotLost
<1>4. SlotsWork /\ SlotsTrue
  BY <1>1 DEF SlotsWork, SlotsTrue, Free
<1>5. QED
  BY <1>3, <1>4 DEF JobsInv

LEMMA JobsStep ==
    ASSUME LocalTypeOK, PageHasEvents, JobsInv, [PipelineNext]_vars
    PROVE  JobsInv'
<1>1. CASE Emit \/ Poller
  BY <1>1, PollerJobs
<1>2. CASE \E s \in Slots : Worker(s)
  BY <1>2, WorkerJobs
<1>3. ASSUME NEW j \in reports, RecordFails(j)
      PROVE  JobsInv'
  <2>1. /\ UNCHANGED <<queueVars, slot, raw, deadLetter, status, shutdowns>>
        /\ reports' \subseteq reports
    BY <1>3 DEF RecordFails
  <2>2. JobsNumbered' /\ SlotsWork' /\ DeadLetterIsFinal' /\ SlotsTrue' /\ EnqueuedNotLost'
    BY <2>1 DEF JobsInv, queueVars, JobsNumbered, SlotsWork, DeadLetterIsFinal, SlotsTrue,
                EnqueuedNotLost
  <2>3. ReportsFailed'
    BY <2>1 DEF JobsInv, queueVars, ReportsFailed
  <2>4. QED
    BY <2>2, <2>3 DEF JobsInv
<1>4. CASE DeadLetters
  BY <1>3, <1>4, RecordJobs DEF DeadLetters
<1>5. CASE \E j \in jobs : Stall(j)
  BY <1>5, StallJobs
<1>6. CASE Crash \/ Exit
  BY <1>6, GoneJobs DEF Crash, Exit
<1>7. CASE Shutdown
  BY <1>7, ShutdownJobs
<1>8. CASE UNCHANGED vars
  BY <1>8, JobsFrame DEF vars, envVars
<1>9. QED
  BY <1>1, <1>2, <1>4, <1>5, <1>6, <1>7, <1>8 DEF PipelineNext

LEMMA JobsInvariant == PipelineSpec => []JobsInv
<1>1. LocalTypeOK /\ PageHasEvents /\ JobsInv /\ [PipelineNext]_vars => JobsInv'
  BY JobsStep
<1>2. QED
  BY <1>1, JobsInitial, LocalTypeCorrect, PTL DEF PipelineSpec

\* A dead-letter row is about a job that used up its attempts, through failures of
\* the table, collisions of its ids, crashes and restarts.
THEOREM DeadLetterIsFinalCorrect == PipelineSpec => []DeadLetterIsFinal
<1>1. JobsInv => DeadLetterIsFinal
  BY DEF JobsInv
<1>2. QED
  BY <1>1, JobsInvariant, PTL

\* "At-least-once delivery" (docs/ARCHITECTURE.md:159): until a worker is told to
\* stop, an event that was handed to BullMQ has its row or still has a job.
THEOREM EnqueuedNotLostCorrect == PipelineSpec => []EnqueuedNotLost
<1>1. JobsInv => EnqueuedNotLost
  BY DEF JobsInv
<1>2. QED
  BY <1>1, JobsInvariant, PTL

----------------------------------------------------------------------------
(* Paging.  A page under way is what is left of all effects of its account  *)
(* between the cursor and the last of them: the cursor moves over one       *)
(* ledger's at a time, which are handed to BullMQ before it does.           *)

PollTrue ==
    /\ toPoll \subseteq tracked
    /\ tracked = {} \/ Configured \subseteq tracked
    /\ status = "down" => /\ tracked = {} /\ toPoll = {} /\ page = NoPage
                          /\ \A a \in Accounts : cursors[a] = Now
    /\ ~At(Starter, "idle") => page = NoPage /\ toPoll = {}

PageTrue ==
    page # NoPage =>
        /\ page.account \in toPoll
        /\ page.from <= cursors[page.account]
        /\ \A e \in page.left : Stream[e].account = page.account /\ e > cursors[page.account]
        /\ \A e \in Events, f \in page.left :
              Stream[e].account = page.account /\ e > cursors[page.account] /\ e <= f
                  => e \in page.left

PagesInv == PollTrue /\ PageTrue /\ PagedMeansEnqueued

\* The poller's start is in no worker slot's hands.
LEMMA StarterAlone ==
    ASSUME CursorTypeOK, NEW s \in Slots,
           CallStep(s) \/ (\E l \in Ledgers : BeginAdvance(s, l)) \/ UNCHANGED call
    PROVE  call'[Starter] = call[Starter]
<1>1. s # Starter /\ Starter \in Callers /\ call \in [Callers -> CallState]
  BY DEF Slots, CursorTypeOK
<1>2. \A r : call' = [call EXCEPT ![s] = r] => call'[Starter] = call[Starter]
  BY <1>1
<1>3. \A p : Goto(s, p) => call'[Starter] = call[Starter]
  BY <1>1 DEF Goto
<1>4. Return(s) => call'[Starter] = call[Starter]
  BY <1>1 DEF Return
<1>5. CASE CallStep(s)
  BY <1>2, <1>3, <1>4, <1>5 DEF CallStep, SetMax, FindCursor, UpsertCursor, AdvanceFails,
     ReadCache, ReadDb, WarmCache, GetFails
<1>6. CASE \E l \in Ledgers : BeginAdvance(s, l)
  BY <1>2, <1>6 DEF BeginAdvance
<1>7. QED
  BY <1>5, <1>6

\* A step that leaves the poller alone and takes no event away.
LEMMA PagesFrame ==
    ASSUME PagesInv, UNCHANGED <<pollVars, enqueued>>, raw \subseteq raw',
           status' = "down" => status = "down",
           At(Starter, "idle") => At(Starter, "idle")'
    PROVE  PagesInv'
<1> USE DEF PagesInv, pollVars
<1>1. PollTrue'
  BY DEF PollTrue
<1>2. PageTrue'
  BY DEF PageTrue
<1>3. PagedMeansEnqueued'
  BY DEF PagedMeansEnqueued
<1>4. QED
  BY <1>1, <1>2, <1>3

\* Polling begins, from the start or from 'now': no effect is behind.
LEMMA StartPages ==
    ASSUME CursorTypeOK, LocalTypeOK, PagesInv, StartPolling
    PROVE  PagesInv'
<1> USE DEF PagesInv
<1>1. /\ ~At(Starter, "idle")
      /\ \A a \in Accounts : cursors'[a] \in {0, Now} /\ (a \notin tracked => cursors'[a] = Now)
      /\ toPoll' = tracked /\ call' = [call EXCEPT ![Starter] = Idle]
      /\ UNCHANGED <<tracked, page, enqueued, raw, status>>
  BY DEF StartPolling, UseResult, Return, At, queueVars, workVars, envVars
<1>2. page = NoPage
  BY <1>1 DEF PollTrue
<1>3. PollTrue'
  <2>1. At(Starter, "idle")'
    BY <1>1 DEF CursorTypeOK, At, Idle
  <2>2. QED
    BY <1>1, <1>2, <2>1 DEF PollTrue
<1>4. PageTrue'
  BY <1>1, <1>2 DEF PageTrue
<1>5. PagedMeansEnqueued'
  <2>1. tracked \subseteq Accounts
    BY DEF LocalTypeOK, PollTypeOK
  <2>2. \A a \in tracked, e \in Events : ~(e <= cursors'[a])
    BY <1>1, <2>1, StreamTyped DEF Events, Now
  <2>3. QED
    BY <1>1, <2>2 DEF PagedMeansEnqueued
<1>6. QED
  BY <1>3, <1>4, <1>5

\* A page holds every effect of the account up to its last one.
LEMMA FetchPages ==
    ASSUME LocalTypeOK, PagesInv, NEW a \in Accounts, FetchPage(a)
    PROVE  PagesInv'
<1> DEFINE records == FirstOf(Following(a))
<1> USE DEF PagesInv
<1>1. /\ a \in toPoll /\ page = NoPage /\ At(Starter, "idle")
      /\ UNCHANGED <<tracked, cursors, enqueued, raw, status, call>>
  BY DEF FetchPage, cursorVars, queueVars, workVars, envVars
<1>2. status # "down"
  BY <1>1 DEF PollTrue
<1>3. At(Starter, "idle")'
  BY <1>1 DEF At
<1>4. PagedMeansEnqueued'
  BY <1>1 DEF PagedMeansEnqueued
<1>5. CASE records = {}
  <2>1. toPoll' = toPoll \ {a} /\ page' = NoPage
    BY <1>1, <1>5 DEF FetchPage
  <2>2. PollTrue' /\ PageTrue'
    BY <1>1, <1>2, <1>3, <2>1 DEF PollTrue, PageTrue
  <2>3. QED
    BY <1>4, <2>2
<1>6. CASE records # {}
  <2>1. page' = [account |-> a, from |-> cursors[a], left |-> records] /\ toPoll' = toPoll
    BY <1>6 DEF FetchPage
  <2>2. /\ Following(a) \subseteq Events
        /\ \A e \in Following(a) : Stream[e].account = a /\ e > cursors[a]
    BY StreamTyped DEF Following, Events, LocalTypeOK, EnvTypeOK
  <2>3. records \subseteq Following(a)
    BY DEF FirstOf
  <2>4. ASSUME NEW e \in Events, NEW f \in records,
               Stream[e].account = a, e > cursors[a], e <= f
        PROVE  e \in records
    <3>1. e \in Following(a)
      BY <2>3, <2>4, StreamTyped DEF Following, Events, LocalTypeOK, EnvTypeOK
    <3> DEFINE E == {g \in Following(a) : g < e}
               F == {g \in Following(a) : g < f}
    <3>2. E \in SUBSET F
      BY <2>2, <2>3, <2>4, StreamTyped DEF Events
    <3>3. F \subseteq Events /\ E \subseteq Events
      BY <2>2
    <3>4. Cardinality(F) < PageSize
      BY DEF FirstOf
    <3> HIDE DEF E, F
    <3>5. IsFiniteSet(F)
      <4>1. IsFiniteSet(Events)
        BY EventsFinite
      <4>2. QED
        BY <3>3, <4>1, FS_Subset
    <3>6. Cardinality(E) <= Cardinality(F)
      BY <3>2, <3>5, FS_Subset
    <3>7. Cardinality(E) \in Nat /\ Cardinality(F) \in Nat
      BY <3>3, EventSetSize
    <3>8. Cardinality(E) < PageSize
      BY <3>4, <3>6, <3>7
    <3>9. QED
      BY <3>1, <3>8 DEF FirstOf, E
  <2>5. cursors[a] \in Int
    BY StreamTyped DEF LocalTypeOK, PollTypeOK, Events, Now
  <2> HIDE DEF records
  <2>6. PageTrue'
    <3>1. /\ page'.account = a /\ page'.from = cursors[a] /\ page'.left = records
          /\ cursors'[a] = cursors[a]
      BY <1>1, <2>1
    <3>2. a \in toPoll' /\ cursors[a] <= cursors[a]
      BY <1>1, <2>1, <2>5
    <3>3. \A e \in records : Stream[e].account = a /\ e > cursors[a]
      BY <2>2, <2>3
    <3>4. QED
      BY <2>4, <3>1, <3>2, <3>3 DEF PageTrue
  <2>7. PollTrue'
    BY <1>1, <1>2, <1>3, <2>1 DEF PollTrue
  <2>8. QED
    BY <1>4, <2>6, <2>7
<1>7. QED
  BY <1>5, <1>6

\* The pools a window adds have no effect behind the place they are polled from:
\* theirs come after the effect that announces them.
LEMMA DiscoveredBehind ==
    ASSUME CreationsFirst, LocalTypeOK, PageHasEvents, PagesInv, page # NoPage
    PROVE  /\ page.account \in tracked
           /\ \A a \in Discovered : /\ a \notin tracked
                                    /\ Discover[a] = page.from
                                    /\ \A e \in Events : Stream[e].account = a => ~(e <= page.from)
           /\ \A a \in tracked : Discover[a] = cursors[a]
<1> USE DEF PagesInv
<1>1. /\ page.account \in Accounts /\ page.from \in Events \cup {0, Now}
      /\ page.left \subseteq Events /\ Window \subseteq page.left
  BY WindowTyped DEF LocalTypeOK
<1>2. page.account \in tracked /\ Configured \subseteq tracked
  BY DEF PollTrue, PageTrue
<1>3. tracked \subseteq Accounts /\ cursors \in [Accounts -> Events \cup {0, Now}]
  BY DEF LocalTypeOK, PollTypeOK
<1>4. \A a \in Discovered : a \notin tracked
  BY DEF Discovered
<1>5. ASSUME NEW a \in Discovered
      PROVE  /\ Discover[a] = page.from
             /\ \A e \in Events : Stream[e].account = a => ~(e <= page.from)
  <2>1. PICK p \in Window : Stream[p].queue = "pool.created" /\ Stream[p].pool = a
    BY DEF Discovered
  <2>2. p \in Events /\ p > cursors[page.account]
    BY <1>1, <2>1 DEF PageTrue
  <2>3. page.from < p
    BY <1>1, <1>3, <2>2, StreamTyped DEF PageTrue, Events, Now
  <2>4. a \notin Configured /\ a \in Accounts
    <3>1. Stream[p] \in Effect
      BY <2>2, StreamTyped
    <3>2. QED
      BY <1>2, <1>4, <2>1, <3>1 DEF Effect
  <2>5. \A e \in Events : Stream[e].account = a => p <= e
    BY <2>1, <2>2, <2>4 DEF CreationsFirst
  <2>6. \A e \in Events : Stream[e].account = a => ~(e <= page.from)
    BY <1>1, <2>2, <2>3, <2>5, StreamTyped DEF Events, Now
  <2>7. Discover[a] = page.from
    BY <2>4 DEF Discover
  <2>8. QED
    BY <2>6, <2>7
<1>6. \A a \in tracked : Discover[a] = cursors[a]
  BY <1>3, <1>4 DEF Discover
<1>7. QED
  BY <1>2, <1>4, <1>5, <1>6

\* The window that fails leaves its account where it is.
LEMMA EnqueueFailsPages ==
    ASSUME CreationsFirst, LocalTypeOK, PageHasEvents, PagesInv,
           NEW Q \in SUBSET Queues, EnqueueFails(Q)
    PROVE  PagesInv'
<1> USE DEF PagesInv
<1>1. /\ page # NoPage /\ page' = NoPage /\ enqueued \subseteq enqueued'
      /\ tracked' = tracked \cup Discovered /\ cursors' = Discover
      /\ toPoll' = toPoll \ {page.account} /\ UNCHANGED <<raw, status, call>>
  BY DEF EnqueueFails, AddJobs, cursorVars, workVars
<1>2. PollTrue'
  <2>1. status # "down" /\ At(Starter, "idle") /\ Configured \subseteq tracked
    BY <1>1 DEF PollTrue, PageTrue
  <2>2. At(Starter, "idle")'
    BY <1>1, <2>1 DEF At
  <2>3. QED
    BY <1>1, <2>1, <2>2 DEF PollTrue
<1>3. PageTrue'
  BY <1>1 DEF PageTrue
<1>4. PagedMeansEnqueued'
  <2> SUFFICES ASSUME NEW a \in tracked', NEW e \in Events, Stream[e].account = a,
                      e <= cursors'[a], Stream[e].shape = "complete"
               PROVE  e \in enqueued' \cup raw'
    BY DEF PagedMeansEnqueued
  <2>1. CASE a \in tracked
    BY <1>1, <2>1, DiscoveredBehind DEF PagedMeansEnqueued
  <2>2. CASE a \in Discovered
    BY <1>1, <2>2, DiscoveredBehind
  <2>3. QED
    BY <1>1, <2>1, <2>2
<1>5. QED
  BY <1>2, <1>3, <1>4

\* The window is a ledger of the page: what is left of the account's effects up
\* to its last one.
LEMMA WindowWhole ==
    ASSUME LedgersTogether, LocalTypeOK, PageHasEvents, PagesInv, page # NoPage
    PROVE  \E last \in Window :
              /\ last = CHOOSE e \in Window : \A f \in Window : f <= e
              /\ \A f \in Window : f <= last
              /\ \A e \in page.left : e <= last => e \in Window
<1> DEFINE first == CHOOSE e \in page.left : \A f \in page.left : e <= f
<1> USE DEF PagesInv
<1>1. page.left \subseteq Events /\ Window \subseteq page.left /\ Window # {}
  BY WindowTyped DEF LocalTypeOK
<1>2. page.left # {}
  BY DEF PageHasEvents
<1>3. \E e \in page.left : \A f \in page.left : e <= f
  <2>1. page.left \subseteq Nat
    BY <1>1, StreamTyped DEF Events
  <2> DEFINE L == page.left
  <2>2. L \subseteq Nat /\ L # {}
    BY <1>2, <2>1
  <2> HIDE DEF L
  <2>3. \E e \in L : \A f \in L : e <= f
    BY <2>2, LeastNatural
  <2>4. QED
    BY <2>3 DEF L
<1>4. first \in page.left /\ \A f \in page.left : first <= f
  BY <1>3
<1>5. \A e : e \in Window <=> e \in page.left /\ LedgerOf(e) = LedgerOf(first)
  BY DEF Window
<1>6. \E e \in Window : \A f \in Window : f <= e
  BY <1>1, LastEvent
<1>7. PICK last \in Window : /\ last = CHOOSE e \in Window : \A f \in Window : f <= e
                             /\ \A f \in Window : f <= last
  BY <1>6
<1> HIDE DEF first
<1>8. ASSUME NEW e \in page.left, e <= last
      PROVE  e \in Window
  <2>1. first <= e /\ first \in Events /\ e \in Events /\ last \in Events /\ last \in page.left
    BY <1>1, <1>4, <1>7
  <2>2. /\ Stream[first].account = page.account /\ Stream[e].account = page.account
        /\ Stream[last].account = page.account
    BY <1>4, <2>1 DEF PageTrue
  <2>3. LedgerOf(first) = LedgerOf(last)
    BY <1>5, <1>7
  <2>4. LedgerOf(e) = LedgerOf(first)
    BY <1>8, <2>1, <2>2, <2>3 DEF LedgersTogether
  <2>5. QED
    BY <1>5, <2>4
<1>9. QED
  BY <1>7, <1>8

\* The cursor passes the window once its effects are enqueued.
LEMMA EnqueuePages ==
    ASSUME LedgersTogether, CreationsFirst, LocalTypeOK, PageHasEvents, PagesInv, EnqueueWindow
    PROVE  PagesInv'
<1> USE DEF PagesInv
<1>1. /\ page # NoPage /\ AddJobs(Queues)
      /\ tracked' = tracked \cup Discovered
      /\ cursors' = [Discover EXCEPT ![page.account] =
                       CHOOSE e \in Window : \A f \in Window : f <= e]
      /\ UNCHANGED <<raw, status, call>>
  BY DEF EnqueueWindow, cursorVars, workVars, envVars
<1>2. PICK last \in Window : /\ last = CHOOSE e \in Window : \A f \in Window : f <= e
                             /\ \A f \in Window : f <= last
                             /\ \A e \in page.left : e <= last => e \in Window
  BY <1>1, WindowWhole
<1>3. /\ page.account \in Accounts /\ page.from \in Events \cup {0, Now}
      /\ page.left \subseteq Events /\ Window \subseteq page.left
  BY <1>1, WindowTyped DEF LocalTypeOK
<1>4. cursors' = [Discover EXCEPT ![page.account] = last]
  BY <1>1, <1>2
<1>5. /\ cursors'[page.account] = last
      /\ \A a \in Accounts : a # page.account => cursors'[a] = Discover[a]
  BY <1>3, <1>4 DEF Discover
<1>6. /\ tracked \subseteq Accounts /\ cursors[page.account] \in Int
      /\ Events \subseteq Int /\ last \in Events /\ page.from \in Int
  <2>1. tracked \subseteq Accounts /\ cursors \in [Accounts -> Events \cup {0, Now}]
    BY DEF LocalTypeOK, PollTypeOK
  <2>2. Events \subseteq Int /\ Now \in Int
    BY StreamTyped DEF Events, Now
  <2>3. cursors[page.account] \in Events \cup {0, Now}
    BY <1>3, <2>1
  <2>4. last \in Events
    BY <1>2, <1>3
  <2>5. \A x : x \in Events \cup {0, Now} => x \in Int
    BY <2>2
  <2>6. cursors[page.account] \in Int /\ page.from \in Int
    BY <1>3, <2>3, <2>5
  <2>7. QED
    BY <2>1, <2>2, <2>4, <2>6
<1>7. last > cursors[page.account] /\ page.from <= cursors[page.account]
      /\ page.account \in toPoll
  BY <1>1, <1>2, <1>3 DEF PageTrue
<1>8. Window \cap {e \in Events : Stream[e].shape = "complete"} \subseteq enqueued'
      /\ enqueued \subseteq enqueued'
  <2>1. \A e \in Events : Stream[e].queue \in Queues
    BY StreamTyped DEF Effect
  <2>2. QED
    BY <1>1, <2>1 DEF AddJobs, Batch
<1>9. /\ toPoll' \subseteq toPoll
      /\ page' = NoPage \/ (/\ page' = [page EXCEPT !.left = page.left \ Window]
                            /\ toPoll' = toPoll)
  BY DEF EnqueueWindow
<1>10. PollTrue'
  <2>1. status # "down" /\ At(Starter, "idle") /\ Configured \subseteq tracked
    BY <1>1 DEF PollTrue, PageTrue
  <2>2. At(Starter, "idle")'
    BY <1>1, <2>1 DEF At
  <2>3. QED
    BY <1>1, <1>9, <2>1, <2>2 DEF PollTrue
<1>11. PageTrue'
  <2> SUFFICES ASSUME page' # NoPage
               PROVE  PageTrue'
    BY DEF PageTrue
  <2>1. page' = [page EXCEPT !.left = page.left \ Window] /\ toPoll' = toPoll
    BY <1>9
  <2>2. page \in [account : Accounts, from : Events \cup {0, Now}, left : SUBSET Events]
    BY <1>1 DEF LocalTypeOK, PollTypeOK
  <2>3. page'.account = page.account /\ page'.from = page.from
        /\ page'.left = page.left \ Window
    BY <2>1, <2>2
  <2>4. page'.account \in toPoll' /\ page'.from <= cursors'[page'.account]
    BY <1>5, <1>6, <1>7, <2>1, <2>3
  <2>5. ASSUME NEW e \in page.left \ Window
        PROVE  Stream[e].account = page.account /\ e > last
    <3>1. e \in Events /\ ~(e <= last)
      BY <1>2, <1>3
    <3>2. QED
      BY <1>1, <1>6, <3>1 DEF PageTrue
  <2>6. ASSUME NEW e \in Events, NEW f \in page.left \ Window,
               Stream[e].account = page.account, e > last, e <= f
        PROVE  e \in page.left \ Window
    <3>1. e > cursors[page.account]
      BY <1>6, <1>7, <2>6
    <3>2. e \in page.left
      BY <1>1, <2>6, <3>1 DEF PageTrue
    <3>3. e \notin Window
      <4>1. ~(e <= last)
        BY <1>6, <2>6
      <4>2. QED
        BY <1>2, <4>1
    <3>4. QED
      BY <3>2, <3>3
  <2>7. QED
    BY <1>5, <2>3, <2>4, <2>5, <2>6 DEF PageTrue
<1>12. PagedMeansEnqueued'
  <2> SUFFICES ASSUME NEW a \in tracked', NEW e \in Events, Stream[e].account = a,
                      e <= cursors'[a], Stream[e].shape = "complete"
               PROVE  e \in enqueued' \cup raw'
    BY DEF PagedMeansEnqueued
  <2>1. CASE a = page.account
    <3>1. page.account \in tracked
      BY <1>1, DiscoveredBehind
    <3>2. CASE e <= cursors[a]
      BY <1>1, <1>8, <2>1, <3>1, <3>2 DEF PagedMeansEnqueued
    <3>3. CASE ~(e <= cursors[a])
      <4>1. e > cursors[page.account] /\ e <= last
        BY <1>5, <1>6, <2>1, <3>3
      <4>2. last \in page.left
        BY <1>3
      <4>3. e \in page.left
        BY <1>1, <2>1, <4>1, <4>2 DEF PageTrue
      <4>4. QED
        BY <1>2, <1>8, <4>1, <4>3
    <3>4. QED
      BY <3>2, <3>3
  <2>2. CASE a # page.account /\ a \in tracked
    <3>1. cursors'[a] = cursors[a]
      BY <1>1, <1>5, <1>6, <2>2, DiscoveredBehind
    <3>2. QED
      BY <1>1, <1>8, <2>2, <3>1 DEF PagedMeansEnqueued
  <2>3. CASE a # page.account /\ a \in Discovered
    <3>1. a \in Accounts
      <4>1. Window \subseteq Events
        BY <1>3
      <4>2. \A f \in Events : Stream[f].pool \in Accounts
        BY StreamTyped DEF Effect
      <4>3. QED
        BY <2>3, <4>1, <4>2 DEF Discovered
    <3>2. cursors'[a] = page.from
      BY <1>1, <1>5, <2>3, <3>1, DiscoveredBehind
    <3>3. QED
      BY <1>1, <2>3, <3>2, DiscoveredBehind
  <2>4. QED
    BY <1>1, <2>1, <2>2, <2>3
<1>13. QED
  BY <1>10, <1>11, <1>12

\* The steps of the poller.
LEMMA PollerPages ==
    ASSUME LedgersTogether, CreationsFirst, CursorTypeOK, LocalTypeOK, PageHasEvents,
           PagesInv, Poller
    PROVE  PagesInv'
<1> USE DEF PagesInv
<1>1. CASE Boot
  <2>1. /\ status = "down" /\ status' = "up" /\ tracked' = Configured
        /\ UNCHANGED <<cursors, toPoll, page, enqueued, raw>>
    BY <1>1 DEF Boot, queueVars, workVars
  <2>2. toPoll = {} /\ page = NoPage /\ \A a \in Accounts : cursors[a] = Now
    BY <2>1 DEF PollTrue
  <2>3. PollTrue' /\ PageTrue'
    BY <2>1, <2>2 DEF PollTrue, PageTrue
  <2>4. PagedMeansEnqueued'
    <3>1. \A a \in Configured, e \in Events : ~(e <= cursors[a])
      BY <2>2, StreamTyped DEF Events, Now
    <3>2. QED
      BY <2>1, <3>1 DEF PagedMeansEnqueued
  <2>5. QED
    BY <2>3, <2>4
<1>2. CASE Poll
  <2>1. /\ status = "up" /\ At(Starter, "idle") /\ toPoll = {} /\ toPoll' = tracked
        /\ UNCHANGED <<tracked, cursors, page, enqueued, raw, status, call>>
    BY <1>2 DEF Poll, cursorVars, queueVars, workVars, envVars
  <2>2. page = NoPage
    BY <2>1 DEF PageTrue
  <2>3. At(Starter, "idle")'
    BY <2>1 DEF At
  <2>4. PollTrue' /\ PageTrue'
    BY <2>1, <2>2, <2>3 DEF PollTrue, PageTrue
  <2>5. PagedMeansEnqueued'
    BY <2>1 DEF PagedMeansEnqueued
  <2>6. QED
    BY <2>4, <2>5
<1>3. CASE Advance(Starter)
  <2>1. ~At(Starter, "idle")
    BY <1>3 DEF Advance, CallStep, SetMax, FindCursor, UpsertCursor, AdvanceFails, ReadCache,
                ReadDb, WarmCache, GetFails, At
  <2>2. UNCHANGED <<pollVars, enqueued, raw, status>>
    BY <1>3 DEF Advance, queueVars, workVars, envVars
  <2>3. QED
    BY <2>1, <2>2, PagesFrame
<1>4. ASSUME NEW a \in Accounts, FetchFails(a)
      PROVE  PagesInv'
  <2>1. /\ a \in toPoll /\ page = NoPage /\ At(Starter, "idle") /\ toPoll' = toPoll \ {a}
        /\ UNCHANGED <<tracked, cursors, page, enqueued, raw, status, call>>
    BY <1>4 DEF FetchFails, cursorVars, queueVars, workVars
  <2>2. At(Starter, "idle")'
    BY <2>1 DEF At
  <2>3. PollTrue' /\ PageTrue'
    BY <2>1, <2>2 DEF PollTrue, PageTrue
  <2>4. PagedMeansEnqueued'
    BY <2>1 DEF PagedMeansEnqueued
  <2>5. QED
    BY <2>3, <2>4
<1>5. QED
  BY <1>1, <1>2, <1>3, <1>4, StartPages, FetchPages, EnqueuePages, EnqueueFailsPages DEF Poller

\* The worker, the dead letters and BullMQ do not touch the poller.
LEMMA OthersPages ==
    ASSUME CursorTypeOK, LocalTypeOK, PagesInv,
           \/ Emit \/ \E s \in Slots : Worker(s)
           \/ DeadLetters \/ \E j \in jobs : Stall(j)
           \/ Shutdown \/ UNCHANGED vars
    PROVE  PagesInv'
<1> USE DEF queueVars, workVars, envVars, cursorVars
<1>1. UNCHANGED call => (At(Starter, "idle") => At(Starter, "idle")')
  BY DEF At
<1>2. call'[Starter] = call[Starter] => (At(Starter, "idle") => At(Starter, "idle")')
  BY DEF At
<1>3. CASE Emit
  BY <1>1, <1>3, PagesFrame DEF Emit
<1>4. ASSUME NEW s \in Slots, Worker(s)
      PROVE  PagesInv'
  <2>1. CASE Skip(s) \/ Handle(s) \/ Complete(s) \/ \E j \in jobs : Fetch(s, j)
    <3>1. UNCHANGED <<pollVars, enqueued, raw, status, call>>
      BY <2>1 DEF Skip, Handle, Complete, Fetch
    <3>2. QED
      BY <1>1, <3>1, PagesFrame
  <2>2. CASE PersistFails(s)
    <3>1. UNCHANGED <<pollVars, enqueued, status, call>> /\ raw \subseteq raw'
      BY <2>2 DEF PersistFails
    <3>2. QED
      BY <1>1, <3>1, PagesFrame
  <2>3. CASE Persist(s)
    <3>1. UNCHANGED <<pollVars, enqueued, status>> /\ raw \subseteq raw'
      BY <2>3 DEF Persist
    <3>2. slot[s].job.event \in Events
      BY <2>3, SlotTyped DEF Persist, LocalTypeOK
    <3>3. LedgerOf(slot[s].job.event) \in Ledgers \cup {NoLedger}
      BY <3>2, StreamTyped
    <3>4. (\E l \in Ledgers : BeginAdvance(s, l)) \/ UNCHANGED call
      BY <2>3, <3>3 DEF Persist
    <3>5. call'[Starter] = call[Starter]
      BY <3>4, StarterAlone
    <3>6. QED
      BY <1>2, <3>1, <3>5, PagesFrame
  <2>4. CASE Advance(s)
    <3>1. UNCHANGED <<pollVars, enqueued, raw, status>> /\ CallStep(s)
      BY <2>4 DEF Advance
    <3>2. call'[Starter] = call[Starter]
      BY <3>1, StarterAlone
    <3>3. QED
      BY <1>2, <3>1, <3>2, PagesFrame
  <2>5. QED
    BY <1>4, <2>1, <2>2, <2>3, <2>4 DEF Worker
<1>5. CASE DeadLetters \/ \E j \in jobs : Stall(j)
  <2>1. UNCHANGED <<pollVars, enqueued, raw, status, call>>
    BY <1>5 DEF DeadLetters, RecordDeadLetter, RecordFails, Stall
  <2>2. QED
    BY <1>1, <2>1, PagesFrame
<1>6. CASE Shutdown
  <2>1. UNCHANGED <<pollVars, enqueued, raw, call>> /\ status' # "down"
    BY <1>6 DEF Shutdown
  <2>2. QED
    BY <1>1, <2>1, PagesFrame
<1>7. CASE UNCHANGED vars
  BY <1>1, <1>7, PagesFrame DEF vars
<1>8. QED
  BY <1>3, <1>4, <1>5, <1>6, <1>7

\* A process that is gone polls nothing.
LEMMA GonePages ==
    ASSUME PagesInv, Gone
    PROVE  PagesInv'
<1>1. /\ status' = "down" /\ tracked' = {} /\ cursors' = [a \in Accounts |-> Now]
      /\ toPoll' = {} /\ page' = NoPage
  BY DEF Gone
<1>2. PollTrue'
  BY <1>1 DEF PollTrue
<1>3. PageTrue' /\ PagedMeansEnqueued'
  BY <1>1 DEF PageTrue, PagedMeansEnqueued
<1>4. QED
  BY <1>2, <1>3 DEF PagesInv

LEMMA PagesInitial == PipelineInit => PagesInv
<1> SUFFICES ASSUME PipelineInit
             PROVE  PagesInv
  OBVIOUS
<1>1. /\ status = "down" /\ tracked = {} /\ cursors = [a \in Accounts |-> Now]
      /\ toPoll = {} /\ page = NoPage
  BY DEF PipelineInit
<1>2. QED
  BY <1>1 DEF PagesInv, PollTrue, PageTrue, PagedMeansEnqueued

LEMMA PagesStep ==
    ASSUME LedgersTogether, CreationsFirst, CursorTypeOK, LocalTypeOK, PageHasEvents,
           PagesInv, [PipelineNext]_vars
    PROVE  PagesInv'
<1>1. CASE Poller
  BY <1>1, PollerPages
<1>2. CASE Crash \/ Exit
  BY <1>2, GonePages DEF Crash, Exit
<1>3. CASE \/ Emit \/ \E s \in Slots : Worker(s)
           \/ DeadLetters \/ \E j \in jobs : Stall(j)
           \/ Shutdown \/ UNCHANGED vars
  BY <1>3, OthersPages
<1>4. QED
  BY <1>1, <1>2, <1>3 DEF PipelineNext

\* "we never skip a failed batch" (horizon.service.ts:194): on any chain whose
\* accounts' ledgers come one after the other and whose pools are announced before
\* they act, no page, failure, discovery or restart moves a cursor past a complete
\* effect that was not handed to BullMQ or indexed before.
THEOREM PagedMeansEnqueuedCorrect ==
    ASSUME LedgersTogether, CreationsFirst
    PROVE  PipelineSpec => []PagedMeansEnqueued
<1>1. CursorTypeOK /\ LocalTypeOK /\ PageHasEvents /\ PagesInv /\ [PipelineNext]_vars
        => PagesInv'
  BY PagesStep
<1>2. PipelineSpec => []CursorTypeOK
  BY PipelineUsesCursor, CursorTypeCorrect, PTL
<1>3. PagesInv => PagedMeansEnqueued
  BY DEF PagesInv
<1>4. QED
  BY <1>1, <1>2, <1>3, PagesInitial, LocalTypeCorrect, PTL DEF PipelineSpec
==============================================================================
