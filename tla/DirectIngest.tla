----------------------------- MODULE DirectIngest -----------------------------
(* IndexerService.ingest (indexer.service.ts): an event delivered straight to *)
(* the indexer is checked, looked up in the sink and persisted, in separate   *)
(* round trips of concurrent deliveries. No sink exists in src: it keeps what *)
(* IndexedEventSink demands, is idempotent on an event's id, and may fail     *)
(* before or after it has stored the event.                                   *)
EXTENDS Integers

CONSTANTS Deliveries,   \* calls of ingest
          EventIds,     \* contract, transaction and index of an event
          MaxSinkFaults \* bound: round trips to the sink that fail

ASSUME IngestAssumption == MaxSinkFaults \in Nat

VARIABLES delivery,     \* by call: where it is, and the event it carries
          persisted,    \* the sink: ids it has
          sinkFaults

ingestVars == <<delivery, persisted, sinkFaults>>

Undelivered == [pc |-> "idle", id |-> "none", late |-> FALSE, wrote |-> FALSE]

IngestInit ==
    /\ delivery = [d \in Deliveries |-> Undelivered]
    /\ persisted = {}
    /\ sinkFaults = 0

\* parse: what an event of this topic and shape comes to.
Parsed(topic, complete) ==
    IF topic = "" THEN "INVALID_EVENT"
    ELSE IF topic \notin {"swap", "mint", "burn"} THEN "UNSUPPORTED_EVENT"
    ELSE IF complete THEN "has" ELSE "INVALID_EVENT"

\* ingest up to its first round trip: the caller's role, then the event.
Deliver(d, id, role, topic, complete) ==
    /\ delivery[d].pc = "idle"
    /\ delivery' = [delivery EXCEPT ![d] =
           [pc |-> IF role \in {"indexer", "admin"} THEN Parsed(topic, complete)
                   ELSE "UNAUTHORIZED",
            id |-> id, late |-> id \in persisted, wrote |-> FALSE]]
    /\ UNCHANGED <<persisted, sinkFaults>>

\* A delivery that does not believe the sink.
PersistAlways(known) == "persist"

\* What the sink's answer leads to.
Looked(known) == IF known THEN "duplicate" ELSE "persist"

Has(d) ==
    /\ delivery[d].pc = "has"
    /\ delivery' = [delivery EXCEPT ![d].pc = Looked(delivery[d].id \in persisted)]
    /\ UNCHANGED <<persisted, sinkFaults>>

Persist(d) ==
    /\ delivery[d].pc = "persist"
    /\ persisted' = persisted \cup {delivery[d].id}
    /\ delivery' = [delivery EXCEPT ![d].pc = "ok", ![d].wrote = TRUE]
    /\ UNCHANGED sinkFaults

\* has or persist fails; persist perhaps after it stored the event.
SinkFails(d) ==
    /\ delivery[d].pc \in {"has", "persist"}
    /\ sinkFaults < MaxSinkFaults
    /\ sinkFaults' = sinkFaults + 1
    /\ \E done \in BOOLEAN :
          /\ done => delivery[d].pc = "persist"
          /\ delivery' = [delivery EXCEPT ![d].pc = "DEPENDENCY_UNAVAILABLE",
                                          ![d].wrote = done]
          /\ persisted' = IF done THEN persisted \cup {delivery[d].id} ELSE persisted

IngestNext ==
    \E d \in Deliveries :
       \/ \E id \in EventIds, role \in {"indexer", "reader"},
             topic \in {"swap", "sync", ""}, complete \in BOOLEAN :
                Deliver(d, id, role, topic, complete)
       \/ Has(d) \/ Persist(d) \/ SinkFails(d)

IngestTypeOK ==
    /\ delivery \in [Deliveries ->
           [pc : {"idle", "has", "persist", "ok", "duplicate", "UNAUTHORIZED",
                  "INVALID_EVENT", "UNSUPPORTED_EVENT", "DEPENDENCY_UNAVAILABLE"},
            id : EventIds \cup {"none"}, late : BOOLEAN, wrote : BOOLEAN]]
    /\ persisted \subseteq EventIds
    /\ sinkFaults \in 0..MaxSinkFaults

\* Who is answered with the event finds it stored, a stored event is of a delivery
\* that was let through, and a delivery that begins once the event is stored never
\* writes it again, also when the one that stored it was told of an outage
\* (ingest: "idempotent on the derived event id, and fail-closed").
IngestedOnce ==
    /\ \A d \in Deliveries :
          /\ delivery[d].pc \in {"ok", "duplicate"} => delivery[d].id \in persisted
          /\ delivery[d].wrote => ~delivery[d].late
    /\ persisted = {delivery[d].id : d \in {e \in Deliveries : delivery[e].wrote}}
=============================================================================
