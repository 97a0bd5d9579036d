------------------------------ MODULE TvlAlerts ------------------------------
(* TVL alerts of one pool (stats.worker.ts, tvl-alert.service.ts). A run of  *)
(* the stats job stores the pool's TVL and today's snapshot, reads the       *)
(* thresholds that are due, and for each one writes a history row, stamps    *)
(* the threshold, and dispatches the webhook event. Owners change their      *)
(* thresholds meanwhile, two runs may overlap, and any write may fail.       *)
EXTENDS Integers, FiniteSets

CONSTANTS AlertOwners,  \* wallets; each has one threshold at most
          Checkers,     \* processes that run the stats job
          TvlValues,    \* TVLs and thresholds, in USD
          MaxDays,      \* bound: days
          MaxChecks,    \* bound: runs of the job
          MaxEdits,     \* bound: calls of the owners
          MaxMishaps    \* bound: failed writes and deaths

ASSUME AlertAssumption ==
    /\ TvlValues \subseteq Nat
    /\ MaxDays \in Nat /\ MaxChecks \in Nat /\ MaxEdits \in Nat /\ MaxMishaps \in Nat

Never == -1
Directions == {"below", "above"}

VARIABLES day,        \* today
          threshold,  \* tvlAlertThreshold, by owner
          tvl,        \* pool.tvl
          snapshot,   \* tvlSnapshot of each day: empty, or the TVL
          checker,    \* what each run is at
          history,    \* tvlAlertHistory: rows ever written
          sent,       \* history: events dispatched
          raced, \* history: thresholds read by two runs at once
          checks, edits, mishaps

alertVars == <<day, threshold, tvl, snapshot, checker, history, sent, raced,
               checks, edits, mishaps>>

NoRow == [row |-> 0, level |-> 0, direction |-> "below", enabled |-> FALSE, last |-> Never]
Off == [pc |-> "off", run |-> 0, tvl |-> 0, todo |-> {}, now |-> {}, at |-> 0,
        seen |-> [o \in AlertOwners |-> NoRow]]

AlertsInit ==
    /\ day = 0
    /\ threshold = [o \in AlertOwners |-> NoRow]
    /\ tvl = 0
    /\ snapshot = [d \in 0..MaxDays |-> {}]
    /\ checker = [w \in Checkers |-> Off]
    /\ history = {}
    /\ sent = {}
    /\ raced = {}
    /\ checks = 0 /\ edits = 0 /\ mishaps = 0

\* threshold[o].row is the id of the row, 0 if there is none.
Exists(o) == threshold[o].row # 0

-----------------------------------------------------------------------------
(* The owners *)

Edit == edits < MaxEdits /\ edits' = edits + 1
NotEdited == <<day, tvl, snapshot, checker, history, sent, raced, checks, mishaps>>

\* setThreshold: an update keeps the time of the last alert.
SetThreshold(o, level, direction) ==
    /\ Edit
    /\ threshold' = [threshold EXCEPT ![o] =
          [row |-> IF Exists(o) THEN @.row ELSE edits + 1,
           level |-> level, direction |-> direction, enabled |-> TRUE,
           last |-> IF Exists(o) THEN @.last ELSE Never]]
    /\ UNCHANGED NotEdited

DisableThreshold(o) ==
    /\ Exists(o)
    /\ Edit
    /\ threshold' = [threshold EXCEPT ![o].enabled = FALSE]
    /\ UNCHANGED NotEdited

\* deleteThreshold: its history goes with it (onDelete: Cascade).
DeleteThreshold(o) ==
    /\ Exists(o)
    /\ Edit
    /\ threshold' = [threshold EXCEPT ![o] = NoRow]
    /\ UNCHANGED NotEdited

NextDay ==
    /\ day < MaxDays
    /\ day' = day + 1
    /\ UNCHANGED <<threshold, tvl, snapshot, checker, history, sent, raced,
                   checks, edits, mishaps>>

-----------------------------------------------------------------------------
(* The job *)

\* Without the once-a-day condition.
BreachedAnyTime(r, v) ==
    /\ r.row # 0 /\ r.enabled
    /\ \/ r.direction = "below" /\ r.level > v
       \/ r.direction = "above" /\ r.level < v

\* The query of checkAndTriggerAlerts: breached, and not stamped within a day.
Due(r, v) ==
    /\ r.row # 0 /\ r.enabled
    /\ \/ r.direction = "below" /\ r.level > v
       \/ r.direction = "above" /\ r.level < v
    /\ r.last = Never \/ r.last < day

\* process, up to the pool's update: the TVL is computed and stored.
ComputeTvl(w, v) ==
    /\ checks < MaxChecks
    /\ checks' = checks + 1
    /\ checker[w].pc = "off"
    /\ tvl' = v
    /\ checker' = [checker EXCEPT ![w] = [Off EXCEPT !.pc = "snapshot", !.run = checks + 1, !.tvl = v]]
    /\ UNCHANGED <<day, threshold, snapshot, history, sent, raced, edits, mishaps>>

\* recordTvlSnapshot, whose failure is only logged.
Snapshot(w) ==
    /\ checker[w].pc = "snapshot"
    /\ \/ snapshot' = [snapshot EXCEPT ![day] = {checker[w].tvl}] /\ mishaps' = mishaps
       \/ snapshot' = snapshot /\ mishaps < MaxMishaps /\ mishaps' = mishaps + 1
    /\ checker' = [checker EXCEPT ![w].pc = "find"]
    /\ UNCHANGED <<day, threshold, tvl, history, sent, raced, checks, edits>>

\* findMany.
FindDue(w) ==
    /\ checker[w].pc = "find"
    /\ LET due == {o \in AlertOwners : Due(threshold[o], checker[w].tvl)}
       IN /\ checker' = [checker EXCEPT ![w] =
                IF due = {} THEN Off
                ELSE [@ EXCEPT !.pc = "record", !.todo = due, !.seen = threshold]]
          /\ raced' = raced \cup {threshold[o].row : o \in
                {p \in due : \E v \in Checkers \ {w} : p \in checker[v].todo \cup checker[v].now}}
    /\ UNCHANGED <<day, threshold, tvl, snapshot, history, sent, checks, edits, mishaps>>

\* The loop goes on to another threshold, or the pool is done.
Onward(w) == checker' = [checker EXCEPT ![w] = IF @.todo = {} THEN Off
                                                ELSE [@ EXCEPT !.pc = "record", !.now = {}]]

Entry(w, o) == [row |-> checker[w].seen[o].row, day |-> checker[w].at, run |-> checker[w].run,
                level |-> checker[w].seen[o].level, tvl |-> checker[w].tvl,
                direction |-> checker[w].seen[o].direction]

\* The row the run read is there still.
SameRow(w, o) == threshold[o].row = checker[w].seen[o].row

\* The next threshold of the loop: new Date().
TakeUp(w, o) ==
    /\ checker[w].pc = "record" /\ checker[w].now = {} /\ o \in checker[w].todo
    /\ checker' = [checker EXCEPT ![w].now = {o}, ![w].todo = @ \ {o}, ![w].at = day]
    /\ UNCHANGED <<day, threshold, tvl, snapshot, history, sent, raced, checks, edits, mishaps>>

AtStep(w, o, pc) == checker[w].pc = pc /\ checker[w].now = {o}

\* tvlAlertHistory.create, which refers to the threshold's row.
RecordBreach(w, o) ==
    /\ AtStep(w, o, "record")
    /\ IF SameRow(w, o)
       THEN history' = history \cup {Entry(w, o)} /\ checker' = [checker EXCEPT ![w].pc = "stamp"]
       ELSE history' = history /\ Onward(w)
    /\ UNCHANGED <<day, threshold, tvl, snapshot, sent, raced, checks, edits, mishaps>>

\* tvlAlertThreshold.update of lastTriggeredAt.
Stamp(w, o) ==
    /\ AtStep(w, o, "stamp")
    /\ IF SameRow(w, o)
       THEN /\ threshold' = [threshold EXCEPT ![o].last = checker[w].at]
            /\ checker' = [checker EXCEPT ![w].pc = "dispatch"]
       ELSE threshold' = threshold /\ Onward(w)
    /\ UNCHANGED <<day, tvl, snapshot, history, sent, raced, checks, edits, mishaps>>

\* webhooksService.dispatch.
DispatchAlert(w, o) ==
    /\ AtStep(w, o, "dispatch")
    /\ sent' = sent \cup {Entry(w, o)}
    /\ Onward(w)
    /\ UNCHANGED <<day, threshold, tvl, snapshot, history, raced, checks, edits, mishaps>>

\* A step for this threshold throws: it is logged and the next one is tried.
AlertFails(w) ==
    /\ mishaps < MaxMishaps
    /\ mishaps' = mishaps + 1
    /\ checker[w].now # {}
    /\ Onward(w)
    /\ UNCHANGED <<day, threshold, tvl, snapshot, history, sent, raced, checks, edits>>

\* The process dies, or a query outside the loop throws.
JobDies(w) ==
    /\ mishaps < MaxMishaps
    /\ mishaps' = mishaps + 1
    /\ checker[w].pc # "off"
    /\ checker' = [checker EXCEPT ![w] = Off]
    /\ UNCHANGED <<day, threshold, tvl, snapshot, history, sent, raced, checks, edits>>

AlertsNext ==
    \/ \E o \in AlertOwners, level \in TvlValues, direction \in Directions :
          SetThreshold(o, level, direction)
    \/ \E o \in AlertOwners : DisableThreshold(o) \/ DeleteThreshold(o)
    \/ NextDay
    \/ \E w \in Checkers, v \in TvlValues : ComputeTvl(w, v)
    \/ \E w \in Checkers : Snapshot(w) \/ FindDue(w) \/ AlertFails(w) \/ JobDies(w)
    \/ \E w \in Checkers, o \in AlertOwners :
          TakeUp(w, o) \/ RecordBreach(w, o) \/ Stamp(w, o) \/ DispatchAlert(w, o)

-----------------------------------------------------------------------------
Row == [row : Nat, level : Nat, direction : Directions, enabled : BOOLEAN, last : Int]
Alert == [row : Nat, day : Nat, run : Nat, level : Nat, tvl : Nat, direction : Directions]

AlertsTypeOK ==
    /\ day \in 0..MaxDays
    /\ threshold \in [AlertOwners -> Row]
    /\ tvl \in Nat
    /\ \A d \in 0..MaxDays : snapshot[d] \subseteq Nat
    /\ \A w \in Checkers : /\ checker[w].pc \in {"off", "snapshot", "find", "record", "stamp", "dispatch"}
                           /\ checker[w].todo \cup checker[w].now \subseteq AlertOwners
                           /\ checker[w].seen \in [AlertOwners -> Row]
    /\ \A e \in history \cup sent : e \in Alert
    /\ raced \subseteq Nat
    /\ checks \in Nat /\ edits \in Nat /\ mishaps \in Nat

\* An alert that goes out was recorded first, is about a TVL that breached the
\* threshold as its owner had set it, and is the only one of its day for that
\* threshold unless two runs of the job read it at the same time (checkAnd-
\* TriggerAlerts, tvl-alert.service.ts:102-176); a failed step never sends twice.
AlertsRecorded ==
    /\ sent \subseteq history
    /\ \A e \in sent : IF e.direction = "below" THEN e.tvl < e.level ELSE e.tvl > e.level
    /\ \A e, f \in sent : e.row = f.row /\ e.day = f.day /\ e.run # f.run => e.row \in raced
=============================================================================
