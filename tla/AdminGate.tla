------------------------------ MODULE AdminGate ------------------------------
(* What stands before the operators' endpoints of the API. First the admin    *)
(* ones: the key ring that admits their requests, its rotation by a restart  *)
(* (internal-key-ring.ts, internal-key.guard.ts), the pause of a pool's       *)
(* trading behind it (pool-trading.service.ts), and the audit entry that the *)
(* interceptor writes without waiting once the handler has answered          *)
(* (admin-audit.interceptor.ts). Then POST /indexer/dead-letters/replay       *)
(* (dlq-replay.guard.ts).                                                    *)
EXTENDS Integers, FiniteSets

CONSTANTS Keys,         \* secrets an operator configures or a caller presents
          AdminCalls,   \* requests
          MaxWindow,    \* MAX_ROTATION_WINDOW_MS
          LastInstant,  \* bound: time
          MaxBoots      \* bound: restarts

ASSUME GateAssumption ==
    /\ MaxWindow \in Nat /\ LastInstant \in Nat /\ MaxBoots \in Nat

VARIABLES instant,    \* Date.now()
          ring,       \* INTERNAL_API_KEY, _PREVIOUS, _PREVIOUS_EXPIRES_AT
          running,    \* the API has booted
          bootedAt,
          active,     \* pool.active
          adminCall,  \* where each request is
          audit,      \* adminAuditLog, by request: statuses written
          admitted,   \* history: who was let in with which key, and when
          boots

gateVars == <<instant, ring, running, bootedAt, active, adminCall, audit, admitted, boots>>

Unset == "unset"
NoExpiry == -1
RingConfig == [current : Keys \cup {Unset}, previous : Keys \cup {Unset},
               expires : {NoExpiry} \cup (0..LastInstant)]
Unborn == [pc |-> "none", key |-> Unset, paused |-> FALSE, status |-> 0]

GateInit ==
    /\ instant = 0
    /\ ring = [current |-> Unset, previous |-> Unset, expires |-> NoExpiry]
    /\ running = FALSE
    /\ bootedAt = 0
    /\ active = TRUE
    /\ adminCall = [c \in AdminCalls |-> Unborn]
    /\ audit = [c \in AdminCalls |-> 0]
    /\ admitted = {}
    /\ boots = 0

-----------------------------------------------------------------------------
(* The key ring *)

\* Without the bound on the window.
UnboundedRing(r, now) ==
    /\ r.current # Unset
    /\ IF r.previous # Unset THEN r.previous # r.current /\ r.expires # NoExpiry
                             ELSE r.expires = NoExpiry

\* validateInternalApiKeyConfig and keyRingConfigProblems, in production.
BootableRing(r, now) ==
    /\ r.current # Unset
    /\ IF r.previous # Unset
       THEN /\ r.previous # r.current
            /\ r.expires # NoExpiry
            /\ r.expires - now <= MaxWindow
       ELSE r.expires = NoExpiry

\* matchKeyRing.
Accepts(r, key, now) ==
    /\ r.current # Unset
    /\ key # Unset
    /\ \/ key = r.current
       \/ key = r.previous /\ r.expires # NoExpiry /\ r.expires > now

\* A deploy with another configuration: the process stops, and starts if the
\* configuration is valid. The requests in flight are lost.
Restart(r) ==
    /\ boots < MaxBoots
    /\ boots' = boots + 1
    /\ ring' = r
    /\ running' = BootableRing(r, instant)
    /\ bootedAt' = instant
    /\ adminCall' = [c \in AdminCalls |-> IF adminCall[c].pc = "none" THEN Unborn
                                          ELSE [adminCall[c] EXCEPT !.pc = "over"]]
    /\ UNCHANGED <<instant, active, audit, admitted>>

Elapse ==
    /\ instant < LastInstant
    /\ instant' = instant + 1
    /\ UNCHANGED <<ring, running, bootedAt, active, adminCall, audit, admitted, boots>>

-----------------------------------------------------------------------------
(* PATCH /admin/pools/:id/trading *)

\* InternalKeyGuard; a request it turns away never reaches the interceptor.
Present(c, key, paused) ==
    /\ running
    /\ adminCall[c].pc = "none"
    /\ IF Accepts(ring, key, instant)
       THEN /\ adminCall' = [adminCall EXCEPT ![c] =
                   [pc |-> "find", key |-> key, paused |-> paused, status |-> 0]]
            /\ admitted' = admitted \cup {[key |-> key, at |-> instant, boot |-> bootedAt,
                                           current |-> key = ring.current]}
       ELSE /\ adminCall' = [adminCall EXCEPT ![c] = [Unborn EXCEPT !.pc = "over", !.status = 401]]
            /\ admitted' = admitted
    /\ UNCHANGED <<instant, ring, running, bootedAt, active, audit, boots>>

\* findUnique of setPaused: the pool, 404, or the database fails.
FindPool(c) ==
    /\ adminCall[c].pc = "find"
    /\ \E next \in {[pc |-> "update", status |-> 0], [pc |-> "audit", status |-> 404],
                    [pc |-> "audit", status |-> 500]} :
          adminCall' = [adminCall EXCEPT ![c].pc = next.pc, ![c].status = next.status]
    /\ UNCHANGED <<instant, ring, running, bootedAt, active, audit, admitted, boots>>

\* pool.update; the answer goes out here, with the audit write not begun.
SetPaused(c) ==
    /\ adminCall[c].pc = "update"
    /\ \/ /\ active' = ~adminCall[c].paused
          /\ adminCall' = [adminCall EXCEPT ![c].pc = "audit", ![c].status = 200]
       \/ /\ active' = active
          /\ adminCall' = [adminCall EXCEPT ![c].pc = "audit", ![c].status = 500]
    /\ UNCHANGED <<instant, ring, running, bootedAt, audit, admitted, boots>>

\* The voided persist: an entry, or a rejection nobody handles.
WriteAudit(c) ==
    /\ adminCall[c].pc = "audit"
    /\ audit' \in {audit, [audit EXCEPT ![c] = adminCall[c].status]}
    /\ adminCall' = [adminCall EXCEPT ![c].pc = "over"]
    /\ UNCHANGED <<instant, ring, running, bootedAt, active, admitted, boots>>

GateNext ==
    \/ \E r \in RingConfig : Restart(r)
    \/ Elapse
    \/ \E c \in AdminCalls, key \in Keys \cup {Unset}, paused \in BOOLEAN : Present(c, key, paused)
    \/ \E c \in AdminCalls : FindPool(c) \/ SetPaused(c) \/ WriteAudit(c)

-----------------------------------------------------------------------------
GateTypeOK ==
    /\ instant \in 0..LastInstant
    /\ ring \in RingConfig
    /\ running \in BOOLEAN /\ active \in BOOLEAN
    /\ bootedAt \in Nat /\ boots \in Nat
    /\ adminCall \in [AdminCalls -> [pc : {"none", "find", "update", "audit", "over"},
                                     key : Keys \cup {Unset}, paused : BOOLEAN, status : Nat]]
    /\ audit \in [AdminCalls -> Nat]

\* A key that was rotated out opens nothing later than the longest window after
\* the boot that rotated it, whatever the operator configured (matchKeyRing and
\* keyRingConfigProblems, internal-key-ring.ts:67-142); and an audit entry is of
\* a request that was let in, with the status it was answered, so trading was
\* paused or resumed by no one without a key (internal-key.guard.ts:178-245).
RotatedKeysRetire ==
    /\ \A a \in admitted : a.key # Unset /\ (a.current \/ a.at < a.boot + MaxWindow)
    /\ \A c \in AdminCalls : audit[c] # 0 => audit[c] = adminCall[c].status
                                             /\ \E a \in admitted : a.key = adminCall[c].key
    /\ ~active => admitted # {}

-----------------------------------------------------------------------------
(* The replay guard: the operator's key, role and expiry, two switches, and a *)
(* fixed window that only requests which pass all of them use up. Policy and  *)
(* window are of one process; its clock does not go back.                     *)

CONSTANTS Operators,    \* requests
          PerWindow,    \* maxPerWindow
          WindowMs,     \* windowMs
          LastMoment,   \* bound: the clock
          MaxReboots    \* bound: restarts

ASSUME GuardAssumption ==
    /\ PerWindow \in Nat \ {0} /\ WindowMs \in Nat \ {0}
    /\ LastMoment \in Nat /\ LastMoment >= WindowMs /\ MaxReboots \in Nat

VARIABLES moment,       \* Date.now(), WindowMs at the start
          policy,       \* DlqReplayPolicy's switches
          limiter,      \* FixedWindowLimiter
          presented,      \* by request: its outcome, and when it reached the limiter
          reboots

guardVars == <<moment, policy, limiter, presented, reboots>>

Unrequested == [outcome |-> "none", at |-> 0, wait |-> 0]

GuardInit ==
    /\ moment = WindowMs
    /\ policy \in [enabled : BOOLEAN, mainnet : BOOLEAN, mainnetEnabled : BOOLEAN]
    /\ limiter = [start |-> 0, count |-> 0]
    /\ presented = [o \in Operators |-> Unrequested]
    /\ reboots = 0

Wait ==
    /\ moment < LastMoment
    /\ moment' = moment + 1
    /\ UNCHANGED <<policy, limiter, presented, reboots>>

\* Another process, perhaps with other switches.
Reboot ==
    /\ reboots < MaxReboots
    /\ reboots' = reboots + 1
    /\ policy' \in [enabled : BOOLEAN, mainnet : BOOLEAN, mainnetEnabled : BOOLEAN]
    /\ limiter' = [start |-> 0, count |-> 0]
    /\ UNCHANGED <<moment, presented>>

\* The instant a window ends still in it.
OverAfter(start) == moment - start > WindowMs

\* now - windowStart >= windowMs
Over(start) == moment - start >= WindowMs

\* The first check the credentials and the switches do not pass, in the guard's order.
Denial(key, role, expiry) ==
    IF key # "valid" THEN key
    ELSE IF role = "other" THEN "wrong_role"
    ELSE IF expiry = "past" THEN "expired"
    ELSE IF ~policy.enabled THEN "disabled"
    ELSE IF policy.mainnet /\ ~policy.mainnetEnabled THEN "mainnet_disabled"
    ELSE "none"

\* canActivate with FixedWindowLimiter.take as its last check: a wait of 0 admits.
CanActivate(o, key, role, expiry) ==
    /\ presented[o].outcome = "none"
    /\ LET denial == Denial(key, role, expiry)
           window == IF Over(limiter.start) THEN [start |-> moment, count |-> 0] ELSE limiter
           wait == IF window.count >= PerWindow THEN window.start + WindowMs - moment ELSE 0
       IN IF denial # "none"
          THEN /\ presented' = [presented EXCEPT ![o] = [outcome |-> denial, at |-> 0, wait |-> 0]]
               /\ UNCHANGED limiter
          ELSE /\ presented' = [presented EXCEPT ![o] =
                      [outcome |-> IF wait > 0 THEN "rate_limited" ELSE "allowed",
                       at |-> moment, wait |-> wait]]
               /\ limiter' = IF window.count >= PerWindow THEN window
                             ELSE [window EXCEPT !.count = @ + 1]
    /\ UNCHANGED <<moment, policy, reboots>>

GuardNext ==
    \/ Wait \/ Reboot
    \/ \E o \in Operators, key \in {"valid", "invalid"},
          role \in {"absent", "other"}, expiry \in {"absent", "past"} :
             CanActivate(o, key, role, expiry)

Outcomes == {"none", "allowed", "rate_limited", "invalid", "wrong_role", "expired",
             "disabled", "mainnet_disabled"}

GuardTypeOK ==
    /\ moment \in WindowMs..LastMoment
    /\ policy \in [enabled : BOOLEAN, mainnet : BOOLEAN, mainnetEnabled : BOOLEAN]
    /\ limiter \in [start : Nat, count : 0..PerWindow]
    /\ presented \in [Operators -> [outcome : Outcomes, at : Nat, wait : Int]]
    /\ reboots \in 0..MaxReboots

Admitted(first, last) ==
    Cardinality({o \in Operators : /\ presented[o].outcome = "allowed"
                                   /\ presented[o].at \in first..last})

\* No request slips past a full window: one process admits at most PerWindow per
\* window, so any span of that length holds at most two windows' worth and one
\* more for each restart; refused requests use up nothing, so those counted are
\* those admitted; and who is told to wait meets a new window if he does
\* (FixedWindowLimiter.take and canActivate).
WindowHonoured ==
    /\ \A from \in WindowMs..LastMoment :
          Admitted(from, from + WindowMs - 1) <= (2 + reboots) * PerWindow
    /\ reboots = 0 /\ limiter.count > 0 =>
          limiter.count = Admitted(limiter.start, limiter.start + WindowMs)
    /\ \A o \in Operators : presented[o].outcome = "rate_limited" =>
          presented[o].wait \in 1..WindowMs
=============================================================================
