------------------------------ MODULE RateLimit ------------------------------
(* One caller on one route group under rate-limit.middleware.ts. A request   *)
(* counts itself under every rule at once: INCR, EXPIRE if it is the first,  *)
(* TTL, each an await of its own. The counters are shared by the replicas.   *)
(* Keys of other callers and routes are apart from these.                    *)
EXTENDS Naturals, FiniteSets

CONSTANTS Calls,     \* requests the caller sends
          Rules,     \* the rules that apply: global, and the endpoint's
          Limit,     \* requests per window, by rule
          MaxWindows, \* bound: windows that end
          MaxRateFaults \* bound: requests that meet a failure of Redis or a crash

ASSUME RateAssumption ==
    /\ Limit \in [Rules -> Nat \ {0}]
    /\ MaxWindows \in Nat /\ MaxRateFaults \in Nat

VARIABLES production,  \* NODE_ENV
          connected,  \* the middleware has a Redis client
          counter,    \* rate-limit:<rule>:<identity>:<route>: value and TTL
          tally,       \* by request and rule: where it is, and its INCR's answer
          verdict,    \* by request: pending, allowed, limited or unavailable
          window,     \* history: windows of each rule that have ended
          hitIn,      \* history: the window in which a request was counted
          orphan      \* history: counters whose EXPIRE was never sent

rateVars == <<production, connected, counter, tally, verdict, window, hitIn, orphan>>

RateInit ==
    /\ production \in BOOLEAN
    /\ connected \in BOOLEAN
    /\ counter = [u \in Rules |-> [n |-> 0, ttl |-> FALSE]]
    /\ tally = [c \in Calls |-> [u \in Rules |-> [pc |-> "new", total |-> 0]]]
    /\ verdict = [c \in Calls |-> "pending"]
    /\ window = [u \in Rules |-> 0]
    /\ hitIn = [c \in Calls |-> [u \in Rules |-> 0]]
    /\ orphan = {}

\* A health or metrics path is let through without being counted.
Exempt(c) ==
    /\ verdict[c] = "pending"
    /\ \A u \in Rules : tally[c][u].pc = "new"
    /\ verdict' = [verdict EXCEPT ![c] = "allowed"]
    /\ tally' = [tally EXCEPT ![c] = [u \in Rules |-> [pc |-> "exempt", total |-> 0]]]
    /\ UNCHANGED <<production, connected, counter, window, hitIn, orphan>>

\* handleRedisUnavailable: closed in production, open elsewhere.
Unavailable(c) ==
    verdict' = [verdict EXCEPT ![c] = IF @ # "pending" THEN @
                                      ELSE IF production THEN "unavailable" ELSE "allowed"]

\* onModuleInit: the first connection failed, and the client was dropped.
NotConnected(c) ==
    /\ ~connected
    /\ verdict[c] = "pending"
    /\ Unavailable(c)
    /\ UNCHANGED <<production, connected, counter, tally, window, hitIn, orphan>>

\* hit: INCR. The hits of a request are sent together (Promise.all), so a rule
\* is counted even when another one has answered already.
Incr(c, u) ==
    /\ connected
    /\ tally[c][u].pc = "new"
    /\ counter' = [counter EXCEPT ![u].n = @ + 1]
    /\ tally' = [tally EXCEPT ![c][u] = [pc |-> IF counter[u].n = 0 THEN "expire" ELSE "ttl",
                                       total |-> counter[u].n + 1]]
    /\ hitIn' = [hitIn EXCEPT ![c][u] = window[u]]
    /\ UNCHANGED <<production, connected, verdict, window, orphan>>

\* EXPIRE, by the request that made the counter.
Expire(c, u) ==
    /\ tally[c][u].pc = "expire"
    /\ counter' = [counter EXCEPT ![u].ttl = @ \/ counter[u].n > 0]
    /\ tally' = [tally EXCEPT ![c][u].pc = "ttl"]
    /\ UNCHANGED <<production, connected, verdict, window, hitIn, orphan>>

Faulty(c) == \E u \in Rules : tally[c][u].pc = "failed"

MayFail(c) == Cardinality({x \in Calls : Faulty(x)} \cup {c}) <= MaxRateFaults

\* A command fails: that hit stops where it is, the others go on.
HitFails(c, u) ==
    /\ connected /\ MayFail(c)
    /\ tally[c][u].pc \in {"new", "expire", "ttl"}
    /\ tally' = [tally EXCEPT ![c][u].pc = "failed"]
    /\ orphan' = orphan \cup (IF tally[c][u].pc = "expire" THEN {u} ELSE {})
    /\ Unavailable(c)
    /\ UNCHANGED <<production, connected, counter, window, hitIn>>

\* The replica dies; the requests it holds are never answered.
RateCrash(c) ==
    /\ MayFail(c)
    /\ verdict[c] = "pending"
    /\ \E u \in Rules : tally[c][u].pc # "new"
    /\ verdict' = [verdict EXCEPT ![c] = "gone"]
    /\ tally' = [tally EXCEPT ![c] = [u \in Rules |-> [@[u] EXCEPT !.pc = "failed"]]]
    /\ orphan' = orphan \cup {u \in Rules : tally[c][u].pc = "expire"}
    /\ UNCHANGED <<production, connected, counter, window, hitIn>>

\* Letting one request over the limit through.
ExceededLate(c, u) == tally[c][u].total > Limit[u] + 1

Exceeded(c, u) == tally[c][u].total > Limit[u]

\* use, once every hit has its TTL, which only tells the client when to come
\* back: 429 if any rule is exceeded.
Decide(c) ==
    /\ verdict[c] = "pending"
    /\ \A u \in Rules : tally[c][u].pc = "ttl"
    /\ verdict' = [verdict EXCEPT ![c] = IF \E u \in Rules : Exceeded(c, u)
                                         THEN "limited" ELSE "allowed"]
    /\ tally' = [tally EXCEPT ![c] = [u \in Rules |-> [@[u] EXCEPT !.pc = "done"]]]
    /\ UNCHANGED <<production, connected, counter, window, hitIn, orphan>>

\* The window ends: Redis drops the counter.
WindowEnds(u) ==
    /\ window[u] < MaxWindows
    /\ counter[u].ttl
    /\ counter' = [counter EXCEPT ![u] = [n |-> 0, ttl |-> FALSE]]
    /\ window' = [window EXCEPT ![u] = @ + 1]
    /\ UNCHANGED <<production, connected, tally, verdict, hitIn, orphan>>

RateNext ==
    \/ \E c \in Calls, u \in Rules : Incr(c, u) \/ Expire(c, u) \/ HitFails(c, u)
    \/ \E c \in Calls : Exempt(c) \/ NotConnected(c) \/ Decide(c) \/ RateCrash(c)
    \/ \E u \in Rules : WindowEnds(u)

-----------------------------------------------------------------------------
RateTypeOK ==
    /\ production \in BOOLEAN
    /\ connected \in BOOLEAN
    /\ counter \in [Rules -> [n : Nat, ttl : BOOLEAN]]
    /\ tally \in [Calls -> [Rules -> [pc : {"new", "exempt", "expire", "ttl", "done", "failed"},
                                     total : Nat]]]
    /\ verdict \in [Calls -> {"pending", "allowed", "limited", "unavailable", "gone"}]
    /\ window \in [Rules -> Nat]
    /\ hitIn \in [Calls -> [Rules -> Nat]]
    /\ orphan \subseteq Rules

Allowed(u, w) == {c \in Calls : /\ verdict[c] = "allowed"
                                /\ \A v \in Rules : tally[c][v].pc = "done"
                                /\ hitIn[c][u] = w}

\* No rule lets more requests of a window through than its limit, whichever way
\* the commands of concurrent requests interleave (use, rate-limit.middleware.
\* ts:112-161), in production nothing is let through uncounted (174-194), and a
\* counter is left without an end only by the request that is about to set it or
\* that failed to (hit, 309-330).
WindowKeepsLimit ==
    /\ \A u \in Rules, w \in 0..MaxWindows : Cardinality(Allowed(u, w)) <= Limit[u]
    /\ production => \A c \in Calls : verdict[c] = "allowed" =>
                        \A u \in Rules : tally[c][u].pc \in {"done", "exempt"}
    /\ \A u \in Rules : counter[u].n > 0 /\ ~counter[u].ttl =>
          u \in orphan \/ \E c \in Calls : tally[c][u].pc = "expire"
=============================================================================
