----------------------------- MODULE CachedReads -----------------------------
(* What the API keeps in Redis between a reader and the database: a pool's   *)
(* detail, loaded by one request under a lock of five seconds and dropped    *)
(* when the stream or a liquidity request touches the pool                   *)
(* (pools.controller.ts, pools.service.ts), and the three entry points of    *)
(* CacheService that share one key between callers: get, getOrFetch, and     *)
(* checkRateLimit (cache.service.ts).                                        *)
EXTENDS Integers, FiniteSets

CONSTANTS Readers,     \* requests for one pool's detail
          Fetches,     \* calls of getOrFetch for one key, in one process
          Takers,      \* calls of checkRateLimit for one key
          Budget,      \* RateLimitOptions.limit
          MaxRecord,   \* bound: versions of the pool's row
          MaxTroubles  \* bound: what expires, fails or is lost

ASSUME CacheAssumption ==
    /\ Budget \in Nat \ {0}
    /\ MaxRecord \in Nat \ {0} /\ MaxTroubles \in Nat
    /\ "none" \notin Fetches

VARIABLES record,     \* the pool's row: its version, 0 before the pool is indexed
          entry,      \* the key in Redis: the version it holds
          lock,       \* <key>:lock exists
          available,  \* CacheService.available
          dropping,   \* who is between the database and del: the stream, a liquidity request
          reader,     \* getPoolById, by request
          settled,    \* history: the row's version when the key was last deleted
          putBack,    \* history: the entry is of a load that a deletion overtook
          blind,      \* history: loads admitted because Redis did not answer
          expiries, losses

VARIABLES fetch,      \* getOrFetch, by call
          inflight,   \* CacheService.inflight, at the key: the call that made the promise
          threw       \* history: calls whose fetcher threw before its first await

VARIABLES bucket,     \* the counter of checkRateLimit
          taken       \* by call: its verdict

detailVars == <<record, lock, dropping, reader, settled, putBack, blind>>
fetchVars == <<fetch, inflight, threw>>
takeVars == <<bucket, taken>>
cacheVars == <<detailVars, entry, available, expiries, losses, fetchVars, takeVars>>

Missing == -1
NoFetch == "none"
Unasked == [pc |-> "idle", got |-> Missing, floor |-> 0, overtaken |-> FALSE]

CacheInit ==
    /\ record \in {0, 1}
    /\ entry = Missing
    /\ lock = FALSE
    /\ available = TRUE
    /\ dropping = {}
    /\ reader = [r \in Readers |-> Unasked]
    /\ settled = 0 /\ putBack = FALSE /\ blind = 0
    /\ expiries = 0 /\ losses = 0
    /\ fetch = [f \in Fetches |-> [pc |-> "idle", guarded |-> FALSE]]
    /\ inflight = NoFetch
    /\ threw = {}
    /\ bucket = [count |-> 0, granted |-> 0, ticking |-> FALSE]
    /\ taken = [t \in Takers |-> "none"]

-----------------------------------------------------------------------------
(* Redis and the connection to it *)

\* Nothing has expired or failed too often yet.
Spare == expiries + losses < MaxTroubles

\* A command that reaches Redis, or one that does not.
Reaches == available /\ UNCHANGED losses
Fails == \/ ~available /\ UNCHANGED losses
         \/ available /\ Spare /\ losses' = losses + 1

Unreachable ==
    /\ available /\ Spare
    /\ available' = FALSE
    /\ losses' = losses + 1
    /\ UNCHANGED <<detailVars, entry, expiries, fetchVars, takeVars>>

Reconnected ==
    /\ ~available
    /\ available' = TRUE
    /\ UNCHANGED <<detailVars, entry, expiries, losses, fetchVars, takeVars>>

EntryExpires ==
    /\ entry # Missing /\ Spare
    /\ entry' = Missing
    /\ expiries' = expiries + 1
    /\ UNCHANGED <<detailVars, available, losses, fetchVars, takeVars>>

LockExpires ==
    /\ lock /\ Spare
    /\ lock' = FALSE
    /\ expiries' = expiries + 1
    /\ UNCHANGED <<record, dropping, reader, settled, putBack, blind, entry, available,
                   losses, fetchVars, takeVars>>

-----------------------------------------------------------------------------
(* The pool's row, and who drops its key *)

\* The indexer writes the row, and leaves the key alone.
Project ==
    /\ record < MaxRecord
    /\ record' = record + 1
    /\ UNCHANGED <<lock, dropping, reader, settled, putBack, blind, entry, available, expiries,
                   losses, fetchVars, takeVars>>

\* handlePoolStateUpdate: the row first. A pool not indexed yet is passed over.
PatchRow ==
    /\ "stream" \notin dropping
    /\ record < MaxRecord
    /\ record' = IF record = 0 THEN 0 ELSE record + 1
    /\ dropping' = dropping \cup {"stream"}
    /\ UNCHANGED <<lock, reader, settled, putBack, blind, entry, available, expiries, losses,
                   fetchVars, takeVars>>

\* A mint or burn that passed its checks and found the pool. It changes no row.
MutationFinds ==
    /\ "liquidity" \notin dropping
    /\ record > 0
    /\ dropping' = dropping \cup {"liquidity"}
    /\ UNCHANGED <<record, lock, reader, settled, putBack, blind, entry, available, expiries,
                   losses, fetchVars, takeVars>>

\* A deletion of another key.
DroppedElsewhere == entry

\* What a deletion leaves of the key.
Dropped == Missing

\* CacheService.del: a failure is swallowed.
Drop(who) ==
    /\ who \in dropping
    /\ dropping' = dropping \ {who}
    /\ \/ /\ Reaches
          /\ entry' = Dropped
          /\ settled' = record
          /\ putBack' = FALSE
          /\ reader' = [r \in Readers |-> [reader[r] EXCEPT !.overtaken = @ \/ reader[r].pc = "fill"]]
       \/ Fails /\ UNCHANGED <<entry, settled, putBack, reader>>
    /\ UNCHANGED <<record, lock, blind, available, expiries, fetchVars, takeVars>>

-----------------------------------------------------------------------------
(* GET /pools/:id *)

Step(r, state) == reader' = [reader EXCEPT ![r] = state]

\* The oldest version an answer to a request that begins now may have.
Oldest == IF settled = 0 /\ record > 0 THEN 1 ELSE settled

\* CacheService.get answers null for a miss, a failure and an unreachable Redis.
Look(r, missed) ==
    /\ \/ /\ Reaches
          /\ Step(r, IF entry # Missing THEN [missed EXCEPT !.pc = "served", !.got = entry,
                                                             !.overtaken = putBack]
                  ELSE missed)
       \/ Fails /\ Step(r, missed)
    /\ UNCHANGED <<record, lock, dropping, settled, putBack, blind, entry, available, expiries,
                   fetchVars, takeVars>>

GetPool(r) ==
    /\ reader[r].pc = "idle"
    /\ Look(r, [reader[r] EXCEPT !.pc = "lock", !.floor = Oldest])

\* A caller who does not ask for the lock's answer.
Unrefused(state) == [state EXCEPT !.pc = "find"]

\* What a caller who met a lock does: it waits for its release.
Refused(state) == [state EXCEPT !.pc = "wait"]

\* acquireSingleflightLock: set if absent, and true when Redis does not answer.
Acquire(r) ==
    /\ reader[r].pc = "lock"
    /\ \/ /\ Reaches
          /\ lock' = TRUE
          /\ Step(r, IF lock THEN Refused(reader[r])
                     ELSE [reader[r] EXCEPT !.pc = "find"])
          /\ UNCHANGED blind
       \/ /\ Fails
          /\ Step(r, [reader[r] EXCEPT !.pc = "find"])
          /\ blind' = blind + 1
          /\ UNCHANGED lock
    /\ UNCHANGED <<record, dropping, settled, putBack, entry, available, expiries, fetchVars,
                   takeVars>>

\* findPoolById: the row, none, or the database fails.
Find(r) ==
    /\ reader[r].pc = "find"
    /\ \E next \in {IF record > 0 THEN "fill" ELSE "release", "fail"} :
          Step(r, [reader[r] EXCEPT !.pc = next, !.got = IF next = "fail" THEN Missing ELSE record])
    /\ UNCHANGED <<record, lock, dropping, settled, putBack, blind, entry, available, expiries,
                   losses, fetchVars, takeVars>>

\* CacheService.set: a failure is swallowed.
Fill(r) ==
    /\ reader[r].pc = "fill"
    /\ Step(r, [reader[r] EXCEPT !.pc = "release", !.overtaken = FALSE])
    /\ \/ /\ Reaches
          /\ entry' = reader[r].got
          /\ putBack' = reader[r].overtaken
       \/ Fails /\ UNCHANGED <<entry, putBack>>
    /\ UNCHANGED <<record, lock, dropping, settled, blind, available, expiries, fetchVars,
                   takeVars>>

\* releaseSingleflightLock deletes the lock, whoever holds it by now.
Release(r) ==
    /\ reader[r].pc \in {"release", "fail"}
    /\ Step(r, [reader[r] EXCEPT !.pc = IF @ = "fail" THEN "failed" ELSE "served"])
    /\ \/ Reaches /\ lock' = FALSE
       \/ Fails /\ UNCHANGED lock
    /\ UNCHANGED <<record, dropping, settled, putBack, blind, entry, available, expiries,
                   fetchVars, takeVars>>

\* waitForSingleflightLock: the lock is gone, or a second has passed.
WaitEnds(r) ==
    /\ reader[r].pc = "wait"
    /\ \E next \in {"again", "direct"} :
          /\ next = "again" => ~lock \/ ~available
          /\ Step(r, [reader[r] EXCEPT !.pc = next])
    /\ UNCHANGED <<record, lock, dropping, settled, putBack, blind, entry, available, expiries,
                   losses, fetchVars, takeVars>>

GetAgain(r) ==
    /\ reader[r].pc = "again"
    /\ Look(r, [reader[r] EXCEPT !.pc = "direct"])

\* The fallback: past the lock and the cache.
FindDirect(r) ==
    /\ reader[r].pc = "direct"
    /\ \/ Step(r, [reader[r] EXCEPT !.pc = "served", !.got = record])
       \/ Step(r, [reader[r] EXCEPT !.pc = "failed"])
    /\ UNCHANGED <<record, lock, dropping, settled, putBack, blind, entry, available, expiries,
                   losses, fetchVars, takeVars>>

DetailNext ==
    \/ Unreachable \/ Reconnected \/ EntryExpires \/ LockExpires
    \/ Project \/ PatchRow \/ MutationFinds
    \/ \E who \in {"stream", "liquidity"} : Drop(who)
    \/ \E r \in Readers : \/ GetPool(r) \/ Acquire(r) \/ Find(r) \/ Fill(r) \/ Release(r)
                          \/ WaitEnds(r) \/ GetAgain(r) \/ FindDirect(r)

-----------------------------------------------------------------------------
(* getOrFetch: concurrent misses share one fetch *)

Move(f, state) == fetch' = [fetch EXCEPT ![f].pc = state]
Failure(f) == IF fetch[f].guarded THEN "CacheError" ELSE "error"

\* failClosed refuses when Redis is known to be away; get is awaited otherwise.
CallFetch(f, guarded) ==
    /\ fetch[f].pc = "idle"
    /\ fetch' = [fetch EXCEPT ![f] =
           [pc |-> IF guarded /\ ~available THEN "CacheError" ELSE "get", guarded |-> guarded]]
    /\ UNCHANGED <<detailVars, entry, available, expiries, losses, inflight, threw, takeVars>>

\* Redis answers the read. The call goes on later: see Coalesce.
ReadCached(f) ==
    /\ fetch[f].pc = "get"
    /\ \/ Reaches /\ Move(f, IF entry # Missing THEN "value" ELSE "missed")
       \/ Fails /\ Move(f, "missed")
    /\ UNCHANGED <<detailVars, entry, available, expiries, inflight, threw, takeVars>>

\* Every miss fetches.
FetchAlways == FALSE

\* The map has a promise for the key.
Coalescing == inflight # NoFetch

\* The promise in the map is returned as it is, settled or not.
Coalesce(f) ==
    /\ fetch[f].pc = "missed"
    /\ Coalescing
    /\ Move(f, IF inflight \in threw THEN fetch[inflight].pc ELSE "joined")
    /\ UNCHANGED <<detailVars, entry, available, expiries, losses, inflight, threw, takeVars>>

\* The fetcher runs up to its first await before the promise is in the map. One
\* that throws by then has deleted the entry before it is set.
StartFetch(f) ==
    /\ fetch[f].pc = "missed"
    /\ ~Coalescing
    /\ inflight' = f
    /\ \/ Move(f, "fetch") /\ UNCHANGED threw
       \/ Move(f, Failure(f)) /\ threw' = threw \cup {f}
    /\ UNCHANGED <<detailVars, entry, available, expiries, losses, takeVars>>

\* The promise settles: who awaits it has its outcome.
Settles(f, outcome) ==
    /\ fetch' = [g \in Fetches |-> IF g = f \/ (fetch[g].pc = "joined" /\ inflight = f)
                                   THEN [fetch[g] EXCEPT !.pc = outcome] ELSE fetch[g]]
    /\ inflight' = NoFetch

FetcherReturns(f) ==
    /\ fetch[f].pc = "fetch"
    /\ \/ Move(f, "set") /\ UNCHANGED inflight
       \/ Settles(f, Failure(f))
    /\ UNCHANGED <<detailVars, entry, available, expiries, losses, threw, takeVars>>

StoreFetched(f) ==
    /\ fetch[f].pc = "set"
    /\ \/ Reaches /\ entry' = record
       \/ Fails /\ UNCHANGED entry
    /\ Settles(f, "value")
    /\ UNCHANGED <<detailVars, available, expiries, threw, takeVars>>

FetchNext ==
    \/ Unreachable \/ Reconnected \/ EntryExpires
    \/ \E f \in Fetches : \/ \E guarded \in BOOLEAN : CallFetch(f, guarded)
                          \/ ReadCached(f) \/ Coalesce(f) \/ StartFetch(f)
                          \/ FetcherReturns(f) \/ StoreFetched(f)

-----------------------------------------------------------------------------
(* checkRateLimit: INCR, EXPIRE and TTL in one script *)

\* The count before this call, against the limit.
WithinBefore(count) == count - 1 <= Budget

\* count <= limit
Within(count) == count <= Budget

\* The script's answer may be lost after it ran; failClosed decides then, too.
Take(t, guarded) ==
    /\ taken[t] = "none"
    /\ \E counted, answered \in BOOLEAN :
          /\ answered => counted
          /\ IF answered THEN Reaches ELSE Fails
          /\ counted => available
          /\ LET count == bucket.count + (IF counted THEN 1 ELSE 0)
                 verdict == IF ~answered THEN IF guarded THEN "unavailable" ELSE "open"
                            ELSE IF Within(count) THEN "allowed" ELSE "limited"
             IN /\ taken' = [taken EXCEPT ![t] = verdict]
                /\ bucket' = [count |-> count, ticking |-> bucket.ticking \/ counted,
                              granted |-> bucket.granted + (IF verdict = "allowed" THEN 1 ELSE 0)]
    /\ UNCHANGED <<detailVars, entry, available, expiries, fetchVars>>

BucketExpires ==
    /\ bucket.ticking /\ Spare
    /\ expiries' = expiries + 1
    /\ bucket' = [count |-> 0, granted |-> 0, ticking |-> FALSE]
    /\ UNCHANGED <<detailVars, entry, available, losses, fetchVars, taken>>

TakeNext ==
    \/ Unreachable \/ Reconnected \/ BucketExpires
    \/ \E t \in Takers, guarded \in BOOLEAN : Take(t, guarded)

-----------------------------------------------------------------------------
CacheTypeOK ==
    /\ record \in 0..MaxRecord /\ settled \in 0..MaxRecord /\ entry \in Missing..MaxRecord
    /\ {lock, available, putBack} \subseteq BOOLEAN
    /\ dropping \subseteq {"stream", "liquidity"}
    /\ {blind, expiries, losses} \subseteq Nat
    /\ reader \in [Readers -> [pc : {"idle", "lock", "find", "fill", "release", "fail", "wait",
                                     "again", "direct", "served", "failed"},
                               got : Missing..MaxRecord, floor : 0..MaxRecord,
                               overtaken : BOOLEAN]]
    /\ fetch \in [Fetches -> [pc : {"idle", "get", "missed", "fetch", "set", "joined", "value",
                                    "CacheError", "error"}, guarded : BOOLEAN]]
    /\ inflight \in Fetches \cup {NoFetch} /\ threw \subseteq Fetches
    /\ bucket \in [count : Nat, granted : Nat, ticking : BOOLEAN]
    /\ taken \in [Takers -> {"none", "allowed", "limited", "open", "unavailable"}]

\* A request that began when the key had been deleted is answered with the row
\* as it was then or later, unless a load that the deletion overtook put an
\* older one back; and with 404 only if the pool was not indexed when it began
\* (getPoolById and handlePoolStateUpdate).
AnswersCurrent ==
    \A r \in Readers : reader[r].pc = "served" =>
        reader[r].got >= reader[r].floor \/ (reader[r].overtaken /\ reader[r].got > 0)

\* One request loads the pool: a lock that expires or a Redis that does not answer
\* lets in one more, also when a release then deletes a lock that is not its
\* own (getPoolById, the lock of five seconds).
FewLoad ==
    Cardinality({r \in Readers : reader[r].pc \in {"find", "fill", "release", "fail"}})
        <= 1 + expiries + blind

\* At most one fetch of a key runs. The promise in the map is that one's, so
\* whoever joined it is answered, or it is of a fetcher that threw before its
\* first await and then stays for good (getOrFetch).
OneFetch ==
    LET running == {f \in Fetches : fetch[f].pc \in {"fetch", "set"}}
    IN /\ running \subseteq {inflight}
       /\ inflight # NoFetch => inflight \in running \cup threw
       /\ (\E f \in Fetches : fetch[f].pc = "joined") => running # {}

\* No more callers than the limit are told they are within it, however many ask
\* at once and whatever answers are lost, and no counter outlives its window
\* (checkRateLimit).
BudgetKept == bucket.granted <= Budget /\ (bucket.count > 0 => bucket.ticking)

CacheKeeps == AnswersCurrent /\ FewLoad /\ OneFetch /\ BudgetKept
=============================================================================
