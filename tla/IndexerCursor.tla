--------------------------- MODULE IndexerCursor ---------------------------
(***************************************************************************)
(* The indexer's ledger checkpoint: IndexerCursorService                   *)
(* (apps/api/src/indexer/indexer-cursor.service.ts).                       *)
(*                                                                         *)
(* The checkpoint is kept twice.  Redis holds it under the key             *)
(* indexer:last_ledger (cacheLedger) and is raised with                    *)
(* CacheService.setMaxNumber; Postgres holds it in the row 'ledger' of     *)
(* indexer_cursor (dbLedger) and is written with a findUnique, a           *)
(* comparison in the process and an upsert.  Each of these is a round trip *)
(* of its own, so the calls of several callers interleave between them.    *)
(*                                                                         *)
(* cacheLedger  the Redis value, NoLedger when the key is absent           *)
(* dbLedger     the Postgres value, NoLedger when there is no row          *)
(* call         where each caller is in advanceLedger or getLastLedger     *)
(* requested    every ledger a call of advanceLedger was made with, now or *)
(*              by an earlier process: a history variable the properties   *)
(*              refer to                                                   *)
(* lapses       how often Redis lost the key or did not answer             *)
(***************************************************************************)
EXTENDS Integers

CONSTANTS
    Callers,    \* concurrent calls: the worker's slots and the poller's start
    Ledgers,    \* the ledger numbers that occur
    MaxLapses   \* bound: how often Redis loses the key or does not answer

ASSUME LedgersAssumption == Ledgers \subseteq Nat
ASSUME MaxLapsesAssumption == MaxLapses \in Nat

VARIABLES cacheLedger, dbLedger, call, requested, lapses

cursorVars == <<cacheLedger, dbLedger, call, requested, lapses>>

NoLedger == -1

Checkpoint == Ledgers \cup {NoLedger}

\* advanceLedger is "setMax", "find", "upsert"; getLastLedger is "get",
\* "getDb", "getSet" and "got", where ledger is the value it resolved to.
CallState ==
    [pc : {"setMax", "find", "upsert", "getSet"}, ledger : Ledgers]
        \cup [pc : {"idle", "get", "getDb", "got"}, ledger : Ledgers \cup {0}]

Idle == [pc |-> "idle", ledger |-> 0]

CursorTypeOK ==
    /\ cacheLedger \in Checkpoint
    /\ dbLedger \in Checkpoint
    /\ call \in [Callers -> CallState]
    /\ requested \subseteq Ledgers
    /\ lapses \in 0..MaxLapses

\* Both stores outlive the process, so it may start with a checkpoint in them.
CursorInit ==
    /\ dbLedger \in Checkpoint
    /\ cacheLedger = dbLedger
    /\ requested = {dbLedger} \ {NoLedger}
    /\ call = [c \in Callers |-> Idle]
    /\ lapses = 0

----------------------------------------------------------------------------
(* What the two stores do with the checkpoint.                             *)

Lapse == lapses < MaxLapses /\ lapses' = lapses + 1

Larger(a, b) == IF a > b THEN a ELSE b

\* CacheService.setMaxNumber: an atomic maximum.  It answers false and leaves
\* the key alone when Redis cannot be reached, and the caller goes on.
SetMaxNumber(ledger) ==
    \/ /\ cacheLedger' = Larger(cacheLedger, ledger)
       /\ UNCHANGED lapses
    \/ Lapse /\ UNCHANGED cacheLedger

At(c, pc) == call[c].pc = pc

Goto(c, pc) == call' = [call EXCEPT ![c].pc = pc]

Return(c) == call' = [call EXCEPT ![c] = Idle]

----------------------------------------------------------------------------
(* advanceLedger(ledger)                                                   *)

BeginAdvance(c, ledger) ==
    /\ At(c, "idle")
    /\ call' = [call EXCEPT ![c] = [pc |-> "setMax", ledger |-> ledger]]
    /\ requested' = requested \cup {ledger}
    /\ UNCHANGED <<cacheLedger, dbLedger, lapses>>

\* Mistake: Postgres is written first and Redis is left to the readers.
SetMaxLater(c) ==
    /\ At(c, "setMax")
    /\ Goto(c, "find")
    /\ UNCHANGED <<cacheLedger, dbLedger, requested, lapses>>

SetMax(c) ==
    /\ At(c, "setMax")
    /\ SetMaxNumber(call[c].ledger)
    /\ Goto(c, "find")
    /\ UNCHANGED <<dbLedger, requested>>

\* findUnique and the comparison: only a larger ledger goes on to the upsert.
FindCursor(c) ==
    /\ At(c, "find")
    /\ IF call[c].ledger > dbLedger THEN Goto(c, "upsert") ELSE Return(c)
    /\ UNCHANGED <<cacheLedger, dbLedger, requested, lapses>>

UpsertCursor(c) ==
    /\ At(c, "upsert")
    /\ dbLedger' = call[c].ledger
    /\ Return(c)
    /\ UNCHANGED <<cacheLedger, requested, lapses>>

\* Any of the three round trips throws: the error is logged and swallowed.
AdvanceFails(c) ==
    /\ call[c].pc \in {"setMax", "find", "upsert"}
    /\ Return(c)
    /\ UNCHANGED <<cacheLedger, dbLedger, requested, lapses>>

----------------------------------------------------------------------------
(* getLastLedger()                                                         *)

BeginGet(c) ==
    /\ At(c, "idle")
    /\ Goto(c, "get")
    /\ UNCHANGED <<cacheLedger, dbLedger, requested, lapses>>

\* cache.get answers null when the key is absent and when Redis is down.
ReadCache(c) ==
    /\ At(c, "get")
    /\ \/ /\ cacheLedger # NoLedger
          /\ call' = [call EXCEPT ![c] = [pc |-> "got", ledger |-> cacheLedger]]
          /\ UNCHANGED lapses
       \/ /\ cacheLedger = NoLedger
          /\ Goto(c, "getDb")
          /\ UNCHANGED lapses
       \/ Lapse /\ Goto(c, "getDb")
    /\ UNCHANGED <<cacheLedger, dbLedger, requested>>

ReadDb(c) ==
    /\ At(c, "getDb")
    /\ call' = [call EXCEPT ![c] =
                  IF dbLedger # NoLedger
                  THEN [pc |-> "getSet", ledger |-> dbLedger]
                  ELSE [pc |-> "got", ledger |-> 0]]
    /\ UNCHANGED <<cacheLedger, dbLedger, requested, lapses>>

\* Mistake: Redis is warmed with a plain SET.
WarmCacheOver(c) ==
    /\ At(c, "getSet")
    /\ cacheLedger' = call[c].ledger
    /\ Goto(c, "got")
    /\ UNCHANGED <<dbLedger, requested, lapses>>

\* Mistake: Redis is given the ledger to resume from, not the last one.
WarmCacheNext(c) ==
    /\ At(c, "getSet")
    /\ SetMaxNumber(call[c].ledger + 1)
    /\ Goto(c, "got")
    /\ UNCHANGED <<dbLedger, requested>>

WarmCache(c) ==
    /\ At(c, "getSet")
    /\ SetMaxNumber(call[c].ledger)
    /\ Goto(c, "got")
    /\ UNCHANGED <<dbLedger, requested>>

\* findUnique or setMaxNumber throws: the caller gets 0, even when the row
\* was read.
GetFails(c) ==
    /\ call[c].pc \in {"getDb", "getSet"}
    /\ call' = [call EXCEPT ![c] = [pc |-> "got", ledger |-> 0]]
    /\ UNCHANGED <<cacheLedger, dbLedger, requested, lapses>>

UseResult(c) ==
    /\ At(c, "got")
    /\ Return(c)
    /\ UNCHANGED <<cacheLedger, dbLedger, requested, lapses>>

----------------------------------------------------------------------------
(* The environment                                                         *)

\* Redis restarts without its data, or evicts the key.
WipeCache ==
    /\ Lapse
    /\ cacheLedger' = NoLedger
    /\ UNCHANGED <<dbLedger, call, requested>>

\* The process dies: every call in flight is gone, the two stores stay.
CrashCalls ==
    /\ call' = [c \in Callers |-> Idle]
    /\ UNCHANGED <<cacheLedger, dbLedger, requested, lapses>>

\* One step of a call that has begun.
CallStep(c) ==
    \/ SetMax(c) \/ FindCursor(c) \/ UpsertCursor(c) \/ AdvanceFails(c)
    \/ ReadCache(c) \/ ReadDb(c) \/ WarmCache(c) \/ GetFails(c)

CursorNext ==
    \/ \E c \in Callers :
         \/ \E ledger \in Ledgers : BeginAdvance(c, ledger)
         \/ BeginGet(c)
         \/ CallStep(c)
         \/ UseResult(c)
    \/ WipeCache
    \/ CrashCalls

CursorSpec == CursorInit /\ [][CursorNext]_cursorVars

----------------------------------------------------------------------------
(* Properties                                                              *)

\* Neither store ever holds a ledger no advanceLedger call was made with, and
\* no call carries one towards a store: the checkpoint is never ahead of what
\* was handed to the cursor service, whatever fails, crashes or lapses.
NeverAhead ==
    /\ {cacheLedger, dbLedger} \subseteq requested \cup {NoLedger}
    /\ \A c \in Callers :
         call[c].pc \in {"setMax", "find", "upsert", "getSet"}
            => call[c].ledger \in requested

\* While Redis keeps its data and answers, it is never behind Postgres, since
\* advanceLedger raises it first: a reader that hits the cache is never sent
\* back behind the durable checkpoint.
CacheCoversDb == lapses = 0 => dbLedger <= cacheLedger

\* What the service promises its readers, as a specification of its own.
Promise == INSTANCE MaxRegister WITH value <- cacheLedger, offered <- requested

\* The Redis copy implements a register that, until Redis loses it, only rises,
\* and only to a ledger it was offered: "The value is monotonically increasing"
\* (docs/ARCHITECTURE.md:153).
ImplementsMaxRegister == Promise!RegisterSpec
=============================================================================
