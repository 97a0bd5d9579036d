------------------------- MODULE MCIndexerPipeline -------------------------
EXTENDS IndexerPipeline, TLC

CONSTANTS factory, pool

\* The worker's slots are alike; the run that uses this checks invariants only.
SlotSymmetry == Permutations(Slots)

E(a, q, l, s) == [account |-> a, queue |-> q, pool |-> pool, ledger |-> l, shape |-> s]

\* At most two things go wrong in one history, of whatever kind; a shutdown comes
\* alone.
FewTroubles == faults + crashes + lapses + 2 * shutdowns <= 2

\* A pool is created in ledger 1; ledger 2 swaps in it and opens a position.
PoolStory == <<E(factory, "pool.created", 1, "complete"),
               E(pool, "swap.processed", 2, "complete"),
               E(pool, "position.minted", 2, "complete")>>

\* A pool is created in ledger 1 and swaps in ledger 2.
ShortStory == SubSeq(PoolStory, 1, 2)

\* After the creation: a burn with an empty field and a collect without recipient,
\* then a swap that carries no ledger.
OddStory == <<E(factory, "pool.created", 1, "complete"),
              E(pool, "position.burned", 2, "blank"),
              E(pool, "fees.collected", 2, "incomplete"),
              E(pool, "swap.processed", NoLedger, "complete")>>

\* The stories are such as a chain can tell.
ASSUME StoryAssumption == LedgersTogether /\ CreationsFirst
=============================================================================
