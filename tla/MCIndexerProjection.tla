------------------------- MODULE MCIndexerProjection -------------------------
EXTENDS IndexerProjection, TLC

CONSTANTS s1, s2

\* Slots are interchangeable; the runs that use this check invariants only.
SlotSymmetry == Permutations(Slots)

\* A pool is created and traded and a position of it closed, every event with two
\* jobs that are run in any order and side by side; and a pool and a position from
\* their first to their last event, in order.
MCDeliveries ==
    {[story |-> <<"created", "swap", "burned">>, copies |-> 2, ordered |-> FALSE],
     [story |-> <<"created", "swap", "minted", "reduced", "unpriced", "burned">>,
      copies |-> 1, ordered |-> TRUE]}
=============================================================================
