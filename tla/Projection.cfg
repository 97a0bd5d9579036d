\* Two slots, a failing statement and a crash.
SPECIFICATION ProjectionSpec
CONSTANTS
    s1 = s1
    s2 = s2
    Slots = {s1, s2}
    Deliveries <- MCDeliveries
    MaxAttempts = 2
    MaxFaults = 1
    MaxCrashes = 1
INVARIANTS
    TokensBackfilled
    PricedSwapKept
    PositionNotDropped
    RowsMatchChain
SYMMETRY SlotSymmetry
\* Every job is over: nothing is left to do.
CHECK_DEADLOCK FALSE
