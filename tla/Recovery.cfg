\* A shutdown in the middle of an odd stream, and the restart; and two requests
\* for a replay beside the worker, with failures and a crash.
SPECIFICATION RecoverySpec
CONSTANTS
    Callers = {starter, s1}
    Starter = starter
    Ledgers = {1, 2}
    factory = factory
    pool = pool
    Accounts = {factory, pool}
    Configured = {factory}
    Stream <- OddStory
    Backlog = 1
    PageSize = 2
    MaxAttempts = 2
    MaxStalled = 0
    MaxLapses = 0
    MaxFaults = 0
    MaxCrashes = 0
    MaxShutdowns = 1
    Troubled = {e1}
    Requests = {r1, r2}
    Keys = {k1}
    NoKey = NoKey
    MaxFailures = 2
    MaxHiccups = 2
    MaxDeaths = 1
INVARIANTS
    EventAccounted
    SharedExecution
PROPERTIES
    EventuallyIndexed
    EventuallyAnswered
CHECK_DEADLOCK FALSE
