\* No checkpoint yet: the poller starts from 'now'.
SPECIFICATION FairPipelineSpec
CONSTANTS
    Callers = {starter, s1}
    Starter = starter
    Ledgers = {1, 2}
    factory = factory
    pool = pool
    Accounts = {factory, pool}
    Configured = {factory}
    Stream <- PoolStory
    Backlog = 0
    PageSize = 2
    MaxAttempts = 2
    MaxStalled = 0
    MaxLapses = 0
    MaxFaults = 0
    MaxCrashes = 0
    MaxShutdowns = 0
PROPERTIES
    EventuallySettled
