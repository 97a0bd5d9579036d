\* Two slots, failures, a crash, and Redis not answering once; or a shutdown.
SPECIFICATION PipelineSpec
CONSTANTS
    Callers = {starter, s1, s2}
    Starter = starter
    Ledgers = {1, 2}
    factory = factory
    pool = pool
    Accounts = {factory, pool}
    Configured = {factory}
    Stream <- ShortStory
    Backlog = 1
    PageSize = 2
    MaxAttempts = 2
    MaxStalled = 0
    MaxLapses = 1
    MaxFaults = 2
    MaxCrashes = 1
    MaxShutdowns = 1
INVARIANTS
    PagedMeansEnqueued
    DeadLetterIsFinal
    CheckpointPersisted
    EnqueuedNotLost
SYMMETRY SlotSymmetry
CONSTRAINT FewTroubles
