\* Two replicas, a crash, a failing statement, a manual retry, the removal; and
\* two runs of the alerts' job, two owners, two calls of them, a mishap, two days.
SPECIFICATION ClientsSpec
CONSTANTS
    Jobs = {j1, j2}
    Replicas = {w1, w2}
    MaxFails = 2
    MaxAttempts = 2
    MaxRetries = 1
    MaxFaults = 1
    MaxCrashes = 1
    AlertOwners = {o1, o2}
    Checkers = {k1, k2}
    TvlValues = {1, 2}
    MaxDays = 1
    MaxChecks = 2
    MaxEdits = 2
    MaxMishaps = 1
    Addresses = {g1}
    PricePools = {p1, p2, p3}
    WalletSubs = 2
    AnonSubs = 1
    LastHour = 1
    FormTokens = {ta, tb}
    MaxAmount = 2
    Reserve = 3
    Held = 1
    SlippageTexts = {4, 50001}
    RecentMax = 1
    MaxMoves = 5
    MaxClicks = 2
    Owners = {g1, g2}
    Hooks = {h1, h2}
    LpPools = {lp1}
    MaxPages = 2
    MaxVisits = 4
    MaxOrders = 3
    Spacings = {1, 3}
    SelectorSpacing = 3
    CurrentTicks = {1}
    LastTick = 5
    HalfWidth = 1
    MaxDeposit = 2
    MaxAddMoves = 4
    MaxAdds = 2
    Percents = {50, 100}
    Liquidities = {4}
    MaxPanelMoves = 4
    MaxEnvelopes = 2
    RangeTicks = {0, 1, 3, 4}
    RangeSpacing = 2
    Positions = {p1, p2, p3}
    Tokens = {g1}
    MaxLoads = 3
    MaxOpened = 3
INVARIANTS
    AcceptedOnce
    DisabledByStreak
    AlertsHold
    AccessHolds
    ScreensHold
PROPERTIES
    PayloadAccounted
\* Every delivery is over.
CHECK_DEADLOCK FALSE
