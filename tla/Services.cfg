CONSTANTS
    \* auth
    Nonces = {n1, n2}
    Requests = {r1, r2}
    MaxNonceAttempts = 2
    MaxSubmits = 3
    \* rate-limit
    Calls = {c1, c2}
    Rules = {"global", "endpoint"}
    Limit <- MCLimit
    MaxWindows = 1
    MaxRateFaults = 1
    \* price
    Watchers = {u1, u2}
    StreamPools = {p1, p2}
    MaxSubs <- MCMaxSubs
    MaxQueue = 3
    MaxDrops = 2
    \* candles
    CandlePools = {q1, q2}
    Runners = {w1, w2}
    SwapPrices = {1, 2}
    PerHour = 2
    MaxTrades = 3
    MaxRuns = 2
    MaxBreaks = 1
    \* admin
    Keys = {"old", "new"}
    AdminCalls = {a1}
    MaxWindow = 1
    LastInstant = 2
    MaxBoots = 2
    \* web
    Tokens = {"xlm", "usdc", "aqua"}
    Pools <- MCPools
    MaxTerms = 1
    MaxChanges = 4
    MaxEvents = 1
    ApiFlows = {"add", "remove"}
    MevFlows = {"swap"}
    MaxReloads = 1
    \* compression
    MinBytes = 2
    MaxBuffer = 3
    MaxChunks = 5
    \* paged reads
    Holders = {h1, h2}
    PageSize = 2
    MaxPositions = 3
    MaxRefreshes = 2
    Instants = {1, 2}
    MaxInserted = 4
    \* tokens
    Assets = {t1, t2}
    Passes = {s1, s2}
    MaxOutages = 1
    \* cache
    Readers = {g1, g2}
    Fetches = {f1, f2, f3}
    Takers = {b1, b2, b3}
    Budget = 1
    MaxRecord = 2
    MaxTroubles = 1
    \* direct ingest
    Deliveries = {d1, d2, d3}
    EventIds = {e1, e2}
    MaxSinkFaults = 1
    \* replay guard
    Operators = {x1, x2, x3}
    PerWindow = 1
    WindowMs = 2
    LastMoment = 5
    MaxReboots = 1
    \* checkpoint
    Callers = {cc1, cc2}
    Ledgers = {1, 2, 3}
    MaxLapses = 1
    \* chart
    Pairs = {"a", "b"}
    Steps = {1, 2}
    Rows = {4, 5}
    Clock = 7
    Window = 3
    Stamps = {TRUE, FALSE}
    MaxChoices = 3
    MaxLive = 2
    MaxCuts = 1
    \* account reads
    FeedCap = 2
    FeedLimit = 1
    MaxActivity = 3
    BulkCap = 1
    MaxBulk = 2
    HalfTicks = {2, 3}
    TokenRows = {t1, t2}
    MaxBalance = 2
    Listed = {1, 2, 3}
    ListLimit = 2
    MaxTvl = 1
    MaxListGets = 3
    MaxListEdits = 2
SPECIFICATION ServicesSpec
INVARIANTS ServicesTypeOK NonceSingleUse WindowKeepsLimit PricesTrue OperatorsHeld
           TradeShown ReadsHold RowsKept NeverAhead CacheCoversDb
PROPERTIES ImplementsMaxRegister
CHECK_DEADLOCK FALSE
