CONSTANTS
    \* oracle-adapter: a ring of three, an accumulator that saturates
    BufferSize = 3
    MaxCum = 20
    Prices <- TwoPrices
    MaxTime = 6
    \* cl-pool and position-nft
    Owners = {o1, o2}
    Ticks <- MCTicks
    One = 16
    TickUnits = 5
    Word = 4096
    FeeTier = 1
    FeeDenominator = 4
    MinTick <- MCMinTick
    MaxTick = 6
    OpeningPrice = 16
    MaxSwapIterations = 2
    Liquidities = {8, 16}
    Inputs = {6, 30}
    Limits = {3, 40}
    MaxPositions = 2
    MaxSwaps = 2
    \* sdk
    SdkPrices <- MCSdkPrices
    SdkAmounts = {0, 5, 12}
    \* pool
    PoolTicks <- MCTicks
    TickPrice <- MCTickPrice
    PoolOne = 16
    FeePart = 4
    PoolLiquidities = {1, 2}
    PoolInputs = {4}
    PoolLimits = {10, 20}
    PositionIds = {1, 2}
    PoolOpening = 16
    MaxGross = 3
    MaxMoves = 2
    \* pool-factory
    FactoryTokens = {1, 2, 3}
    FeeTiers = {500, 3000}
    Unsupported = 100
    Accounts = {a1, a2}
    Hashes = {h1}
    \* fee-collector
    FeePools = {p1, p2}
    FeeTokens = {t1}
    Collector = collector
    Treasury = treasury
    MaxFee = 2
    \* bitmap
    WordBits = 4
    Spacing = 2
    BitLow <- MCBitLow
    BitHigh = 11
    \* arithmetic
    MathWord = 256
    Scale = 10000
    Root = 100
    StepNum = 12
    StepDen = 10
    MathOne = 100
    LowTick <- MCLowTick
    HighTick = 8
    PriceWord = 400000000
    Probes <- MCProbes
    LibOne = 4
    LibLiquidities = {0, 3, 10}
    LibPrices = {0, 2, 5, 20, 90}
    LibInputs = {0, 1, 7, 30}
SPECIFICATION ContractsSpec
INVARIANT CrossingAppliesNet
CHECK_DEADLOCK FALSE
