\* An API that gives its events no time.
CONSTANTS
    Pairs = {"a", "b"}
    Steps = {1, 2}
    Rows = {4, 5}
    Clock = 7
    Window = 3
    Stamps = {FALSE}
    MaxChoices = 2
    MaxLive = 1
    MaxCuts = 1
SPECIFICATION ChartSpec
INVARIANTS ChartWellFormed
CHECK_DEADLOCK FALSE
