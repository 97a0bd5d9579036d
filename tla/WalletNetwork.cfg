CONSTANTS
    Networks = {"TESTNET", "PUBLIC"}
    Default = "TESTNET"
    Remembered = {}
    MaxOperations = 3
SPECIFICATION SessionSpec
INVARIANT StaleSessionDropped
CHECK_DEADLOCK FALSE
