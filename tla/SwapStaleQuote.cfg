CONSTANTS
    Tokens = {"xlm", "usdc", "aqua"}
    Pools = {{"xlm", "usdc"}, {"xlm", "aqua"}}
    MaxTerms = 1
    MaxChanges = 5
    MaxEvents = 1
SPECIFICATION QuoteSpec
INVARIANT StaleQuoteHidden
CHECK_DEADLOCK FALSE
