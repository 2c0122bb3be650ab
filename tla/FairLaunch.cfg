CONSTANTS
    Buyers <- MCBuyers
    Prices <- MCPrices
    Whitelist <- MCWhitelist
    b1 = b1
    b2 = b2
    Tokens = 1
    ByteSize = 2
    ChunkBytes = 1
    Header = 1
    Modulo = 2
    MaxTries = 2
    MaxFaults = 2
    MaxAdjusts = 1
    MaxCommands = 4
SPECIFICATION Spec
INVARIANTS
    FairOutcome
    AllServed
    PaysMedian
PROPERTIES
    RefundsLosersOnly
CHECK_DEADLOCK FALSE
