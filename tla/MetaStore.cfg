CONSTANTS
    Auctions <- MCAuctions
    BatchSize = 3
    MaxPulls = 2
    MaxReruns = 1
    MaxFaults = 1
    Fungible <- MCFungible
SPECIFICATION Spec
INVARIANTS
    PagesInOrder
PROPERTIES
    ShownKept
    EventuallyAllPages
CHECK_DEADLOCK FALSE
