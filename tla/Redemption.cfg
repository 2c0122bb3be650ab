CONSTANTS
    Outcomes <- MCOutcomes
    NumPlaces = 2
    Prints <- MCPrints
    Boxes <- MCBoxes
    Seller = Seller
    Absent <- MCAbsent
    b1 = b1
    b2 = b2
    a = a
    l = l
    Supply = 1
    MaxFaults = 1
SPECIFICATION Spec
INVARIANTS
    PrizesByPlace
    UndisturbedAccepted
PROPERTIES
    EventuallyServed
CHECK_DEADLOCK FALSE
