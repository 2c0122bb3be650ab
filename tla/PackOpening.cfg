CONSTANTS
    NumItems = 2
    AccountChunk = 2
    CardChunk = 1
    SendChunk = 4
    MaxFaults = 1
    Allowed = 2
    RequestChunk = 1
    ClaimBatch = 1
    MarkSize = 2
    Calls = {1, 2}
    Links = {"voucher", "process"}
    MaxOthers = 1
SPECIFICATION Spec
INVARIANTS
    UndisturbedAccepted
    ShownAreClaimed
PROPERTIES
    EventuallyOpened
CHECK_DEADLOCK FALSE
