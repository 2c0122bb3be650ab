CONSTANTS
    a = a
    b = b
    c = c
    Wallets = {a, b, c}
    First = a
    Funded = {a, b, c}
    Listed = {a, b}
    Machines <- MCMachines
    Calls = {1, 2}
    Supply = 2
    MaxReads = 1
    MaxFaults = 1
    MaxSwitches = 1
SPECIFICATION MintSpec
INVARIANTS
    NeverPaidTwice
    SetupStands
PROPERTIES
    EventuallyServed
CHECK_DEADLOCK FALSE
