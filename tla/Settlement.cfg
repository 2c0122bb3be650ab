CONSTANTS
    Winners <- MCWinners
    Payouts <- MCPayouts
    Price <- MCPrice
    Due <- MCDue
    Threshold = 1
    Seller = sel
    w1 = w1
    w2 = w2
    w3 = w3
    c1 = c1
    c2 = c2
    sel = sel
    TxSize = 2
    BatchSize = 2
    MaxFaults = 2
SPECIFICATION Spec
INVARIANTS
    SettledInFull
PROPERTIES
    EventuallyPaid
CHECK_DEADLOCK FALSE
