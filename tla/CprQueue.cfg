\* One receipt with its handler, two drains, two attempts, one fault, under fairness.
SPECIFICATION FairSpec
CONSTANTS
    r1 = r1
    d1 = d1
    d2 = d2
    NoReceipt = NoReceipt
    Receipts = {r1}
    Drains = {d1, d2}
    Limit = 1
    MaxAttempts = 2
    MaxFaults = 1
INVARIANTS
    NotAbandoned
PROPERTIES
    Settles
CHECK_DEADLOCK FALSE
