\* Two overlapping passes, no fault at all.
SPECIFICATION Spec
CONSTANTS
    j1 = j1
    pr1 = pr1
    n1 = n1
    n2 = n2
    s1 = s1
    s2 = s2
    Null = Null
    Jobs = {j1}
    Paid = {j1}
    Providers = {pr1}
    PassIds = {n1, n2}
    Slots = {s1, s2}
    Limit = 2
    MaxFaults = 0
INVARIANTS
    AtMostOnePayout
CHECK_DEADLOCK FALSE
