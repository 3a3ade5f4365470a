\* One paid job, two overlapping passes of its daemon, two faults.
SPECIFICATION Spec
CONSTANTS
    j1 = j1
    pr1 = pr1
    n1 = n1
    n2 = n2
    s1 = s1
    s2 = s2
    s3 = s3
    Null = Null
    Jobs = {j1}
    Paid = {j1}
    Providers = {pr1}
    PassIds = {n1, n2}
    Slots = {s1, s2, s3}
    Limit = 2
    MaxFaults = 2
SYMMETRY Symmetry
INVARIANTS
    CompletedWasRun
    BooksHold
PROPERTIES
    ImplementsContract
CHECK_DEADLOCK FALSE
