\* Two daemons of one pass each, a paid and a chat job, pages of one job, one fault.
SPECIFICATION FairSpec
CONSTANTS
    j1 = j1
    j2 = j2
    pr1 = pr1
    pr2 = pr2
    n1 = n1
    s1 = s1
    s2 = s2
    Null = Null
    Jobs = {j1, j2}
    Paid = {j1}
    Providers = {pr1, pr2}
    PassIds = {n1}
    Slots = {s1, s2}
    Limit = 1
    MaxFaults = 1
INVARIANTS
    RunsOwnJobs

    
CHECK_DEADLOCK FALSE
