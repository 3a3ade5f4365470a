\* Two commands, two overlapping passes of one key, one fault, under fairness.
SPECIFICATION FairSpec
CONSTANTS
    c1 = c1
    c2 = c2
    n1 = n1
    p1 = p1
    p2 = p2
    s1 = s1
    s2 = s2
    Null = Null
    Commands = {c1, c2}
    Nodes = {n1}
    PassIds = {p1, p2}
    Slots = {s1, s2}
    Limit = 2
    MaxFaults = 1
INVARIANTS
    CommandsAreTrue
PROPERTIES
    PendingIsClaimed
CHECK_DEADLOCK FALSE
