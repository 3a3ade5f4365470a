\* Two jobs, up to two children, one token, one fault, under fairness.
SPECIFICATION FairSpec
CONSTANTS
    j1 = j1
    j2 = j2
    Null = Null
    Jobs = {j1, j2}
    c1 = c1
    c2 = c2
    Children = {c1, c2}
    Tokens = 1
    MaxFaults = 1
    Configs = {"auto", "http", "mojo"}
INVARIANTS
    NoLostWakeup
    AnswersAreTrue
    OneEngine
PROPERTIES
    WorkEnds
CHECK_DEADLOCK FALSE
