\* One run of a daemon, two streams (one of which may open on it; both on NIM),
\* one token, batches of two, one fault, under fairness.
SPECIFICATION FairSpec
CONSTANTS
    r1 = r1
    a = a
    b = b
    k1 = k1
    k2 = k2
    Null = Null
    Runs = {r1}
    Streams = {a, b}
    Tails = {a}
    Slots = {k1, k2}
    Tokens = 1
    BatchMax = 2
    MaxFaults = 1

    
PROPERTIES
    InOrder
    EveryoneLeaves
CHECK_DEADLOCK FALSE
