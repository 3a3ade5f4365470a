SPECIFICATION PartsSpec
CONSTANTS
    \* links
    Accounts = {a1, a2}
    NodeKeys = {k1}
    Servers = {p1}
    Nobody = Nobody
    Window = 1
    CacheMax = 1
    MaxRequests = 2
    MaxCalls = 3
    MaxTime = 6
    \* payouts
    Nodes = {p1}
    Addresses = {w1}
    Nil = Nil
    MaxSets = 3
    MaxMishaps = 1
    \* payments
    Jobs = {j1}
    Null = Null
    MaxInvoices = 2
    MaxAsks = 2
    MaxHooks = 2
    MaxUpsets = 1
    \* sanitizer
    Names = {"t"}
    HoldBack = 3
    MaxText = 7
    MaxToken = 3
    \* readers
    Tokens = 2
    MaxPings = 1
    \* peers
    Providers = {p1, p2}
    PeerLimit = 1
    Seeds = 2
    MaxCrashes = 2
    \* models of the database
    Ids = {i1}
    NodeNames = {n1}
    JobIds = {j1}
    Callers = {c1, c2}
    No = No
    \* cloud machines
    Users = {u1, u2}
    Gpus = {g1, g2}
    KnownGpus = {g1}
    Prices = {1, 2}
    Offers = {o1, o2}
    Commands = {c1}
    PodLimit = 1
    MaxMachines = 1
    MaxShifts = 1
    MaxSlips = 1
    Unset = Unset
    \* setup
    Owners = {u1}
    Urls = {w1, w2}
    DefaultUrl = w1
    Hosts <- MCHosts
    MaxKeys = 6
    MaxTurns = 2
    Absent = Absent
INVARIANTS
    PartsTypeOK
    
    OneDefault
    
    OnlyTailIsHeld
    
    
    

    
    
    
CHECK_DEADLOCK FALSE
