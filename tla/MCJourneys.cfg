SPECIFICATION JourneysSpec
CONSTANTS
    \* pay
    Jobs = {j1}
    Null = Null
    MaxInvoices = 2
    MaxAsks = 2
    MaxHooks = 1
    MaxUpsets = 1
    \* login
    Users = {u1, u2}
    None = None
    MaxLogins = 1
    MaxPolls = 2
    MaxEdits = 1
    MaxSlips = 1
    \* page
    MaxSends = 2
    Tokens = 1
    MaxBreaks = 2
    \* routing
    Nodes = {n1}
    ChatModels = {m1}
    Heavy = {m1}
    Chosen = m1
    Clients = {c1}
    Slots = 1
    Disliked = {}
    Nothing = Nothing
    \* setup
    Owners = {u1}
    Urls = {w1, w2}
    DefaultUrl = w1
    Hosts <- MCHosts
    MaxKeys = 6
    MaxTurns = 1
    Absent = Absent
INVARIANTS
    JourneysTypeOK
    
PROPERTIES
    PaidIsRecorded
    LoginDelivers
    
    GoneModelFades
    SetupSettlesThere
CHECK_DEADLOCK FALSE
