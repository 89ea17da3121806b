SPECIFICATION FairSpec
CONSTANTS
    home = home
    cabin = cabin
    k1 = k1
    k2 = k2
    Servers = {home, cabin}
    Clients = {k1, k2}
    Results = {"ok"}
    MaxRequests = 2
    MaxDials = 2
PROPERTY EveryRequestEnds
CHECK_DEADLOCK FALSE
