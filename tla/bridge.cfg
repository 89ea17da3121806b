SPECIFICATION FairSpec
CONSTANTS
    home = home
    cabin = cabin
    k1 = k1
    k2 = k2
    Servers = {home, cabin}
    Clients = {k1, k2}
    Results = {"ok"}
    MaxRequests = 2
    MaxDials = 2
INVARIANTS TypeOK AgentsAreRead PendingMatchesWaiters
PROPERTIES KeepsPromise AnsweredUnlessWedged
CHECK_DEADLOCK FALSE
