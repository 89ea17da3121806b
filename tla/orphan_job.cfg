SPECIFICATION Spec
CONSTANTS
    d1 = d1
    d2 = d2
    t1 = t1
    t2 = t2
    n1 = n1
    n2 = n2
    u1 = u1
    u2 = u2
    h1 = h1
    h2 = h2
    Devices = {d1, d2}
    Crons = {t1, t2}
    Names = {n1, n2}
    Users = {u1}
    Handlers = {h1, h2}
    Conds <- MCConds
    Forms <- FewForms
    Patches <- FewPatches
    Overlap = TRUE
    MaxRequests = 2
    MaxCrashes = 0
    MaxFaults = 0
CHECK_DEADLOCK FALSE
INVARIANT OneJobPerSchedule
