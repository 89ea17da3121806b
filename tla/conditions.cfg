SPECIFICATION Spec
CONSTANTS
    lamp = lamp
    meter = meter
    w1 = w1
    w2 = w2
    Trees <- MCTrees
    Devices = {lamp, meter}
    Keys = {"v"}
    Payloads <- MCPayloads
    Day = 3
    Workers = {w1, w2}
    MaxTicks = 2
    MaxReports = 2
    MaxFaults = 1
INVARIANTS TypeOK EvaluationIsRight 
SYMMETRY WorkerSymmetry
CHECK_DEADLOCK FALSE
