SPECIFICATION Spec
CONSTANTS
    motion = motion
    door = door
    alarm = alarm
    w1 = w1
    w2 = w2
    Devices = {motion, door}
    Rules = {alarm}
    Watched <- MCWatched
    Workers = {w1, w2}
    MaxRetry = 1
    MaxReports = 2
    MaxEvents = 2
INVARIANTS TypeOK  StrangersUnheard
PROPERTIES AcceptedStays
SYMMETRY WorkerSymmetry
CHECK_DEADLOCK FALSE
