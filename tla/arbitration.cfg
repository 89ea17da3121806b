SPECIFICATION Spec
CONSTANTS
    lamp = lamp
    fan = fan
    on = on
    dim = dim
    x = x
    y = y
    z = z
    w1 = w1
    w2 = w2
    none = none
    Workers = {w1, w2}
    Rules <- MCRules
    Digits <- MCDigits
    Devices = {lamp, fan}
    Keys = {on, dim}
    Values = {x, y, z}
    NoDevice = none
    Plans <- MCPlans
    MaxTasks = 2
    MaxChanges = 1
INVARIANTS TypeOK  AgreeOnTargets DrivenByActive
CHECK_DEADLOCK FALSE
