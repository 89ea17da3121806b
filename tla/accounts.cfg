SPECIFICATION Spec
CONSTANTS
    h1 = h1
    h2 = h2
    ann = ann
    bob = bob
    pw1 = pw1
    pw2 = pw2
    lamp = lamp
    Handlers = {h1, h2}
    Names = {ann, bob}
    Passwords = {pw1, pw2}
    Devices = {lamp}
    MaxRequests = 3
    MaxCrashes = 1
    MaxFailures = 1
INVARIANTS TypeOK   LoggedOutStaysOut OneAccountPerName OwnersAct
SYMMETRY Symmetry
CHECK_DEADLOCK FALSE
