SPECIFICATION Spec
CONSTANTS
    Ops = {o1, o2}
    Names = {a, b}
    Drivers = {"minecraft", "valheim", "palworld"}
    None = None
    Junk = Junk
    Cut = Cut
    MaxAsks = 3
    MaxOutside = 2
    MaxCrashes = 1
INVARIANTS TypeOK  ChecksStillHold
CHECK_DEADLOCK FALSE
SYMMETRY OpSymmetry
