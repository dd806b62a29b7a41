SPECIFICATION Spec
CONSTANTS
    Ticks = {"t1"}
    Edits = {e1, e2}
    Stability = 1
    Cooldown = 2
    MaxClock = 3
    MaxEntries = 3
    MaxCrashes = 1
INVARIANTS TimersHoldAlone ScheduleFollowsRule
SYMMETRY EditSymmetry
CHECK_DEADLOCK FALSE
