SPECIFICATION FairSpec
CONSTANTS
    Ops = {"a", "b"}
    MaxWorlds = 4
    MaxExternal = 1
    MaxCrashes = 1
INVARIANTS TypeOK WorldSurvives AllOrNothing SavedFirst ServesDataIfStopped
CHECK_DEADLOCK FALSE
 
