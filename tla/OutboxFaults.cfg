SPECIFICATION FairSpec
CONSTANTS
    Streams = {"_registry", "actions"}
    Registry = "_registry"
    NDefs = 0
    BatchLimit = 2
    MaxEvents = 2
    MaxCrashes = 0
    MaxForgets = 1
    MaxRestores = 1
    MaxClock = 2
INVARIANTS NoEventLostUnrestored QueueOrdered
PROPERTIES OutboxDrains
CHECK_DEADLOCK FALSE
