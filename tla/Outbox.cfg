SPECIFICATION FairCoreSpec
CONSTANTS
    Streams = {"_registry", "actions"}
    Registry = "_registry"
    NDefs = 1
    BatchLimit = 2
    MaxEvents = 3
    MaxCrashes = 1
    MaxForgets = 0
    MaxRestores = 0
    MaxClock = 1
INVARIANTS TypeOK PublishedInOrder DefinitionsQueued
PROPERTIES ImplementsEventLog
CHECK_DEADLOCK FALSE
