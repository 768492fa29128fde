SPECIFICATION Spec
CONSTANTS
    NMessages = 1
    Old <- NoneOld
    NDays = 1
    MaxEvents = 0
    Budget = 1
    Sessions <- OneAtATime
    Limit = 2
    PageSize = 1
INVARIANTS
    NeverDoubleProcessed
CHECK_DEADLOCK FALSE
