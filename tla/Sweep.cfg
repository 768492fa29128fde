SPECIFICATION Spec
CONSTANTS
    NMessages = 2
    Old <- OneOld
    NDays = 2
    MaxEvents = 1
    Budget = 1
    Sessions <- OneAtATime
    Limit = 2
    PageSize = 1
INVARIANTS
    TypeOK
    OverspendBounded
    OncePerProcess
    SkipsNeedDepartures
    OneAlertPerDayAndStart
CHECK_DEADLOCK FALSE
