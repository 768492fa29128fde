SPECIFICATION FairSpec
CONSTANTS
    p1 = p1
    p2 = p2
    r1 = r1
    Clients <- Three
    Pauses <- BothPauses
    BatchSize = 1
    MaxDeaths = 1
INVARIANTS
    TypeOK
    QueueExact
    AuditedPauseHolds
PROPERTIES
    ObeyedIsAudited
    StopStops
