SPECIFICATION Spec
CONSTANTS
    NMessages = 1
    MaxDeaths = 1
    Budget = 1
    Routes <- HarmlessRoutes
    ReceiptsConfigured = TRUE
    ObserveModes <- LiveOnly
    Checkpointed = FALSE
INVARIANTS
    EveryCallRecorded
