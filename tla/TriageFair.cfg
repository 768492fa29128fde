SPECIFICATION FairSpec
CONSTANTS
    NMessages = 2
    MaxDeaths = 1
    Budget = 1
    Routes <- ReceiptRoutes
    ReceiptsConfigured = TRUE
    ObserveModes <- LiveOnly
    Checkpointed = TRUE
PROPERTIES
    EventuallySettled
