SPECIFICATION Spec
CONSTANTS
    NMessages = 2
    MaxDeaths = 1
    Budget = 1
    Routes <- ReceiptRoutes
    ReceiptsConfigured = FALSE
    ObserveModes <- BothModes
    Checkpointed = TRUE
INVARIANTS
    TypeOK
    CursorSafety
    RepeatsNeedDeaths
    RowsAreAudited
    NotDroppedSilently
    BudgetHolds
PROPERTIES
    NothingAfterRow
    KeepsPromise
