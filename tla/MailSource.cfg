SPECIFICATION FairSpec
CONSTANTS
    NMessages = 2
    MaxDeaths = 1
    MaxOutages = 1
    Delays = 2
INVARIANTS TypeOK BatchExact NoHistoryReplayed
PROPERTIES HandedOnce NeverFastAgain KeepsPromise FetchedUnlessDeaf
CHECK_DEADLOCK FALSE
