SPECIFICATION Spec
CONSTANTS
    NMessages = 1
    MaxDeaths = 0
    MaxOutages = 0
    Delays = 2
INVARIANTS BaselineIsAtStart
CHECK_DEADLOCK FALSE
