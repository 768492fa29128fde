SPECIFICATION Spec
CONSTANTS
    e1 = e1
    e2 = e2
    Editors <- Two
    NRules = 2
    Broken = Broken
SYMMETRY Symmetric
INVARIANTS
    TypeOK
    CurrentUnlessMissed
    AsAsked
CHECK_DEADLOCK FALSE
