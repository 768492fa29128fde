SPECIFICATION Spec
CONSTANTS
    e1 = e1
    e2 = e2
    Editors <- Two
    NRules = 2
    Broken = Broken
PROPERTIES
    NeverRuleless
CHECK_DEADLOCK FALSE
