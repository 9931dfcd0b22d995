SPECIFICATION Spec
CONSTANTS
    Names = {n1, n2}
    MaxRuns = 4
    MaxFaults = 1
INVARIANTS LeftoverInv OwnNetwork NamespacesKeepRules
CHECK_DEADLOCK FALSE
