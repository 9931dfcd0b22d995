SPECIFICATION Spec
CONSTANTS
    Names = {n1}
    MaxRuns = 2
    MaxFaults = 0
INVARIANT DownDestroys
CHECK_DEADLOCK FALSE
