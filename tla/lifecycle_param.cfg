\* A module parameter above the largest period.
SPECIFICATION Spec
CONSTANTS
    p1 = p1
    p2 = p2
    Storers <- OneStorer
    Params = {4}
    Values = {1, 3, 4}
    PERIOD_MS = 2
    MaxPeriod = 3
INVARIANT PeriodInEffect
