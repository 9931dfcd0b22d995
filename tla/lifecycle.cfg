\* Every probe failure, unbind, bind and unload, parameters in and out of range, and two processes that store periods.
SPECIFICATION Spec
CONSTANTS
    p1 = p1
    p2 = p2
    Storers <- TwoStorers
    Params = {0, 3, 4}
    Values = {1, 3, 4}
    PERIOD_MS = 2
    MaxPeriod = 3
SYMMETRY StorerSymmetry
INVARIANTS LifecycleInv PeriodSettles
