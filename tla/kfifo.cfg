\* Two processes that write, poll, open and close, one of which also reads, on fifos of two bytes.
SPECIFICATION FairSpec
CONSTANTS
    Users = {p1, p2}
    Readers = {p1}
    Writers = {p1, p2}
    FifoSize = 2
    MaxCount = 2
    MaxRx = 3
    MaxTx = 3
INVARIANTS FifoInv NoLostWakeup IrqFollowsOpen
PROPERTIES PumpRuns
CHECK_DEADLOCK FALSE
