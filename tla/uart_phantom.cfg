\* A second opener writes before the first one has reset the indices.
SPECIFICATION Spec
CONSTANTS
    p1 = p1  p2 = p2
    Bits = 2
    Procs <- TwoProcs
    Writers <- OneProc
    Readers <- NoProcs
    Closers <- NoProcs
    Bytes <- OneByte
    FifoSize = 2
    MaxCount = 2
    MaxTx = 1
    MaxRx = 0
    MaxDepth = 3
    Smp = FALSE
INVARIANT OnlyQueuedSent
CHECK_DEADLOCK FALSE
