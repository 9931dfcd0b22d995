\* Two readers, one of which closes and reopens in the middle of characters, and a peer that drives the receive pin as it likes.
SPECIFICATION Spec
CONSTANTS
    p1 = p1  p2 = p2
    Bits = 1
    Procs <- TwoProcs
    Writers <- NoProcs
    Readers <- TwoProcs
    Closers <- OneProc
    Bytes <- OneByte
    FifoSize = 2
    MaxCount = 2
    MaxTx = 0
    MaxRx = 3
    MaxDepth = 2
    Smp = FALSE
INVARIANTS NoLostWakeup RxFifoNewest RxNotDeaf
CHECK_DEADLOCK FALSE
