\* One writer, and a transmit callback that runs on another CPU.
SPECIFICATION Spec
CONSTANTS
    p1 = p1  p2 = p2
    Bits = 1
    Procs <- OneProc
    Writers <- OneProc
    Readers <- NoProcs
    Closers <- NoProcs
    Bytes <- OneByte
    FifoSize = 2
    MaxCount = 1
    MaxTx = 2
    MaxRx = 0
    MaxDepth = 2
    Smp = TRUE
INVARIANT TxPumpArmed
CHECK_DEADLOCK FALSE
