\* Two writers that close and reopen while characters go out, on one CPU; the peer is silent.
SPECIFICATION FairSpec
CONSTANTS
    p1 = p1  p2 = p2
    Bits = 2
    Procs <- TwoProcs
    Writers <- TwoProcs
    Readers <- NoProcs
    Closers <- TwoProcs
    Bytes <- OneByte
    FifoSize = 2
    MaxCount = 2
    MaxTx = 3
    MaxRx = 0
    MaxDepth = 2
    Smp = FALSE
INVARIANTS TypeOK TxPumpArmed PinFollowsIndex CharsAccounted IrqFollowsOpen
PROPERTIES AcceptedIsSent WriterWakes
CHECK_DEADLOCK FALSE
