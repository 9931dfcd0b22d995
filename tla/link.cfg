\* Characters of the real format, back to back and apart, a receiver whose clock is a little slow, and lateness up to the margin.
SPECIFICATION FairSpec
CONSTANTS
    Bits = 8
    Bytes <- SomeBytes
    Period = 40
    RxPeriod = 41
    TxLate = 2
    RxLate = 1
    IrqLate = 2
    MaxChars = 2
INVARIANTS LinkInv
PROPERTY IsByteChannel
CHECK_DEADLOCK FALSE
