SPECIFICATION FairSpec
CONSTANTS
    DataBits = 2
    Bit = 4
    SenderBits = {3, 5}
    Late = 1
    RingSize = 3
    RingBytes = {1, 2}
    MaxChars = 2
    MaxCfg = 1
    MaxPuts = 7
INVARIANTS StartBitNoticed ReceiveInv
PROPERTIES CharacterEnds IsBoundedQueue
CHECK_DEADLOCK FALSE
