SPECIFICATION Spec
CONSTANTS
    DataBits = 2
    Bit = 4
    SenderBits = {3, 4, 5}
    Late = 1
    RingSize = 3
    RingBytes = {1, 2}
    MaxChars = 2
    MaxCfg = 3
    MaxPuts = 7
INVARIANT
    FirstSampleIsData
CHECK_DEADLOCK FALSE
