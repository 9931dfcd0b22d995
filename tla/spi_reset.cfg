\* The start of the thread resets the time of the last message.
SPECIFICATION Spec
CONSTANTS
    RX_RING_PACKETS = 4
    PACKET_SIZE_DWORD = 2
    MaxLost = 1
    MaxPackets = 7
    MaxMessages = 3
INVARIANT ClearsAfterPause
CHECK_DEADLOCK FALSE
