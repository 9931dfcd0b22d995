\* The thread queues a packet between the test and the sleep.
SPECIFICATION Spec
CONSTANTS
    RX_RING_PACKETS = 4
    PACKET_SIZE_DWORD = 2
    MaxLost = 1
    MaxPackets = 7
    MaxMessages = 3
INVARIANT NoSleepBesideData
CHECK_DEADLOCK FALSE
