\* Receive thread, message pump and remove around a ring of four.
SPECIFICATION Spec
CONSTANTS
    RX_RING_PACKETS = 4
    PACKET_SIZE_DWORD = 2
    MaxLost = 1
    MaxPackets = 7
    MaxMessages = 2
INVARIANTS RingInv RingHoldsNewest OneThread SleeperHasThread NoThreadAfterFree
CHECK_DEADLOCK FALSE
