----------------------------- MODULE MCSpiSlave -----------------------------
(***************************************************************************)
(* Small instances of SpiSlave for TLC.  The ring is a power of two, which *)
(* is what the mask of RXRING_ADVANCE needs.                               *)
(***************************************************************************)
EXTENDS SpiSlave

ASSUME PowerOfTwo == RX_RING_PACKETS \in {2, 4, 8}
=============================================================================
