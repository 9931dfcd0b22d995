---------------------------- MODULE BitbangFrame ----------------------------
(***************************************************************************)
(* The character format of the bit-banged UART (openwrt/kernel/soft_uart/  *)
(* bitbang/uart.c): one start bit, Bits data bits least significant first, *)
(* an even parity bit and two stop bits.  The driver has Bits = 8; smaller *)
(* numbers keep instances small.  A character is the function from bit     *)
(* positions to bits that the u8 of the code stands for.                   *)
(***************************************************************************)
EXTENDS Integers, FiniteSets

CONSTANT Bits                  \* data bits of a character, 8 in the driver

ASSUME BitsAssumption == Bits \in 1 .. 8

Bit == {0, 1}
Pos == 0 .. Bits - 1
Byte == [Pos -> Bit]

(***************************************************************************)
(* x ^= x >> k, and the parity reduction that folds 8 bits into the lowest *)
(* by it.  With fewer than 8 data bits the missing ones count as 0.        *)
(***************************************************************************)
XorShift(x, k) == [i \in Pos |-> (x[i] + (IF i + k \in Pos THEN x[i + k] ELSE 0)) % 2]

parity_even8(x) == XorShift(XorShift(XorShift(x, 4), 2), 1)[0]

(***************************************************************************)
(* INSERT_BIT: shift right, the new bit enters at the top.                 *)
(***************************************************************************)
INSERT_BIT(b, v) == [i \in Pos |-> IF i = Bits - 1 THEN v ELSE b[i + 1]]

(***************************************************************************)
(* The values of bitbang_chr.idx.  Idle is both "between characters" and   *)
(* "the start bit is next".                                                *)
(***************************************************************************)
Idle      == -1
ParityIdx == Bits              \* case 8
StopIdx   == Bits + 1          \* case 9
Stop2Idx  == Bits + 2          \* case 10, transmitter only

\* Mutant of TxBit: the parity bit comes before the last data bit.
TxBitSwapped(b, par, idx) ==
    IF idx = Idle THEN 0
    ELSE IF idx < ParityIdx - 1 THEN b[idx]
    ELSE IF idx = ParityIdx - 1 THEN par
    ELSE IF idx = ParityIdx THEN b[Bits - 1]
    ELSE 1

\* struct bitbang_chr, with an index up to last.
Chr(last) == [idx : Idle .. last, data : Byte, parity : Bit]

(***************************************************************************)
(* What tx_timer_cb drives on the pin when it finds the index idx, given   *)
(* the character and its parity bit.                                       *)
(***************************************************************************)
TxBit(b, par, idx) ==
    IF idx = Idle THEN 0
    ELSE IF idx < ParityIdx THEN b[idx]
    ELSE IF idx = ParityIdx THEN par
    ELSE 1
=============================================================================
