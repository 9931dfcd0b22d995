----------------------------- MODULE BitbangLink -----------------------------
(***************************************************************************)
(* Two bit-banged UARTs on one wire: the transmit callback of one end, the *)
(* interrupt handler and the receive callback of the other (uart.c), with  *)
(* the time between them.  Each end has its own bit period.  A timer's     *)
(* callback runs up to TxLate or RxLate after its expiry and the interrupt *)
(* handler up to IrqLate after the edge; Tick lets time pass and stops     *)
(* where one of them is due at the latest.  Times are relative to now:     *)
(* tx_due is how long it still is to the expiry, negative when late.       *)
(*                                                                         *)
(* Both devices are open and idle at the start, and the FIFOs are large    *)
(* enough; BitbangUart looks at sessions, system calls and full FIFOs.     *)
(***************************************************************************)
EXTENDS BitbangFrame, Sequences

CONSTANTS
    Bytes,              \* characters that are written
    Period, RxPeriod,   \* bit period of the sender and of the receiver
    TxLate, RxLate,     \* latest start of a callback after its expiry
    IrqLate,            \* latest start of the handler after the edge
    MaxChars            \* bound on the characters written

half_period == RxPeriod \div 2

\* How far the receiver's clock is behind the sender's after r bits.
Lag(r) == r * (RxPeriod - Period)

(***************************************************************************)
(* The sampling point stays inside its bit for all Bits + 3 bits the       *)
(* receiver samples: late enough for a late sender, early enough for its   *)
(* own lateness.                                                           *)
(***************************************************************************)
Margin ==
    \A r \in 0 .. Stop2Idx :
        /\ half_period + Lag(r) > TxLate
        /\ half_period + Lag(r) + TxLate + IrqLate + RxLate < Period

ASSUME LinkAssumption ==
    /\ Bytes \subseteq Byte
    /\ Period \in Nat \ {0} /\ RxPeriod \in Nat \ {0}
    /\ TxLate \in Nat /\ RxLate \in Nat /\ IrqLate \in Nat
    /\ MaxChars \in Nat

ASSUME MarginAssumption == Margin

VARIABLES
    line,                           \* the wire: tx_gpio here, rx_gpio there
    tx_fifo, tx_chr, tx_armed, tx_due,
    irq_pending, irq_age,           \* a falling edge not handled yet
    rx_chr, rx_armed, rx_due,
    rx_errs,                        \* rx_errs_start + _stop + _parity
    sent, received                  \* what was written and what can be read

txVars == <<tx_fifo, tx_chr, tx_armed, tx_due>>
irqVars == <<irq_pending, irq_age>>
rxVars == <<rx_chr, rx_armed, rx_due, rx_errs>>
vars == <<line, txVars, irqVars, rxVars, sent, received>>

Init ==
    /\ line = 1
    /\ tx_fifo = <<>> /\ sent = <<>> /\ received = <<>>
    /\ tx_chr = [idx |-> Idle, data |-> [i \in Pos |-> 0], parity |-> 0]
    /\ rx_chr = tx_chr
    /\ tx_armed = FALSE /\ tx_due = 0
    /\ irq_pending = FALSE /\ irq_age = 0
    /\ rx_armed = FALSE /\ rx_due = 0 /\ rx_errs = 0

-----------------------------------------------------------------------------
(* The sending end *)

\* bitbang_tx: queue a byte, and start the timer if it is not active.
bitbang_tx(b) ==
    /\ Len(sent) < MaxChars
    /\ tx_fifo' = Append(tx_fifo, b)
    /\ sent' = Append(sent, b)
    /\ tx_armed' = TRUE
    /\ tx_due' = IF tx_armed THEN tx_due ELSE Period
    /\ UNCHANGED <<line, tx_chr, irqVars, rxVars, received>>

\* hrtimer_forward by one period, and TXBIT; a falling edge raises the interrupt.
Drive(v) ==
    /\ tx_due' = tx_due + Period
    /\ line' = v
    /\ irq_pending' = (irq_pending \/ (line = 1 /\ v = 0))
    /\ irq_age' = IF line = 1 /\ v = 0 THEN 0 ELSE irq_age

TxExpired == tx_armed /\ tx_due <= 0

TxStartBit ==
    /\ TxExpired /\ tx_chr.idx = Idle /\ tx_fifo # <<>>
    /\ Drive(0)
    /\ tx_chr' = [idx |-> 0, data |-> Head(tx_fifo), parity |-> parity_even8(Head(tx_fifo))]
    /\ tx_fifo' = Tail(tx_fifo)
    /\ UNCHANGED <<tx_armed, rxVars, sent, received>>

TxFifoEmpty ==
    /\ TxExpired /\ tx_chr.idx = Idle /\ tx_fifo = <<>>
    /\ tx_armed' = FALSE /\ tx_due' = 0
    /\ UNCHANGED <<line, tx_fifo, tx_chr, irqVars, rxVars, sent, received>>

\* Data, parity and stop bits; after the last stop bit the index is -1 again.
TxNextBit ==
    /\ TxExpired /\ tx_chr.idx # Idle
    /\ Drive(TxBit(tx_chr.data, tx_chr.parity, tx_chr.idx))
    /\ tx_chr' = [tx_chr EXCEPT !.idx = IF @ = Stop2Idx THEN Idle ELSE @ + 1]
    /\ UNCHANGED <<tx_fifo, tx_armed, rxVars, sent, received>>

-----------------------------------------------------------------------------
(* The receiving end *)

\* An edge in the middle of a character is ignored, and so is a pin that has
\* risen again; otherwise the timer is started half a period ahead.
rx_irq_handler ==
    /\ irq_pending
    /\ irq_pending' = FALSE /\ irq_age' = 0
    /\ IF line = 0 /\ rx_chr.idx = Idle
       THEN rx_armed' = TRUE /\ rx_due' = half_period
       ELSE UNCHANGED <<rx_armed, rx_due>>
    /\ UNCHANGED <<line, txVars, rx_chr, rx_errs, sent, received>>

RxExpired == rx_armed /\ rx_due <= 0

\* Mutant of RxRestart: the next expiry counts from now, not from the last one.
RxRestartFromNow == rx_due' = RxPeriod /\ UNCHANGED rx_armed

\* The callback returns HRTIMER_RESTART or HRTIMER_NORESTART.
RxRestart == rx_due' = rx_due + RxPeriod /\ UNCHANGED rx_armed
RxNoRestart == rx_due' = 0 /\ rx_armed' = FALSE

RxStartBit ==
    /\ RxExpired /\ rx_chr.idx = Idle
    /\ IF line = 1
       THEN RxNoRestart /\ rx_errs' = rx_errs + 1 /\ UNCHANGED rx_chr
       ELSE RxRestart /\ rx_chr' = [rx_chr EXCEPT !.idx = 0] /\ UNCHANGED rx_errs
    /\ UNCHANGED <<line, txVars, irqVars, sent, received>>

RxDataBit ==
    /\ RxExpired /\ rx_chr.idx \in Pos
    /\ RxRestart
    /\ rx_chr' = [rx_chr EXCEPT !.data = INSERT_BIT(@, line), !.idx = @ + 1]
    /\ UNCHANGED <<line, txVars, irqVars, rx_errs, sent, received>>

RxParityBit ==
    /\ RxExpired /\ rx_chr.idx = ParityIdx
    /\ RxRestart
    /\ rx_chr' = [rx_chr EXCEPT !.parity = line, !.idx = @ + 1]
    /\ UNCHANGED <<line, txVars, irqVars, rx_errs, sent, received>>

\* Mutant of RxStopBit: the index is not set back after a correct character.
RxStopKeepsIdx ==
    /\ RxExpired /\ rx_chr.idx = StopIdx
    /\ RxNoRestart
    /\ IF line = 1 /\ parity_even8(rx_chr.data) = rx_chr.parity
       THEN received' = Append(received, rx_chr.data) /\ UNCHANGED <<rx_chr, rx_errs>>
       ELSE rx_errs' = rx_errs + 1 /\ rx_chr' = [rx_chr EXCEPT !.idx = Idle]
            /\ UNCHANGED received
    /\ UNCHANGED <<line, txVars, irqVars, sent>>

RxStopBit ==
    /\ RxExpired /\ rx_chr.idx = StopIdx
    /\ RxNoRestart
    /\ rx_chr' = [rx_chr EXCEPT !.idx = Idle]
    /\ IF line = 1 /\ parity_even8(rx_chr.data) = rx_chr.parity
       THEN received' = Append(received, rx_chr.data) /\ UNCHANGED rx_errs
       ELSE rx_errs' = rx_errs + 1 /\ UNCHANGED received
    /\ UNCHANGED <<line, txVars, irqVars, sent>>

-----------------------------------------------------------------------------
(* Time *)

Tick ==
    /\ tx_armed => tx_due > -TxLate
    /\ rx_armed => rx_due > -RxLate
    /\ irq_pending => irq_age < IrqLate
    /\ tx_armed \/ rx_armed \/ irq_pending
    /\ tx_due' = IF tx_armed THEN tx_due - 1 ELSE tx_due
    /\ rx_due' = IF rx_armed THEN rx_due - 1 ELSE rx_due
    /\ irq_age' = IF irq_pending THEN irq_age + 1 ELSE irq_age
    /\ UNCHANGED <<line, tx_fifo, tx_chr, tx_armed, irq_pending, rx_chr, rx_armed,
                   rx_errs, sent, received>>

tx_timer_cb == TxStartBit \/ TxFifoEmpty \/ TxNextBit
rx_timer_cb == RxStartBit \/ RxDataBit \/ RxParityBit \/ RxStopBit

Next ==
    \/ \E b \in Bytes : bitbang_tx(b)
    \/ tx_timer_cb \/ rx_irq_handler \/ rx_timer_cb
    \/ Tick

Spec == Init /\ [][Next]_vars

(***************************************************************************)
(* Time passes, expired timers run their callbacks and a pending interrupt *)
(* its handler; nobody has to write.                                       *)
(***************************************************************************)
FairSpec ==
    /\ Spec
    /\ WF_vars(Tick) /\ WF_vars(tx_timer_cb) /\ WF_vars(rx_irq_handler)
    /\ WF_vars(rx_timer_cb)

-----------------------------------------------------------------------------
(* Properties *)

(***************************************************************************)
(* Types, and the deadlines that Tick respects.                            *)
(***************************************************************************)
TypeOK ==
    /\ line \in Bit
    /\ tx_fifo \in Seq(Bytes) /\ sent \in Seq(Bytes) /\ received \in Seq(Byte)
    /\ tx_chr \in Chr(Stop2Idx) /\ rx_chr \in Chr(StopIdx)
    /\ tx_armed \in BOOLEAN /\ tx_due \in -TxLate .. Period
    /\ irq_pending \in BOOLEAN /\ irq_age \in 0 .. IrqLate
    /\ rx_armed \in BOOLEAN /\ rx_due \in Int /\ rx_due >= -RxLate
    /\ rx_errs \in Nat

\* The next frame bit the receiver samples, counting the start bit as 0; the
\* wire carries frame bit tx_chr.idx.
RxNext == rx_chr.idx + 1

\* A character has begun on the wire and its stop bit is not sampled yet.
InFlight == rx_armed \/ (irq_pending /\ tx_chr.idx = 0)

(***************************************************************************)
(* The receiver is on the bit the wire carries, ahead of the sender by the *)
(* half bit of rx_irq_handler plus what the edge and the handler were late *)
(* plus the drift; or it waits for the next bit.                           *)
(***************************************************************************)
InStep ==
    LET late == rx_due - tx_due - half_period - Lag(RxNext) IN
    \/ tx_chr.idx = RxNext /\ late + Period \in 0 .. TxLate + IrqLate
    \/ tx_chr.idx = RxNext - 1 /\ RxNext > 0 /\ late \in 0 .. TxLate + IrqLate

(***************************************************************************)
(* While the receive timer is armed the two ends are in step, so every     *)
(* sample falls into its bit; a pending edge belongs to the bit that is    *)
(* still on the wire, and not to the start bit once its handler has run;   *)
(* between characters the receiver is idle.                                *)
(***************************************************************************)
Synchronised ==
    /\ rx_armed => tx_armed /\ InStep
    /\ irq_pending => /\ line = 0 /\ tx_armed
                      /\ tx_due + irq_age \in Period - TxLate .. Period
    /\ irq_pending /\ rx_armed => tx_chr.idx > 0
    /\ ~rx_armed => rx_chr.idx = Idle
    /\ ~InFlight => tx_chr.idx \in {Idle, Stop2Idx}

(***************************************************************************)
(* No sample ever finds a wrong start bit, parity or stop bit: the error   *)
(* counters of rx_timer_cb stay 0.                                         *)
(***************************************************************************)
NoFramingErrors == rx_errs = 0

(***************************************************************************)
(* The wire carries the bit the sender's index says, and only an armed     *)
(* timer leaves a character unfinished (tx_timer_cb).                      *)
(***************************************************************************)
WireCarries ==
    /\ line = IF tx_chr.idx = Idle THEN 1
              ELSE TxBit(tx_chr.data, tx_chr.parity, tx_chr.idx - 1)
    /\ tx_chr.idx # Idle => tx_armed /\ tx_chr.parity = parity_even8(tx_chr.data)

(***************************************************************************)
(* The bits sampled so far are the lowest of the character on the wire, at *)
(* the top of rx_chr.data (INSERT_BIT).                                    *)
(***************************************************************************)
PartlyReceived ==
    rx_armed =>
        /\ rx_chr.idx <= Bits =>
              \A i \in Pos : i + rx_chr.idx >= Bits =>
                  rx_chr.data[i] = tx_chr.data[i + rx_chr.idx - Bits]
        /\ rx_chr.idx = StopIdx => /\ rx_chr.data = tx_chr.data
                                   /\ rx_chr.parity = tx_chr.parity

\* The characters received and the one on the wire.
Begun == IF InFlight THEN Append(received, tx_chr.data) ELSE received

(***************************************************************************)
(* Every byte written is received, on the wire, or still queued, in this   *)
(* order, and what the receiver has sampled belongs to the one on the      *)
(* wire: nothing is lost, repeated or mixed between bitbang_tx and the     *)
(* receive callback.                                                       *)
(***************************************************************************)
DataInTransit ==
    /\ PartlyReceived
    /\ sent = Begun \o tx_fifo

(***************************************************************************)
(* The receive callback samples every bit while the transmit callback's    *)
(* line carries it, counts no error, and every byte bitbang_tx accepted is *)
(* received, on the wire or queued.  The proofs use it as it stands: each  *)
(* part needs the others to be inductive.                                  *)
(***************************************************************************)
LinkInv ==
    TypeOK /\ Synchronised /\ WireCarries /\ DataInTransit /\ NoFramingErrors

Channel == INSTANCE ByteChannel WITH sent <- sent, received <- received

(***************************************************************************)
(* The two ends implement a reliable byte channel: bytes arrive unchanged, *)
(* in order and once, and every byte that bitbang_tx accepts arrives.      *)
(***************************************************************************)
IsByteChannel == Channel!Spec

\* The part of it that does not need fairness.
IsByteChannelSafe == Channel!Safe
=============================================================================
