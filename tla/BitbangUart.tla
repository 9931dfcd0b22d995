----------------------------- MODULE BitbangUart -----------------------------
(***************************************************************************)
(* The bit-banged UART character device (openwrt/kernel/soft_uart/bitbang, *)
(* uart.c and the file operations of bitbang-main.c) once it is probed:    *)
(* processes that open, read, write and close /dev/bitbang, the two FIFOs, *)
(* the transmit and the receive timer and the falling-edge interrupt.      *)
(*                                                                         *)
(* A system call is cut at the points where the code can be preempted with *)
(* an effect another actor sees: between two shared accesses that are not  *)
(* under one spin_lock_irqsave.  Timer callbacks and the interrupt handler *)
(* run to completion on a uniprocessor (the driver's target); with Smp the *)
(* transmit callback may still be running while other CPUs proceed, which  *)
(* is what hrtimer_active reports as active.                               *)
(***************************************************************************)
EXTENDS BitbangFrame, Sequences

CONSTANTS
    Procs,      \* processes that use the device, one descriptor each
    Writers,    \* those that call write
    Readers,    \* those that call read
    Closers,    \* those that close (and may open again)
    Bytes,      \* characters that are written
    FifoSize,   \* FIFO_SIZE
    MaxCount,   \* largest count of one read or write
    MaxTx,      \* bound: no new write once this many bytes were accepted
    MaxRx,      \* bound: the peer falls silent after this many characters
    MaxDepth,   \* bound on the disable depth of the interrupt
    Smp         \* several CPUs

ASSUME UartAssumption ==
    /\ IsFiniteSet(Procs)
    /\ Writers \subseteq Procs /\ Readers \subseteq Procs /\ Closers \subseteq Procs
    /\ Bytes \subseteq Byte
    /\ FifoSize \in Nat \ {0} /\ MaxCount \in Nat \ {0}
    /\ MaxTx \in Nat /\ MaxRx \in Nat /\ MaxDepth \in Nat \ {0}
    /\ Smp \in BOOLEAN

VARIABLES
    tx_fifo, tx_chr, tx_gpio,       \* queue, character being sent, pin
    tx_queued, tx_running,          \* the two halves of hrtimer_active
    tx_restart,                     \* what the running callback will return
    rx_fifo, rx_chr, rx_gpio,       \* queue, character being received, pin
    rx_queued, irq_pending,         \* receive timer armed, edge latched
    open_count, irq_depth, stats,
    pc, req,                        \* per process: place and count asked for
    accepted, taken, aborted, cut,  \* history of the transmit side
    received, overtaken             \* history of receive side and sessions

txVars   == <<tx_fifo, tx_chr, tx_gpio, tx_queued, tx_running, tx_restart>>
rxVars   == <<rx_fifo, rx_chr, rx_gpio, rx_queued, irq_pending>>
openVars == <<open_count, irq_depth>>
procVars == <<pc, req>>
histVars == <<accepted, taken, aborted, cut, received, overtaken>>
vars == <<txVars, rxVars, openVars, stats, procVars, histVars>>

Stat == {"tx_counter", "rx_counter", "rx_errs_start", "rx_errs_stop", "rx_errs_parity"}

Least(a, b) == IF a <= b THEN a ELSE b

\* Rising and falling edges left to the peer: it stops after MaxRx characters.
RxChars == stats["rx_counter"] + stats["rx_errs_start"]
           + stats["rx_errs_stop"] + stats["rx_errs_parity"]

\* On one CPU nothing runs while a timer callback does.
CpuFree == Smp \/ ~tx_running

hrtimer_active_tx == tx_queued \/ tx_running

Full(f) == Len(f) >= FifoSize

At(p, l) == pc[p] = l
Goto(p, l) == pc' = [pc EXCEPT ![p] = l]

\* The read or write of p goes on at l, or ends and forgets its count.
Step(p, l) == Goto(p, l) /\ UNCHANGED req
Return(p) == Goto(p, "opened") /\ req' = [req EXCEPT ![p] = 0]

\* Mutant of Wake: the wake_up_interruptible is missing.
WakeNobody(s, l) == UNCHANGED pc

\* wake_up_interruptible: every process asleep at place s looks again at l.
Wake(s, l) == pc' = [p \in Procs |-> IF pc[p] = s THEN l ELSE pc[p]]

(***************************************************************************)
(* devm_kzalloc leaves both indices 0, not -1: until the first open resets *)
(* them the structure looks as if a character of zeros were in progress,   *)
(* so the pin does not match the index (cut).                              *)
(***************************************************************************)
Init ==
    /\ tx_fifo = <<>> /\ rx_fifo = <<>>
    /\ tx_chr = [idx |-> 0, data |-> [i \in Pos |-> 0], parity |-> 0]
    /\ rx_chr = tx_chr
    /\ tx_gpio = 1 /\ rx_gpio = 1
    /\ tx_queued = FALSE /\ tx_running = FALSE /\ tx_restart = FALSE
    /\ rx_queued = FALSE /\ irq_pending = FALSE
    /\ open_count = 0 /\ irq_depth = 1
    /\ stats = [s \in Stat |-> 0]
    /\ pc = [p \in Procs |-> "closed"]
    /\ req = [p \in Procs |-> 0]
    /\ accepted = <<>> /\ taken = <<>> /\ aborted = 0 /\ cut = TRUE
    /\ received = <<>> /\ overtaken = FALSE

-----------------------------------------------------------------------------
(* open and close *)

\* atomic_fetch_add_unless; only the opener that found 0 initialises.
Open(p) ==
    /\ CpuFree /\ At(p, "closed")
    /\ open_count' = open_count + 1
    /\ IF open_count = 0
       THEN /\ Goto(p, "open_fifo")
            /\ overtaken' = (overtaken \/ \E q \in Procs : At(q, "close_irq"))
       ELSE /\ Goto(p, "opened")
            /\ UNCHANGED overtaken
    /\ UNCHANGED <<txVars, rxVars, irq_depth, stats, req,
                   accepted, taken, aborted, cut, received>>

OpenResetFifo(p) ==
    /\ CpuFree /\ At(p, "open_fifo")
    /\ rx_fifo' = <<>>
    /\ Goto(p, "open_idx")
    /\ UNCHANGED <<txVars, rx_chr, rx_gpio, rx_queued, irq_pending, openVars,
                   stats, req, histVars>>

\* Mutant of OpenResetIdx: the receive index is left as it was.
OpenKeepsRxIdx(p) ==
    /\ CpuFree /\ At(p, "open_idx")
    /\ tx_chr' = [tx_chr EXCEPT !.idx = Idle]
    /\ aborted' = IF tx_chr.idx = Idle THEN aborted ELSE aborted + 1
    /\ cut' = (tx_gpio = 0)
    /\ Goto(p, "open_irq")
    /\ UNCHANGED <<tx_fifo, tx_gpio, tx_queued, tx_running, tx_restart, rxVars,
                   openVars, stats, req, accepted, taken, received, overtaken>>

\* Both indices become -1 whatever the two timers are doing.
OpenResetIdx(p) ==
    /\ CpuFree /\ At(p, "open_idx")
    /\ tx_chr' = [tx_chr EXCEPT !.idx = Idle]
    /\ rx_chr' = [rx_chr EXCEPT !.idx = Idle]
    /\ aborted' = IF tx_chr.idx = Idle THEN aborted ELSE aborted + 1
    /\ cut' = (tx_gpio = 0)
    /\ Goto(p, "open_irq")
    /\ UNCHANGED <<tx_fifo, tx_gpio, tx_queued, tx_running, tx_restart, rx_fifo,
                   rx_gpio, rx_queued, irq_pending, openVars, stats, req,
                   accepted, taken, received, overtaken>>

\* enable_irq: an enable without a disable is only warned about.
OpenEnableIrq(p) ==
    /\ CpuFree /\ At(p, "open_irq")
    /\ irq_depth' = IF irq_depth = 0 THEN 0 ELSE irq_depth - 1
    /\ Goto(p, "opened")
    /\ UNCHANGED <<txVars, rxVars, open_count, stats, req, histVars>>

\* Mutant of Close: every close tears down, not only the last one.
CloseAlwaysLast(p) ==
    /\ CpuFree /\ p \in Closers /\ At(p, "opened")
    /\ irq_depth < MaxDepth
    /\ open_count' = open_count - 1
    /\ Goto(p, "close_irq")
    /\ UNCHANGED <<txVars, rxVars, irq_depth, stats, req, histVars>>

\* atomic_dec_return; the one that reaches 0 tears down.
Close(p) ==
    /\ CpuFree /\ p \in Closers /\ At(p, "opened")
    /\ irq_depth < MaxDepth
    /\ open_count' = open_count - 1
    /\ Goto(p, IF open_count = 1 THEN "close_irq" ELSE "closed")
    /\ UNCHANGED <<txVars, rxVars, irq_depth, stats, req, histVars>>

CloseDisableIrq(p) ==
    /\ CpuFree /\ At(p, "close_irq")
    /\ irq_depth' = irq_depth + 1
    /\ Goto(p, "close_fifo")
    /\ UNCHANGED <<txVars, rxVars, open_count, stats, req, histVars>>

CloseResetFifo(p) ==
    /\ CpuFree /\ At(p, "close_fifo")
    /\ rx_fifo' = <<>>
    /\ Goto(p, "closed")
    /\ UNCHANGED <<txVars, rx_chr, rx_gpio, rx_queued, irq_pending, openVars,
                   stats, req, histVars>>

-----------------------------------------------------------------------------
(* write *)

\* bitbang_write and the entry of bitbang_tx.  A call with O_NONBLOCK that
\* finds the FIFO full gets -EAGAIN, which changes nothing; one that finds
\* room goes on as a blocking call does.
Write(p, n) ==
    /\ CpuFree /\ p \in Writers /\ At(p, "opened")
    /\ Len(accepted) + n <= MaxTx
    /\ Goto(p, "tx_wait")
    /\ req' = [req EXCEPT ![p] = n]
    /\ UNCHANGED <<txVars, rxVars, openVars, stats, histVars>>

\* while (kfifo_is_full) wait_event_interruptible(tx_wq, not full)
TxWait(p) ==
    /\ CpuFree /\ At(p, "tx_wait")
    /\ Step(p, IF Full(tx_fifo) THEN "tx_asleep" ELSE "tx_copy")
    /\ UNCHANGED <<txVars, rxVars, openVars, stats, histVars>>

\* kfifo_from_user under the lock.  A fault in the user's buffer after some
\* bytes still queues those, and still starts the timer.
TxCopy(p, s) ==
    /\ CpuFree /\ At(p, "tx_copy")
    /\ Len(s) <= Least(req[p], FifoSize - Len(tx_fifo))
    /\ tx_fifo' = tx_fifo \o s
    /\ accepted' = accepted \o s
    /\ IF s = <<>> THEN Return(p) ELSE Step(p, "tx_check")
    /\ UNCHANGED <<tx_chr, tx_gpio, tx_queued, tx_running, tx_restart, rxVars,
                   openVars, stats, taken, aborted, cut, received, overtaken>>

\* Mutant of TxCheckTimer: the timer is never started again once it stopped.
TxCheckOnce(p) ==
    /\ CpuFree /\ At(p, "tx_check")
    /\ IF taken # <<>> THEN Return(p) ELSE Step(p, "tx_start")
    /\ UNCHANGED <<txVars, rxVars, openVars, stats, histVars>>

\* if (copied && !hrtimer_active(tx_timer))
TxCheckTimer(p) ==
    /\ CpuFree /\ At(p, "tx_check")
    /\ IF hrtimer_active_tx THEN Return(p) ELSE Step(p, "tx_start")
    /\ UNCHANGED <<txVars, rxVars, openVars, stats, histVars>>

TxStartTimer(p) ==
    /\ CpuFree /\ At(p, "tx_start")
    /\ tx_queued' = TRUE
    /\ Return(p)
    /\ UNCHANGED <<tx_fifo, tx_chr, tx_gpio, tx_running, tx_restart, rxVars,
                   openVars, stats, histVars>>

-----------------------------------------------------------------------------
(* read *)

\* bitbang_read and the entry of bitbang_rx; -EAGAIN as for Write.
Read(p, n) ==
    /\ CpuFree /\ p \in Readers /\ At(p, "opened")
    /\ Goto(p, "rx_wait")
    /\ req' = [req EXCEPT ![p] = n]
    /\ UNCHANGED <<txVars, rxVars, openVars, stats, histVars>>

RxWait(p) ==
    /\ CpuFree /\ At(p, "rx_wait")
    /\ Step(p, IF rx_fifo = <<>> THEN "rx_asleep" ELSE "rx_copy")
    /\ UNCHANGED <<txVars, rxVars, openVars, stats, histVars>>

\* kfifo_to_user under the lock: k bytes leave the FIFO, fewer than asked
\* for and available only when the user's buffer faults.
RxCopy(p, k) ==
    /\ CpuFree /\ At(p, "rx_copy")
    /\ k <= Least(req[p], Len(rx_fifo))
    /\ rx_fifo' = SubSeq(rx_fifo, k + 1, Len(rx_fifo))
    /\ Return(p)
    /\ UNCHANGED <<txVars, rx_chr, rx_gpio, rx_queued, irq_pending, openVars,
                   stats, histVars>>

\* A signal ends either wait with -ERESTARTSYS.
Interrupted(p) ==
    /\ CpuFree /\ pc[p] \in {"tx_asleep", "rx_asleep"}
    /\ Return(p)
    /\ UNCHANGED <<txVars, rxVars, openVars, stats, histVars>>

-----------------------------------------------------------------------------
(* The transmit timer *)

\* The expiry takes the timer off the queue; the callback is then running.
TxExpire(restart) ==
    /\ tx_queued /\ ~tx_running
    /\ tx_queued' = FALSE /\ tx_running' = TRUE
    /\ tx_restart' = restart

\* case -1 with a byte in the FIFO: take it, drive the start bit, wake writers.
TxStartBit ==
    /\ tx_chr.idx = Idle /\ tx_fifo # <<>>
    /\ TxExpire(TRUE)
    /\ tx_chr' = [idx |-> 0, data |-> Head(tx_fifo), parity |-> parity_even8(Head(tx_fifo))]
    /\ tx_gpio' = TxBit(tx_chr.data, tx_chr.parity, Idle)
    /\ tx_fifo' = Tail(tx_fifo)
    /\ taken' = Append(taken, Head(tx_fifo))
    /\ cut' = FALSE
    /\ Wake("tx_asleep", "tx_wait")
    /\ UNCHANGED <<rxVars, openVars, stats, req, accepted, aborted,
                   received, overtaken>>

\* case -1 with an empty FIFO: HRTIMER_NORESTART.
TxFifoEmpty ==
    /\ tx_chr.idx = Idle /\ tx_fifo = <<>>
    /\ TxExpire(FALSE)
    /\ UNCHANGED <<tx_fifo, tx_chr, tx_gpio, rxVars, openVars, stats, procVars, histVars>>

\* Mutant of TxNextBit: the character ends, uncounted, after one stop bit.
TxOneStopBit ==
    /\ tx_chr.idx \in 0 .. StopIdx
    /\ TxExpire(TRUE)
    /\ tx_gpio' = TxBit(tx_chr.data, tx_chr.parity, tx_chr.idx)
    /\ tx_chr' = [tx_chr EXCEPT !.idx = IF @ = StopIdx THEN Idle ELSE @ + 1]
    /\ cut' = FALSE
    /\ UNCHANGED <<tx_fifo, rxVars, openVars, stats, procVars, accepted, taken,
                   aborted, received, overtaken>>

\* Data bits, parity bit and first stop bit.
TxNextBit ==
    /\ tx_chr.idx \in 0 .. StopIdx
    /\ TxExpire(TRUE)
    /\ tx_gpio' = TxBit(tx_chr.data, tx_chr.parity, tx_chr.idx)
    /\ tx_chr' = [tx_chr EXCEPT !.idx = @ + 1]
    /\ cut' = FALSE
    /\ UNCHANGED <<tx_fifo, rxVars, openVars, stats, procVars, accepted, taken,
                   aborted, received, overtaken>>

\* Mutant of TxLastStopBit: the callback stops after every character.
TxStopAfterChar ==
    /\ tx_chr.idx = Stop2Idx
    /\ TxExpire(FALSE)
    /\ tx_gpio' = TxBit(tx_chr.data, tx_chr.parity, Stop2Idx)
    /\ tx_chr' = [tx_chr EXCEPT !.idx = Idle]
    /\ stats' = [stats EXCEPT !["tx_counter"] = @ + 1]
    /\ cut' = FALSE
    /\ UNCHANGED <<tx_fifo, rxVars, openVars, procVars, accepted, taken, aborted,
                   received, overtaken>>

\* Mutant of TxLastStopBit: the index runs on past the last case.
TxNoWrap ==
    /\ tx_chr.idx = Stop2Idx
    /\ TxExpire(TRUE)
    /\ tx_gpio' = TxBit(tx_chr.data, tx_chr.parity, Stop2Idx)
    /\ tx_chr' = [tx_chr EXCEPT !.idx = @ + 1]
    /\ stats' = [stats EXCEPT !["tx_counter"] = @ + 1]
    /\ cut' = FALSE
    /\ UNCHANGED <<tx_fifo, rxVars, openVars, procVars, accepted, taken, aborted,
                   received, overtaken>>

\* Second stop bit: the character is complete and counted.
TxLastStopBit ==
    /\ tx_chr.idx = Stop2Idx
    /\ TxExpire(TRUE)
    /\ tx_gpio' = TxBit(tx_chr.data, tx_chr.parity, Stop2Idx)
    /\ tx_chr' = [tx_chr EXCEPT !.idx = Idle]
    /\ stats' = [stats EXCEPT !["tx_counter"] = @ + 1]
    /\ cut' = FALSE
    /\ UNCHANGED <<tx_fifo, rxVars, openVars, procVars, accepted, taken, aborted,
                   received, overtaken>>

tx_timer_cb == TxStartBit \/ TxFifoEmpty \/ TxNextBit \/ TxLastStopBit

\* The callback returns; the core queues the timer again on HRTIMER_RESTART.
TxReturn ==
    /\ tx_running
    /\ tx_running' = FALSE
    /\ tx_queued' = (tx_queued \/ tx_restart)
    /\ tx_restart' = FALSE
    /\ UNCHANGED <<tx_fifo, tx_chr, tx_gpio, rxVars, openVars, stats, procVars, histVars>>

-----------------------------------------------------------------------------
(* The receive side *)

\* The peer drives the receive pin.  A falling edge is latched, and delivered
\* once the interrupt is enabled.
LineChange(v) ==
    /\ CpuFree /\ v # rx_gpio
    /\ RxChars < MaxRx
    /\ rx_gpio' = v
    /\ irq_pending' = (irq_pending \/ v = 0)
    /\ UNCHANGED <<txVars, rx_fifo, rx_chr, rx_queued, openVars, stats, procVars, histVars>>

\* Only a low pin between characters arms the timer, half a bit ahead.
rx_irq_handler ==
    /\ CpuFree /\ irq_pending /\ irq_depth = 0
    /\ irq_pending' = FALSE
    /\ rx_queued' = (rx_queued \/ (rx_gpio = 0 /\ rx_chr.idx = Idle))
    /\ UNCHANGED <<txVars, rx_fifo, rx_chr, rx_gpio, openVars, stats, procVars, histVars>>

\* case -1: the start bit must still be low in its middle.
RxStartBit ==
    /\ rx_chr.idx = Idle
    /\ IF rx_gpio = 1
       THEN /\ stats' = [stats EXCEPT !["rx_errs_start"] = @ + 1]
            /\ rx_queued' = FALSE
            /\ UNCHANGED rx_chr
       ELSE /\ rx_chr' = [rx_chr EXCEPT !.idx = 0]
            /\ UNCHANGED <<rx_queued, stats>>
    /\ UNCHANGED <<rx_fifo, pc, received>>

RxDataBit ==
    /\ rx_chr.idx \in Pos
    /\ rx_chr' = [rx_chr EXCEPT !.data = INSERT_BIT(@, rx_gpio), !.idx = @ + 1]
    /\ UNCHANGED <<rx_fifo, rx_queued, stats, pc, received>>

RxParityBit ==
    /\ rx_chr.idx = ParityIdx
    /\ rx_chr' = [rx_chr EXCEPT !.parity = rx_gpio, !.idx = @ + 1]
    /\ UNCHANGED <<rx_fifo, rx_queued, stats, pc, received>>

\* Mutant of PushRx: a full FIFO keeps its bytes and loses the new one.
PushRxIfRoom(b) == rx_fifo' = IF Full(rx_fifo) THEN rx_fifo ELSE Append(rx_fifo, b)

\* Overwrite-on-full, under the lock.
PushRx(b) == rx_fifo' = Append(IF Full(rx_fifo) THEN Tail(rx_fifo) ELSE rx_fifo, b)

\* case 9: keep the character or count what was wrong with it; then idle.
RxStopBit ==
    /\ rx_chr.idx = StopIdx
    /\ LET bad == parity_even8(rx_chr.data) # rx_chr.parity IN
       IF rx_gpio = 1 /\ ~bad
       THEN /\ PushRx(rx_chr.data)
            /\ received' = Append(received, rx_chr.data)
            /\ stats' = [stats EXCEPT !["rx_counter"] = @ + 1]
            /\ Wake("rx_asleep", "rx_wait")
       ELSE /\ stats' = [stats EXCEPT
                            !["rx_errs_parity"] = IF bad THEN @ + 1 ELSE @,
                            !["rx_errs_stop"] = IF rx_gpio = 0 THEN @ + 1 ELSE @]
            /\ UNCHANGED <<rx_fifo, pc, received>>
    /\ rx_chr' = [rx_chr EXCEPT !.idx = Idle]
    /\ rx_queued' = FALSE

rx_timer_cb ==
    /\ CpuFree /\ rx_queued
    /\ RxStartBit \/ RxDataBit \/ RxParityBit \/ RxStopBit
    /\ UNCHANGED <<txVars, rx_gpio, irq_pending, openVars, req, accepted,
                   taken, aborted, cut, overtaken>>

-----------------------------------------------------------------------------

\* What a write may copy: at most MaxCount bytes.
Chunks == UNION {[1 .. n -> Bytes] : n \in 0 .. MaxCount}

\* Steps a process inside a system call takes by itself.
Syscall(p) ==
    \/ OpenResetFifo(p) \/ OpenResetIdx(p) \/ OpenEnableIrq(p)
    \/ CloseDisableIrq(p) \/ CloseResetFifo(p)
    \/ TxWait(p) \/ (\E s \in Chunks : TxCopy(p, s)) \/ TxCheckTimer(p) \/ TxStartTimer(p)
    \/ RxWait(p) \/ (\E k \in 0 .. MaxCount : RxCopy(p, k))

\* Steps nothing obliges a process to take.
User(p) ==
    \/ Open(p) \/ Close(p) \/ Interrupted(p)
    \/ \E n \in 0 .. MaxCount : Write(p, n) \/ Read(p, n)

Next ==
    \/ \E p \in Procs : Syscall(p) \/ User(p)
    \/ tx_timer_cb \/ TxReturn
    \/ \E v \in Bit : LineChange(v)
    \/ rx_irq_handler \/ rx_timer_cb

Spec == Init /\ [][Next]_vars

(***************************************************************************)
(* Armed timers expire, callbacks return and a runnable process is         *)
(* scheduled; nobody has to open, write, signal or send anything.          *)
(***************************************************************************)
FairSpec ==
    /\ Spec
    /\ WF_vars(tx_timer_cb) /\ WF_vars(TxReturn) /\ WF_vars(rx_timer_cb)
    /\ \A p \in Procs : WF_vars(Syscall(p))

-----------------------------------------------------------------------------
(* Properties *)

Places == {"closed", "open_fifo", "open_idx", "open_irq", "opened",
           "close_irq", "close_fifo", "tx_wait", "tx_asleep", "tx_copy",
           "tx_check", "tx_start", "rx_wait", "rx_asleep", "rx_copy"}

TxTypeOK ==
    /\ tx_fifo \in Seq(Bytes) /\ Len(tx_fifo) <= FifoSize
    /\ tx_chr \in Chr(Stop2Idx) /\ tx_gpio \in Bit
    /\ tx_queued \in BOOLEAN /\ tx_running \in BOOLEAN /\ tx_restart \in BOOLEAN

RxTypeOK ==
    /\ rx_fifo \in Seq(Byte) /\ Len(rx_fifo) <= FifoSize
    /\ rx_chr \in Chr(StopIdx) /\ rx_gpio \in Bit
    /\ rx_queued \in BOOLEAN /\ irq_pending \in BOOLEAN

OpenTypeOK == open_count \in Int /\ irq_depth \in Nat

ProcTypeOK == pc \in [Procs -> Places] /\ req \in [Procs -> 0 .. MaxCount]

HistTypeOK ==
    /\ accepted \in Seq(Bytes) /\ taken \in Seq(Bytes) /\ received \in Seq(Byte)
    /\ aborted \in Nat /\ cut \in BOOLEAN /\ overtaken \in BOOLEAN

(***************************************************************************)
(* Every variable keeps its type; in particular neither FIFO exceeds       *)
(* FIFO_SIZE and the indices stay in the ranges outside of which the two   *)
(* callbacks would report a "logiq error".                                 *)
(***************************************************************************)
TypeOK ==
    /\ TxTypeOK /\ RxTypeOK /\ OpenTypeOK
    /\ stats \in [Stat -> Nat]
    /\ ProcTypeOK /\ HistTypeOK

(***************************************************************************)
(* The pin carries the character taken last, bit by bit (tx_timer_cb):     *)
(* high between characters, low for the start bit, then the data bits from *)
(* the lowest up, then the bit that makes the number of ones even, then    *)
(* high.  The exceptions (cut) are the zeroed structure before the first   *)
(* open and an open that reset the index while the pin was low.            *)
(***************************************************************************)
PinFollowsIndex ==
    LET idx  == tx_chr.idx
        ones == Cardinality({i \in Pos : tx_chr.data[i] = 1})
    IN  /\ taken # <<>> => tx_chr.data = taken[Len(taken)]
        /\ ~cut => /\ idx \in {Idle, Stop2Idx} => tx_gpio = 1
                   /\ idx = 0 => tx_gpio = 0
                   /\ idx - 1 \in Pos => tx_gpio = tx_chr.data[idx - 1]
                   /\ idx = StopIdx => (ones + tx_gpio) % 2 = 0

(***************************************************************************)
(* "Dequeues a character from the TX queue and sends it": the pin goes low *)
(* only for a byte that was queued (tx_timer_cb).                          *)
(***************************************************************************)
OnlyQueuedSent == tx_gpio = 0 => taken # <<>>

(***************************************************************************)
(* Bytes leave in the order bitbang_tx accepted them, and every byte taken *)
(* from the FIFO is a complete character counted in tx_counter, is being   *)
(* sent, or was abandoned by an open that reset the index.  The 1 is the   *)
(* character that the zeroed index pretends to be sending at the start.    *)
(***************************************************************************)
CharsAccounted ==
    /\ accepted = taken \o tx_fifo
    /\ Len(taken) + 1 = stats["tx_counter"] + aborted
                        + (IF tx_chr.idx = Idle THEN 0 ELSE 1)

(***************************************************************************)
(* While bytes are queued the transmit timer is active or a writer is      *)
(* about to start it: the "!hrtimer_active" test of bitbang_tx never       *)
(* leaves a byte behind.                                                   *)
(***************************************************************************)
TxPumpArmed ==
    tx_fifo # <<>> => \/ hrtimer_active_tx
                      \/ \E p \in Procs : pc[p] \in {"tx_check", "tx_start"}

(***************************************************************************)
(* Nobody sleeps on a condition that holds: a sleeping writer faces a full *)
(* FIFO, a sleeping reader an empty one (wake_up_interruptible in the two  *)
(* callbacks against wait_event_interruptible in bitbang_tx, bitbang_rx).  *)
(***************************************************************************)
NoLostWakeup ==
    \A p \in Procs : /\ At(p, "tx_asleep") => Full(tx_fifo)
                     /\ At(p, "rx_asleep") => rx_fifo = <<>>

(***************************************************************************)
(* The receive FIFO always holds the newest characters received, in order: *)
(* a reader, a reset or the overwrite-on-full only ever takes the oldest.  *)
(***************************************************************************)
RxFifoNewest ==
    /\ Len(rx_fifo) <= Len(received)
    /\ \A i \in 1 .. Len(rx_fifo) :
          rx_fifo[i] = received[Len(received) - Len(rx_fifo) + i]

(***************************************************************************)
(* The receiver is never deaf: with the interrupt enabled, an index that   *)
(* makes rx_irq_handler ignore edges means a timer is armed that will      *)
(* bring it back to -1.                                                    *)
(***************************************************************************)
RxNotDeaf ==
    irq_depth = 0 /\ rx_chr.idx # Idle => rx_queued

(***************************************************************************)
(* The interrupt is enabled exactly while the device is open, apart from   *)
(* the first opener's and last closer's own steps, unless a first open     *)
(* overtook a last close between its decrement and its disable_irq.        *)
(***************************************************************************)
IrqFollowsOpen ==
    LET opening == \E p \in Procs : pc[p] \in {"open_fifo", "open_idx", "open_irq"}
        closing == \E p \in Procs : At(p, "close_irq")
    IN  ~overtaken =>
           irq_depth = IF opening \/ (open_count = 0 /\ ~closing) THEN 1 ELSE 0

(***************************************************************************)
(* Every byte bitbang_tx accepts is eventually taken by the transmit       *)
(* callback.                                                               *)
(***************************************************************************)
AcceptedIsSent ==
    \A n \in 1 .. MaxTx : (Len(accepted) >= n) ~> (Len(taken) >= n)

(***************************************************************************)
(* A writer that sleeps on a full FIFO is eventually woken.                *)
(***************************************************************************)
WriterWakes ==
    \A p \in Procs : At(p, "tx_asleep") ~> ~At(p, "tx_asleep")
=============================================================================
