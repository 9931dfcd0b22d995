------------------------------ MODULE KfifoDev ------------------------------
(***************************************************************************)
(* The two character devices built on kfifos.  kfifo.c has one fifo, which *)
(* the interrupt and write() fill and read() empties.  kfifo_rxtx.c has    *)
(* one for each direction: the interrupt fills rx, overwriting the oldest  *)
(* byte when it is full; write() fills tx and schedules a work item that   *)
(* drains it; the first open requests the interrupt, the last close frees  *)
(* it and cancels the work.  Bytes are numbered as they are produced.      *)
(***************************************************************************)
EXTENDS Naturals, Sequences, FiniteSets, SequencesExt

CONSTANTS
    Users,          \* processes, each with one file
    Readers, Writers,   \* those that read and poll, those that write
    FifoSize,       \* FIFO_SIZE, 1024 in the drivers
    MaxCount,       \* largest count of one call
    MaxRx, MaxTx    \* bounds: bytes produced for rx, bytes written to tx

ASSUME KfifoAssumption ==
    /\ IsFiniteSet(Users)
    /\ Readers \union Writers \subseteq Users
    /\ {FifoSize, MaxCount} \subseteq Nat \ {0}
    /\ {MaxRx, MaxTx} \subseteq Nat

VARIABLES
    dev,            \* "kfifo" or "kfifo_rxtx"
    rx, tx,         \* the fifos; kfifo.c has rx only
    made,           \* bytes put into rx so far
    log,            \* bytes read from rx so far
    acc,            \* bytes put into tx so far
    out,            \* bytes given to the hardware
    at,             \* per user: where it is in a call
    wakes,          \* the interrupt handler has yet to wake readers
    open_count,
    irq,            \* the interrupt is requested
    work,           \* "idle", "pending", "running", "again" (running and pending), "cancelling"
    got,            \* the running work has taken a byte
    robbed,         \* history: bytes were left in tx and no work was scheduled since
    deaf            \* history: the first open failed while another file was open

fifoVars == <<rx, tx, made, log, acc, out>>
devVars == <<open_count, irq, deaf>>
workVars == <<work, got, robbed>>
vars == <<dev, fifoVars, at, wakes, devVars, workVars>>

Two == dev = "kfifo_rxtx"

\* The fifo that write() fills.
wfifo == IF Two THEN tx ELSE rx

kfifo_is_full(f) == Len(f) = FifoSize
kfifo_is_empty(f) == f = <<>>

Init ==
    /\ dev \in {"kfifo", "kfifo_rxtx"}
    /\ rx = <<>> /\ tx = <<>> /\ made = 0 /\ log = <<>> /\ acc = 0 /\ out = <<>>
    /\ at = [p \in Users |-> IF Two THEN "closed" ELSE "idle"]
    /\ wakes = FALSE
    /\ open_count = 0 /\ irq = ~Two /\ deaf = FALSE
    /\ work = "idle" /\ got = FALSE /\ robbed = FALSE

Goto(p, from, to) == at[p] = from /\ at' = [at EXCEPT ![p] = to]

\* wake_up_interruptible: sleepers test their condition again.
Woken(where, queue) ==
    [p \in Users |-> CASE where[p] = "rsleep" /\ queue = "rx" -> "rwait"
                       [] where[p] = "wsleep" /\ queue = "tx" -> "wwait"
                       [] where[p] = "psleep" -> "poll"
                       [] OTHER -> where[p]]

-----------------------------------------------------------------------------
(* The interrupt *)

\* Mutant of mydev_irq_handler: the handler does not make room.
irq_handler_drops_new ==
    /\ irq /\ ~wakes /\ made < MaxRx
    /\ made' = made + 1
    /\ rx' = IF kfifo_is_full(rx) THEN rx ELSE Append(rx, made')
    /\ wakes' = TRUE
    /\ UNCHANGED <<dev, tx, log, acc, out, at, devVars, workVars>>

\* Overwrite-on-full: the oldest byte makes room for the new one.
Overwrite(f, val) == Append(IF kfifo_is_full(f) THEN Tail(f) ELSE f, val)

mydev_irq_handler ==
    /\ irq /\ ~wakes /\ made < MaxRx
    /\ made' = made + 1
    /\ rx' = Overwrite(rx, made')
    /\ wakes' = TRUE
    /\ UNCHANGED <<dev, tx, log, acc, out, at, devVars, workVars>>

IrqWakes ==
    /\ wakes
    /\ wakes' = FALSE /\ at' = Woken(at, "rx")
    /\ UNCHANGED <<dev, fifoVars, devVars, workVars>>

-----------------------------------------------------------------------------
(* read() *)

\* The test for an empty fifo is made without the lock; the same test follows in
\* the wait, where nothing is lost if a byte comes in between.
Read(p) ==
    /\ p \in Readers
    /\ \/ ~kfifo_is_empty(rx) /\ Goto(p, "idle", "rcopy")
       \/ kfifo_is_empty(rx) /\ Goto(p, "idle", "rsleep")
    /\ UNCHANGED <<dev, fifoVars, wakes, devVars, workVars>>

\* wait_event_interruptible queues the process before it tests the condition.
ReadWait(p) ==
    /\ \/ ~kfifo_is_empty(rx) /\ Goto(p, "rwait", "rcopy")
       \/ kfifo_is_empty(rx) /\ Goto(p, "rwait", "rsleep")
    /\ UNCHANGED <<dev, fifoVars, wakes, devVars, workVars>>

\* A fault of copy_to_user moves k bytes, fewer than it should: kfifo_rxtx
\* returns at once, kfifo wakes whenever it has moved any.
ReadCopy(p) ==
    \E n \in 1 .. MaxCount :
        LET want == IF n < Len(rx) THEN n ELSE Len(rx) IN
        \E k \in 0 .. want :
            /\ Goto(p, "rcopy", IF k > 0 /\ (k = want \/ ~Two) THEN "rwake" ELSE "idle")
            /\ log' = log \o SubSeq(rx, 1, k)
            /\ rx' = SubSeq(rx, k + 1, Len(rx))
            /\ UNCHANGED <<dev, made, tx, acc, out, wakes, devVars, workVars>>

\* Both drivers wake the writers' queue.
ReadWake(p) ==
    /\ at[p] = "rwake"
    /\ at' = Woken([at EXCEPT ![p] = "idle"], "tx")
    /\ UNCHANGED <<dev, fifoVars, wakes, devVars, workVars>>

-----------------------------------------------------------------------------
(* write() *)

Write(p) ==
    /\ p \in Writers
    /\ \/ ~kfifo_is_full(wfifo) /\ Goto(p, "idle", "wcopy")
       \/ kfifo_is_full(wfifo) /\ Goto(p, "idle", "wsleep")
    /\ UNCHANGED <<dev, fifoVars, wakes, devVars, workVars>>

\* kfifo_rxtx tests again, still without the lock, what the wait has just found.
WriteWait(p) ==
    /\ \/ ~kfifo_is_full(wfifo) /\ Goto(p, "wwait", "wcopy")
       \/ kfifo_is_full(wfifo) /\ Goto(p, "wwait", "wsleep")
    /\ UNCHANGED <<dev, fifoVars, wakes, devVars, workVars>>

\* As much as fits is copied under the lock, perhaps nothing; a fault of
\* copy_from_user ends the copy after k bytes, which stay in the fifo.  Then
\* kfifo_rxtx returns without scheduling the work, which it does otherwise,
\* even for nothing; kfifo wakes readers whenever it has copied.
WriteCopy(p) ==
    \E n \in 1 .. MaxCount :
        LET room == FifoSize - Len(wfifo)
            want == IF n < room THEN n ELSE room IN
        \E k \in 0 .. want :
            /\ IF Two
               THEN /\ acc + k <= MaxTx
                    /\ acc' = acc + k
                    /\ tx' = tx \o [j \in 1 .. k |-> acc + j]
                    /\ Goto(p, "wcopy", IF k = want THEN "wwake" ELSE "idle")
                    /\ robbed' = (robbed \/ (k > 0 /\ k < want /\ work = "idle"))
                    /\ UNCHANGED <<rx, made>>
               ELSE /\ made + k <= MaxRx
                    /\ made' = made + k
                    /\ rx' = rx \o [j \in 1 .. k |-> made + j]
                    /\ Goto(p, "wcopy", IF k > 0 THEN "wwake" ELSE "idle")
                    /\ UNCHANGED <<tx, acc, robbed>>
            /\ UNCHANGED <<dev, log, out, wakes, devVars, work, got>>

\* Mutant of WriteWake: the work is left to the next writer when the fifo is full.
WriteWakeUnlessFull(p) ==
    /\ at[p] = "wwake"
    /\ at' = Woken([at EXCEPT ![p] = "idle"], IF Two THEN "none" ELSE "rx")
    /\ work' = IF Two /\ ~kfifo_is_full(tx) /\ work = "idle" THEN "pending" ELSE work
    /\ UNCHANGED <<dev, fifoVars, wakes, devVars, got, robbed>>

\* schedule_work, which does nothing while the work is being cancelled, or the
\* wake-up of the readers.
WriteWake(p) ==
    /\ at[p] = "wwake"
    /\ IF Two
       THEN /\ at' = [at EXCEPT ![p] = "idle"]
            /\ work' = CASE work = "idle" -> "pending" [] work = "running" -> "again" [] OTHER -> work
            /\ robbed' = (work = "cancelling" /\ (robbed \/ ~kfifo_is_empty(tx)))
       ELSE /\ at' = Woken([at EXCEPT ![p] = "idle"], "rx")
            /\ UNCHANGED <<work, robbed>>
    /\ UNCHANGED <<dev, fifoVars, wakes, devVars, got>>

-----------------------------------------------------------------------------
(* poll(), signals, and O_NONBLOCK *)

poll_mask == {m \in {"POLLIN", "POLLOUT"} : IF m = "POLLIN" THEN ~kfifo_is_empty(rx)
                                                            ELSE ~kfifo_is_full(wfifo)}

\* The process is on both queues before the mask is computed.
mydev_poll(p) ==
    /\ p \in Readers
    /\ LET to == IF poll_mask = {} THEN "psleep" ELSE "idle" IN
       Goto(p, "idle", to) \/ Goto(p, "poll", to)
    /\ UNCHANGED <<dev, fifoVars, wakes, devVars, workVars>>

\* A signal ends a wait; with O_NONBLOCK there is none.
Interrupted(p) ==
    /\ at[p] \in {"rwait", "rsleep", "wwait", "wsleep", "psleep"}
    /\ at' = [at EXCEPT ![p] = "idle"]
    /\ UNCHANGED <<dev, fifoVars, wakes, devVars, workVars>>

-----------------------------------------------------------------------------
(* The work item of kfifo_rxtx *)

WorkStarts ==
    /\ work = "pending"
    /\ work' = "running" /\ got' = FALSE
    /\ UNCHANGED <<dev, fifoVars, at, wakes, devVars, robbed>>

hw_tx_send_byte(b) == out' = Append(out, b)

tx_work_fn ==
    /\ work \in {"running", "again", "cancelling"} /\ ~kfifo_is_empty(tx)
    /\ hw_tx_send_byte(Head(tx)) /\ tx' = Tail(tx)
    /\ got' = TRUE
    /\ UNCHANGED <<dev, rx, made, log, acc, at, wakes, devVars, work, robbed>>

\* Mutant of WorkEnds: the writers are not woken.
WorkEndsSilently ==
    /\ work \in {"running", "again", "cancelling"} /\ kfifo_is_empty(tx)
    /\ work' = IF work = "again" THEN "pending" ELSE "idle"
    /\ got' = FALSE
    /\ UNCHANGED <<dev, fifoVars, at, wakes, devVars, robbed>>

WorkEnds ==
    /\ work \in {"running", "again", "cancelling"} /\ kfifo_is_empty(tx)
    /\ work' = IF work = "again" THEN "pending" ELSE "idle"
    /\ at' = IF got THEN Woken(at, "tx") ELSE at
    /\ got' = FALSE
    /\ UNCHANGED <<dev, fifoVars, wakes, devVars, robbed>>

-----------------------------------------------------------------------------
(* open() and close() of kfifo_rxtx *)

mydev_open(p) ==
    /\ Two
    /\ open_count' = open_count + 1
    /\ Goto(p, "closed", IF open_count = 0 THEN "request" ELSE "idle")
    /\ UNCHANGED <<dev, fifoVars, wakes, irq, deaf, workVars>>

\* Mutant of OpenRequest: a failed request leaves the count.
OpenRequestKeepsCount(p) ==
    /\ \/ ~irq /\ Goto(p, "request", "idle") /\ irq' = TRUE /\ UNCHANGED <<open_count, deaf>>
       \/ Goto(p, "request", "closed") /\ UNCHANGED <<open_count, irq, deaf>>
    /\ UNCHANGED <<dev, fifoVars, wakes, workVars>>

\* The line is not shared: the request fails while the last closer still has it.
OpenRequest(p) ==
    /\ \/ /\ ~irq
          /\ Goto(p, "request", "idle")
          /\ irq' = TRUE /\ UNCHANGED <<open_count, deaf>>
       \/ /\ Goto(p, "request", "closed")
          /\ open_count' = open_count - 1
          /\ deaf' = (deaf \/ open_count > 1) /\ UNCHANGED irq
    /\ UNCHANGED <<dev, fifoVars, wakes, workVars>>

mydev_release(p) ==
    /\ Two
    /\ open_count' = open_count - 1
    /\ Goto(p, "idle", IF open_count = 1 THEN "free" ELSE "closed")
    /\ UNCHANGED <<dev, fifoVars, wakes, irq, deaf, workVars>>

\* synchronize_irq waits for a handler that is running.
mydev_hw_deinit == ~wakes /\ irq' = FALSE

\* After a failed first open there may be nothing to free.
ReleaseFree(p) ==
    /\ Goto(p, "free", "cancel")
    /\ mydev_hw_deinit
    /\ UNCHANGED <<dev, fifoVars, wakes, open_count, deaf, workVars>>

\* cancel_work_sync: pending work is dropped, running work is waited for.
ReleaseCancel(p) ==
    /\ Goto(p, "cancel", IF work \in {"running", "again", "cancelling"} THEN "flush" ELSE "closed")
    /\ work' = IF work \in {"idle", "pending"} THEN "idle" ELSE "cancelling"
    /\ robbed' = (robbed \/ (work \in {"pending", "again"} /\ ~kfifo_is_empty(tx)))
    /\ UNCHANGED <<dev, fifoVars, wakes, devVars, got>>

ReleaseFlush(p) ==
    /\ work # "cancelling"
    /\ Goto(p, "flush", "closed")
    /\ UNCHANGED <<dev, fifoVars, wakes, devVars, workVars>>

-----------------------------------------------------------------------------

User(p) == \/ Read(p) \/ ReadWait(p) \/ ReadCopy(p) \/ ReadWake(p)
           \/ Write(p) \/ WriteWait(p) \/ WriteCopy(p) \/ WriteWake(p)
           \/ mydev_poll(p) \/ Interrupted(p)
           \/ mydev_open(p) \/ OpenRequest(p) \/ mydev_release(p) \/ ReleaseFree(p) \/ ReleaseCancel(p)
           \/ ReleaseFlush(p)

Kernel == IrqWakes \/ WorkStarts \/ tx_work_fn \/ WorkEnds

Next == mydev_irq_handler \/ Kernel \/ \E p \in Users : User(p)

Spec == Init /\ [][Next]_vars

\* The scheduler runs a process that is in the middle of a call, and the kernel
\* finishes interrupts and work; nobody is obliged to make a call, to end a
\* wait with a signal or to send data.
InCall(p) == ReadWait(p) \/ ReadCopy(p) \/ ReadWake(p) \/ WriteWait(p) \/ WriteCopy(p) \/ WriteWake(p)
             \/ (at[p] = "poll" /\ mydev_poll(p)) \/ OpenRequest(p) \/ ReleaseFree(p) \/ ReleaseCancel(p) \/ ReleaseFlush(p)

FairSpec == Spec /\ WF_vars(Kernel) /\ \A p \in Users : WF_vars(InCall(p))

-----------------------------------------------------------------------------

TypeOK ==
    /\ dev \in {"kfifo", "kfifo_rxtx"}
    /\ made \in 0 .. MaxRx /\ Range(rx \o log) \subseteq 1 .. made /\ Len(rx) <= FifoSize
    /\ acc \in 0 .. MaxTx /\ Range(tx \o out) \subseteq 1 .. acc /\ Len(tx) <= FifoSize
    /\ at \in [Users -> {"closed", "request", "idle", "free", "cancel", "flush", "poll", "psleep",
                         "rwait", "rsleep", "rcopy", "rwake", "wwait", "wsleep", "wcopy", "wwake"}]
    /\ open_count \in 0 .. Cardinality(Users)
    /\ work \in {"idle", "pending", "running", "again", "cancelling"}
    /\ {wakes, irq, got, robbed, deaf} \subseteq BOOLEAN

\* rx holds the newest bytes without a gap, whatever was overwritten and
\* whoever reads at the same time.
RxHoldsNewest == \A j \in DOMAIN rx : rx[j] = made - Len(rx) + j

\* Every byte is read at most once, and in the order of arrival: overwriting
\* and reading never hand out a byte that is older than one already read.
ReadInOrder == LET all == log \o rx IN \A j \in 2 .. Len(all) : all[j - 1] < all[j]

\* No byte that write() accepted is lost, repeated or passed by another one:
\* what the hardware got and what is queued is what was accepted.
TxInOrder == Two => out \o tx = [j \in 1 .. acc |-> j]

\* In both directions bytes keep their order and none is repeated; only the
\* oldest received ones are lost, when mydev_irq_handler overwrites them.
FifoInv == TypeOK /\ RxHoldsNewest /\ ReadInOrder /\ TxInOrder

\* A sleeper's condition does not hold, or whoever made it true has yet to wake
\* it: the wake-ups come after the lock is released, and from places that do
\* not know who sleeps.
RxDue == kfifo_is_empty(rx) \/ wakes \/ \E q \in Users : ~Two /\ at[q] = "wwake"
TxDue == kfifo_is_full(wfifo) \/ got \/ \E q \in Users : at[q] = "rwake"
NoLostWakeup ==
    \A p \in Users : /\ at[p] \in {"rsleep", "psleep"} => RxDue
                     /\ at[p] \in {"wsleep", "psleep"} => TxDue

\* Away from a first open and a last close, the interrupt of kfifo_rxtx is
\* requested exactly when some file is open: unless the first open once failed
\* after a second one had succeeded without a request of its own.
IrqFollowsOpen ==
    Two /\ ~deaf /\ (\A p \in Users : at[p] \notin {"request", "free"}) =>
        (irq <=> \E p \in Users : at[p] \notin {"closed", "cancel", "flush"})

\* A writer that sleeps on a full tx fifo is woken in the end, unless a last
\* close dropped the work that would have drained it, or a write that faulted
\* left its bytes without scheduling any, and no write has scheduled it since.
WriterProceeds == \A p \in Users : (Two /\ at[p] = "wsleep") ~> (at[p] # "wsleep" \/ robbed)

\* Every byte that write() accepted reaches the hardware, with the same exception.
AcceptedIsSent == \A k \in 1 .. MaxTx : (acc >= k) ~> (Len(out) >= k \/ robbed)

\* The work item drains what write() put into the fifo and wakes who waits:
\* bytes left behind by a fault or a last close go out with the next write.
PumpRuns == WriterProceeds /\ AcceptedIsSent

\* With all files closed and no work under way or pending, everything written
\* has gone out ("also ensure tx work done").
TxWorkDone == Two /\ (\A p \in Users : at[p] = "closed") /\ work = "idle" => kfifo_is_empty(tx)
=============================================================================
