------------------------------ MODULE SpiSlave ------------------------------
(***************************************************************************)
(* The SPI slave driver (linux/kernel/slave-spi-driver/spi-slave-main.c)   *)
(* once it is probed: the receive thread that cuts the word stream of the  *)
(* controller into packets and queues them in a ring, the message pump of  *)
(* the SPI core that prepares a message and transfers packets out of the   *)
(* ring, and remove.                                                       *)
(*                                                                         *)
(* The ring holds indices of packet buffers and a flag per buffer in use.  *)
(* What is under rx_lock is one step; everything else interleaves.  The    *)
(* contents of a packet is its number in the stream, 0 while it is not     *)
(* complete.                                                               *)
(***************************************************************************)
EXTENDS Integers, FiniteSets

CONSTANTS
    RX_RING_PACKETS,    \* size of the ring, 16384 in the driver
    PACKET_SIZE_DWORD,  \* words of a packet, 47 in the driver
    MaxLost,            \* losses after which the thread gives up, 1024
    MaxPackets,         \* bound on the packets of the stream
    MaxMessages         \* bound on the messages

ASSUME SpiAssumption ==
    /\ RX_RING_PACKETS \in Nat /\ RX_RING_PACKETS > 1
    /\ PACKET_SIZE_DWORD \in Nat /\ PACKET_SIZE_DWORD > 1
    /\ MaxLost \in Nat /\ MaxPackets \in Nat /\ MaxMessages \in Nat

VARIABLES
    head, tail, slot, flag,     \* rx_ring: the circ_buf and its two arrays
    packets,                    \* contents of the packet buffers
    pkt_lost,                   \* of the statistics
    recent,                     \* last_message_jiffies is at most 4 s old
    rx_thrd,                    \* the pointer: the number of a thread, 0 for NULL
    threads,                    \* threads created; only the last one can be alive
    t_pc, t_idx, t_cnt, t_whole,\* receive thread: place, buffer, words, rv > 0
    should_stop,                \* kthread_should_stop of that thread
    m_pc,                       \* message pump
    r_pc, r_ptr,                \* remove: place, the pointer it tested
    count, last,                \* history: packets completed, last transferred
    messages, paused,           \* history: messages, 4 s without one
    stopped, gave_up,           \* history: a thread was told to stop, gave up
    ended, overtaken, unseen    \* history: see the actions

ringVars == <<head, tail, slot, flag>>
thrdVars == <<t_pc, t_idx, t_cnt, t_whole, should_stop>>
remVars == <<r_pc, r_ptr>>
histVars == <<count, last, messages, paused, stopped, gave_up, ended, overtaken, unseen>>
vars == <<ringVars, packets, pkt_lost, recent, rx_thrd, threads, thrdVars, m_pc, remVars, histVars>>

Idx == 0 .. RX_RING_PACKETS - 1

-----------------------------------------------------------------------------
(* The ring macros *)

\* RXRING_ADVANCE: the mask of a size that is a power of two.
Advance(i) == IF i = RX_RING_PACKETS - 1 THEN 0 ELSE i + 1

\* RXRING_USED and RXRING_VACANT: CIRC_CNT and CIRC_SPACE.
Used == IF tail <= head THEN head - tail ELSE head - tail + RX_RING_PACKETS
Vacant == RX_RING_PACKETS - 1 - Used

\* Mutant of RXRING_REMOVE: the buffer's flag stays set.
RemoveKeepsFlag ==
    /\ slot' = [slot EXCEPT ![tail] = -1]
    /\ tail' = Advance(tail)
    /\ UNCHANGED <<head, flag>>

RXRING_REMOVE ==
    /\ flag' = [flag EXCEPT ![slot[tail]] = 0]
    /\ slot' = [slot EXCEPT ![tail] = -1]
    /\ tail' = Advance(tail)
    /\ UNCHANGED head

RXRING_INSERT(idx) ==
    /\ slot' = [slot EXCEPT ![head] = idx]
    /\ flag' = [flag EXCEPT ![idx] = 1]
    /\ head' = Advance(head)
    /\ UNCHANGED tail

RXRING_CLEAR ==
    /\ head' = 0 /\ tail' = 0
    /\ slot' = [i \in Idx |-> 0] /\ flag' = [i \in Idx |-> 0]

\* rxring_get_free_idx: the lowest index whose flag f is clear, or -1.
rxring_get_free_idx(f) ==
    IF \E i \in Idx : f[i] = 0
    THEN CHOOSE i \in Idx : f[i] = 0 /\ \A j \in Idx : f[j] = 0 => i <= j
    ELSE -1

-----------------------------------------------------------------------------

Init ==
    /\ head = 0 /\ tail = 0
    /\ slot = [i \in Idx |-> 0] /\ flag = [i \in Idx |-> 0]
    /\ packets = [i \in Idx |-> 0]
    /\ pkt_lost = 0 /\ recent = FALSE /\ rx_thrd = 0 /\ threads = 0
    /\ t_pc = "none" /\ t_idx = 0 /\ t_cnt = 0 /\ t_whole = FALSE
    /\ should_stop = FALSE
    /\ m_pc = "idle" /\ r_pc = "bound" /\ r_ptr = 0
    /\ count = 0 /\ last = 0 /\ messages = 0 /\ paused = TRUE
    /\ stopped = FALSE /\ gave_up = FALSE
    /\ ended = FALSE /\ overtaken = FALSE /\ unseen = FALSE

Alive == t_pc # "none"

(***************************************************************************)
(* memset of the statistics, without the lock.  It races with pkt_lost++   *)
(* of a thread that is about to drop a packet: the increment may store the *)
(* old value plus one over it.  last_message_jiffies becomes 0 too, which  *)
(* is more than 4 s ago.                                                   *)
(***************************************************************************)
ResetStats ==
    /\ pkt_lost' \in IF t_pc = "take" /\ Vacant = 0 THEN {0, pkt_lost} ELSE {0}
    /\ recent' = FALSE

-----------------------------------------------------------------------------
(* The receive thread *)

ThrdStart ==
    /\ t_pc = "start" /\ ~should_stop
    /\ ResetStats
    /\ t_pc' = "clear"
    /\ UNCHANGED <<ringVars, packets, rx_thrd, threads, t_idx, t_cnt, t_whole, should_stop,
                   m_pc, remVars, histVars>>

\* kthread_stop before the function was called: it never is, and the pointer
\* stays (overtaken).
ThrdNeverRuns ==
    /\ t_pc = "start" /\ should_stop
    /\ t_pc' = "none" /\ should_stop' = FALSE
    /\ ended' = TRUE /\ overtaken' = TRUE
    /\ UNCHANGED <<ringVars, packets, pkt_lost, recent, rx_thrd, threads, t_idx, t_cnt, t_whole,
                   m_pc, remVars, count, last, messages, paused, stopped, gave_up, unseen>>

ThrdClear ==
    /\ t_pc = "clear"
    /\ RXRING_CLEAR
    /\ t_pc' = "take"
    /\ UNCHANGED <<packets, pkt_lost, recent, rx_thrd, threads, t_idx, t_cnt, t_whole,
                   should_stop, m_pc, remVars, histVars>>

\* The first half of receive_packet: a full ring drops its oldest packet.
TakeBuffer ==
    /\ t_pc = "take"
    /\ IF Vacant = 0
       THEN RXRING_REMOVE /\ pkt_lost' = pkt_lost + 1
       ELSE UNCHANGED <<ringVars, pkt_lost>>
    /\ t_idx' = rxring_get_free_idx(flag')
    /\ t_pc' = IF t_idx' < 0 THEN "no_free" ELSE "check"
    /\ UNCHANGED <<packets, recent, rx_thrd, threads, t_cnt, t_whole, should_stop, m_pc, remVars,
                   histVars>>

\* "Too RX packets lost": the thread gives up.
CheckLost ==
    /\ t_pc = "check"
    /\ IF pkt_lost > MaxLost
       THEN t_pc' = "exit" /\ gave_up' = TRUE
       ELSE t_pc' = "fill" /\ UNCHANGED gave_up
    /\ t_cnt' = 0 /\ t_whole' = FALSE
    /\ UNCHANGED <<ringVars, packets, pkt_lost, recent, rx_thrd, threads, t_idx, should_stop,
                   m_pc, remVars, count, last, messages, paused, stopped, ended, overtaken, unseen>>

(***************************************************************************)
(* A word from the controller goes through paketizer: it is stored, a      *)
(* first word without the sync byte is skipped, and the last one completes *)
(* the packet.                                                             *)
(***************************************************************************)
paketizer(sync) ==
    /\ t_pc = "fill" /\ count < MaxPackets
    /\ IF t_cnt = PACKET_SIZE_DWORD - 1
       THEN /\ packets' = [packets EXCEPT ![t_idx] = count + 1]
            /\ count' = count + 1
            /\ t_cnt' = 0 /\ t_whole' = TRUE /\ t_pc' = "insert"
       ELSE /\ packets' = [packets EXCEPT ![t_idx] = 0]
            /\ t_cnt' = IF t_cnt = 0 /\ ~sync THEN 0 ELSE t_cnt + 1
            /\ UNCHANGED <<count, t_whole, t_pc>>
    /\ UNCHANGED <<ringVars, pkt_lost, recent, rx_thrd, threads, t_idx, should_stop, m_pc, remVars,
                   last, messages, paused, stopped, gave_up, ended, overtaken, unseen>>

\* kthread_should_stop ends the wait for words; what is there is queued.
StopFilling ==
    /\ t_pc = "fill" /\ should_stop
    /\ t_pc' = "insert"
    /\ UNCHANGED <<ringVars, packets, pkt_lost, recent, rx_thrd, threads, t_idx, t_cnt, t_whole,
                   should_stop, m_pc, remVars, histVars>>

\* The second half of receive_packet: RXRING_INSERT and wake_up.
InsertPacket ==
    /\ t_pc = "insert"
    /\ RXRING_INSERT(t_idx)
    /\ t_pc' = IF t_whole THEN "take" ELSE "exit"
    /\ m_pc' = IF m_pc = "asleep" THEN "transfer" ELSE m_pc
    /\ UNCHANGED <<packets, pkt_lost, recent, rx_thrd, threads, t_idx, t_cnt, t_whole, should_stop,
                   remVars, histVars>>

\* rx_thrd_fn ends, also after the -EFAULT of "No free space".
ThrdExit ==
    /\ t_pc \in {"exit", "no_free"}
    /\ rx_thrd' = 0
    /\ t_pc' = "none" /\ should_stop' = FALSE
    /\ ended' = TRUE
    /\ UNCHANGED <<ringVars, packets, pkt_lost, recent, threads, t_idx, t_cnt, t_whole,
                   m_pc, remVars, count, last, messages, paused, stopped, gave_up, overtaken, unseen>>

-----------------------------------------------------------------------------
(* The message pump: spi_imx_prepare_message *)

\* A new message; the core sends none once the controller is unregistered.
PrepareMessage ==
    /\ m_pc = "idle" /\ r_pc # "freed" /\ messages < MaxMessages
    /\ messages' = messages + 1
    /\ m_pc' = IF recent THEN "stamp" ELSE "reset"
    /\ UNCHANGED <<ringVars, packets, pkt_lost, recent, rx_thrd, threads, thrdVars, remVars,
                   count, last, paused, stopped, gave_up, ended, overtaken, unseen>>

PrepareReset ==
    /\ m_pc = "reset"
    /\ ResetStats
    /\ m_pc' = "clear"
    /\ UNCHANGED <<ringVars, packets, rx_thrd, threads, thrdVars, remVars, histVars>>

PrepareClear ==
    /\ m_pc = "clear"
    /\ RXRING_CLEAR
    /\ m_pc' = "stamp"
    /\ UNCHANGED <<packets, pkt_lost, recent, rx_thrd, threads, thrdVars, remVars, histVars>>

\* Mutant of PrepareStamp: a thread is started for every message.
PrepareAlwaysStarts ==
    /\ m_pc = "stamp"
    /\ recent' = TRUE /\ paused' = FALSE /\ ended' = FALSE
    /\ m_pc' = "create"
    /\ UNCHANGED <<ringVars, packets, pkt_lost, rx_thrd, threads, thrdVars, remVars,
                   count, last, messages, stopped, gave_up, overtaken, unseen>>

\* last_message_jiffies = now; if (!rx_thrd) init_rx_thread.  From here on
\* `ended' tells whether a thread ended since this message tested the pointer.
PrepareStamp ==
    /\ m_pc = "stamp"
    /\ recent' = TRUE /\ paused' = FALSE /\ ended' = FALSE
    /\ m_pc' = IF rx_thrd # 0 THEN "transfer" ELSE "create"
    /\ UNCHANGED <<ringVars, packets, pkt_lost, rx_thrd, threads, thrdVars, remVars,
                   count, last, messages, stopped, gave_up, overtaken, unseen>>

\* init_rx_thread: the thread may run before the pointer is set.  A thread
\* that remove's test of the pointer cannot have seen is `unseen'.
CreateThread ==
    /\ m_pc = "create"
    /\ t_pc' = "start" /\ should_stop' = FALSE
    /\ threads' = threads + 1
    /\ unseen' = (r_pc # "bound")
    /\ m_pc' = "assign"
    /\ UNCHANGED <<ringVars, packets, pkt_lost, recent, rx_thrd, t_idx, t_cnt, t_whole, remVars,
                   count, last, messages, paused, stopped, gave_up, ended, overtaken>>

\* Mutant of CreateFails: the error is not returned to the core.
CreateFailureIgnored ==
    /\ m_pc = "create"
    /\ m_pc' = "transfer"
    /\ UNCHANGED <<ringVars, packets, pkt_lost, recent, rx_thrd, threads, thrdVars, remVars, histVars>>

\* kthread_create fails: the pointer is set to NULL, the core ends the message.
CreateFails ==
    /\ m_pc = "create"
    /\ rx_thrd' = 0
    /\ m_pc' = "idle"
    /\ UNCHANGED <<ringVars, packets, pkt_lost, recent, threads, thrdVars, remVars, histVars>>

\* The pointer is stored, also when its thread has already ended (overtaken):
\* nobody clears it then.
AssignThread ==
    /\ m_pc = "assign"
    /\ rx_thrd' = threads
    /\ overtaken' = (overtaken \/ ~Alive)
    /\ m_pc' = "transfer"
    /\ UNCHANGED <<ringVars, packets, pkt_lost, recent, threads, thrdVars, remVars,
                   count, last, messages, paused, stopped, gave_up, ended, unseen>>

-----------------------------------------------------------------------------
(* spi_imx_transfer *)

\* Nothing ready: the lock is released ...
FindEmpty ==
    /\ m_pc = "transfer" /\ Used = 0
    /\ m_pc' = "wait"
    /\ UNCHANGED <<ringVars, packets, pkt_lost, recent, rx_thrd, threads, thrdVars, remVars, histVars>>

\* ... and then prepare_to_wait and schedule, whatever has happened since.
PrepareToWait ==
    /\ m_pc = "wait"
    /\ m_pc' = "asleep"
    /\ UNCHANGED <<ringVars, packets, pkt_lost, recent, rx_thrd, threads, thrdVars, remVars, histVars>>

\* A signal: -ERESTARTSYS.
Interrupted ==
    /\ m_pc = "asleep"
    /\ m_pc' = "idle"
    /\ UNCHANGED <<ringVars, packets, pkt_lost, recent, rx_thrd, threads, thrdVars, remVars, histVars>>

\* Mutant of TransferPacket: the packet stays in the ring.
TransferKeeps ==
    /\ m_pc = "transfer" /\ Used > 0
    /\ last' = packets[slot[tail]]
    /\ m_pc' \in {"transfer", "idle"}
    /\ UNCHANGED <<ringVars, packets, pkt_lost, recent, rx_thrd, threads, thrdVars, remVars,
                   count, messages, paused, stopped, gave_up, ended, overtaken, unseen>>

\* The oldest packet is copied out; the message goes on with another transfer
\* or ends.  "Bad RX ring" returns with the lock held, which nobody then gets.
TransferPacket ==
    /\ m_pc = "transfer" /\ Used > 0
    /\ IF slot[tail] >= 0
       THEN /\ last' = packets[slot[tail]]
            /\ RXRING_REMOVE
            /\ m_pc' \in {"transfer", "idle"}
       ELSE m_pc' = "bad_ring" /\ UNCHANGED <<last, ringVars>>
    /\ UNCHANGED <<packets, pkt_lost, recent, rx_thrd, threads, thrdVars, remVars,
                   count, messages, paused, stopped, gave_up, ended, overtaken, unseen>>

-----------------------------------------------------------------------------
(* Time, and spi_imx_remove *)

\* More than 4 s pass without a message.
Pause ==
    /\ m_pc = "idle"
    /\ recent' = FALSE /\ paused' = TRUE
    /\ UNCHANGED <<ringVars, packets, pkt_lost, rx_thrd, threads, thrdVars, m_pc, remVars,
                   count, last, messages, stopped, gave_up, ended, overtaken, unseen>>

\* if (rx_thrd): the first read of the pointer.
RemoveTest ==
    /\ r_pc = "bound"
    /\ r_ptr' = rx_thrd
    /\ r_pc' = IF rx_thrd # 0 THEN "stop" ELSE "unregister"
    /\ unseen' = (Alive /\ rx_thrd = 0)
    /\ UNCHANGED <<ringVars, packets, pkt_lost, recent, rx_thrd, threads, thrdVars, m_pc,
                   count, last, messages, paused, stopped, gave_up, ended, overtaken>>

\* Mutant of RemoveStop: the thread is left alone.
RemoveNoStop ==
    /\ r_pc = "stop"
    /\ r_pc' = "joining"
    /\ UNCHANGED <<ringVars, packets, pkt_lost, recent, rx_thrd, threads, thrdVars, m_pc, r_ptr,
                   histVars>>

(***************************************************************************)
(* kthread_stop(rx_thrd): the compiler may have kept the pointer of the    *)
(* test or read it again.  NULL is dereferenced; a thread that has ended   *)
(* is used after it was freed, which crashes or goes unnoticed.            *)
(***************************************************************************)
RemoveStop ==
    /\ r_pc = "stop"
    /\ \E p \in {r_ptr, rx_thrd} :
          IF Alive /\ p = threads
          THEN should_stop' = TRUE /\ stopped' = TRUE /\ r_pc' = "joining"
          ELSE /\ r_pc' \in IF p = 0 THEN {"oops"} ELSE {"oops", "joining"}
               /\ UNCHANGED <<should_stop, stopped>>
    /\ UNCHANGED <<ringVars, packets, pkt_lost, recent, rx_thrd, threads, t_pc, t_idx, t_cnt,
                   t_whole, m_pc, r_ptr, count, last, messages, paused, gave_up, ended,
                   overtaken, unseen>>

\* kthread_stop returns once that thread has ended.
RemoveJoined ==
    /\ r_pc = "joining" /\ ~should_stop
    /\ r_pc' = "unregister"
    /\ UNCHANGED <<ringVars, packets, pkt_lost, recent, rx_thrd, threads, thrdVars, m_pc, r_ptr, histVars>>

\* spi_bitbang_stop lets the message under way end; then the memory is freed.
RemoveFree ==
    /\ r_pc = "unregister" /\ m_pc = "idle"
    /\ r_pc' = "freed"
    /\ UNCHANGED <<ringVars, packets, pkt_lost, recent, rx_thrd, threads, thrdVars, m_pc, r_ptr, histVars>>

-----------------------------------------------------------------------------

rx_thrd_fn ==
    \/ ThrdStart \/ ThrdNeverRuns \/ ThrdClear
    \/ TakeBuffer \/ CheckLost \/ (\E sync \in BOOLEAN : paketizer(sync)) \/ StopFilling
    \/ InsertPacket \/ ThrdExit

spi_imx_prepare_message ==
    \/ PrepareMessage \/ PrepareReset \/ PrepareClear \/ PrepareStamp
    \/ CreateThread \/ CreateFails \/ AssignThread

spi_imx_transfer ==
    FindEmpty \/ PrepareToWait \/ Interrupted \/ TransferPacket

spi_imx_remove == RemoveTest \/ RemoveStop \/ RemoveJoined \/ RemoveFree

Next == rx_thrd_fn \/ spi_imx_prepare_message \/ spi_imx_transfer \/ Pause \/ spi_imx_remove

Spec == Init /\ [][Next]_vars

-----------------------------------------------------------------------------
(* Properties *)

RingTypeOK ==
    /\ head \in Idx /\ tail \in Idx
    /\ slot \in [Idx -> Idx \union {-1}] /\ flag \in [Idx -> {0, 1}]

BoolTypeOK ==
    /\ recent \in BOOLEAN /\ t_whole \in BOOLEAN /\ should_stop \in BOOLEAN
    /\ paused \in BOOLEAN /\ stopped \in BOOLEAN /\ gave_up \in BOOLEAN
    /\ ended \in BOOLEAN /\ overtaken \in BOOLEAN /\ unseen \in BOOLEAN

(***************************************************************************)
(* Every variable keeps its type; the indices of the ring wrap.            *)
(***************************************************************************)
TypeOK ==
    /\ RingTypeOK /\ BoolTypeOK
    /\ packets \in [Idx -> Nat] /\ pkt_lost \in Nat
    /\ t_pc \in {"none", "start", "clear", "take", "check", "fill", "insert", "exit", "no_free"}
    /\ t_idx \in Idx \union {-1} /\ t_cnt \in 0 .. PACKET_SIZE_DWORD - 1
    /\ m_pc \in {"idle", "reset", "clear", "stamp", "create", "assign", "transfer", "wait",
                 "asleep", "bad_ring"}
    /\ r_pc \in {"bound", "stop", "joining", "unregister", "freed", "oops"}
    /\ threads \in Nat /\ rx_thrd \in 0 .. threads /\ r_ptr \in 0 .. threads
    /\ count \in Nat /\ last \in Nat /\ messages \in Nat

\* The places of the ring that are in use.
UsedSlots == IF tail <= head THEN tail .. head - 1
             ELSE (tail .. RX_RING_PACKETS - 1) \union (0 .. head - 1)

(***************************************************************************)
(* The places in use name different buffers, and exactly those are flagged *)
(* (RXRING_INSERT, RXRING_REMOVE and RXRING_CLEAR, whoever calls them).    *)
(***************************************************************************)
RingSound ==
    /\ \A i \in UsedSlots : slot[i] \in Idx /\ flag[slot[i]] = 1
    /\ \A i, j \in UsedSlots : slot[i] = slot[j] => i = j
    /\ \A k \in Idx : flag[k] = 1 => \E i \in UsedSlots : slot[i] = k

(***************************************************************************)
(* While the thread fills a buffer outside the lock, the ring has room for *)
(* it and does not hold it, even if prepare_message clears the ring.       *)
(***************************************************************************)
BufferReserved ==
    t_pc \in {"check", "fill", "insert"} => Vacant > 0 /\ t_idx \in Idx /\ flag[t_idx] = 0

(***************************************************************************)
(* "Can not be here, but...": a free buffer is always found, and a ring    *)
(* that is not empty never yields a negative index, which would make       *)
(* spi_imx_transfer return with the lock held.                             *)
(***************************************************************************)
NoImpossibleBranch == t_pc # "no_free" /\ m_pc # "bad_ring"

(***************************************************************************)
(* The ring stays sound whoever works on it: the thread that drops the     *)
(* oldest packet and inserts, a transfer that removes, and prepare_message *)
(* that clears it while the thread fills a buffer.                         *)
(***************************************************************************)
RingInv == TypeOK /\ RingSound /\ BufferReserved /\ NoImpossibleBranch

(***************************************************************************)
(* The ring holds the newest complete packets without a gap, and none that *)
(* was transferred before: what is lost is always the oldest ("drop oldest *)
(* unreaded packet") or the whole ring.  Only kthread_stop makes           *)
(* receive_packet queue a buffer that is not complete.                     *)
(***************************************************************************)
RingHoldsNewest ==
    LET newest == IF t_pc = "insert" THEN count - 1 ELSE count IN
    ~stopped => /\ last <= newest - Used
                /\ \A k \in 0 .. Used - 1 :
                      packets[slot[(tail + k) % RX_RING_PACKETS]] = newest - Used + 1 + k

(***************************************************************************)
(* prepare_message never starts a second thread beside a living one; the   *)
(* pointer is that of the living thread, once stored; and it outlives its  *)
(* thread only when the thread ended before init_rx_thread stored it,      *)
(* or was stopped before it ran.                                           *)
(***************************************************************************)
OneThread ==
    /\ m_pc = "create" => ~Alive
    /\ Alive => rx_thrd = threads \/ m_pc = "assign"
    /\ rx_thrd # 0 => Alive \/ overtaken

(***************************************************************************)
(* A transfer that sleeps has a receive thread to wake it, unless the      *)
(* thread ended after this very message had tested rx_thrd, or its pointer *)
(* is one that init_rx_thread stored too late.                             *)
(***************************************************************************)
SleeperHasThread == m_pc = "asleep" => Alive \/ ended \/ overtaken

(***************************************************************************)
(* When spi_imx_remove frees the ring no thread uses it, but for one that  *)
(* was started, or whose pointer was stored, after remove had tested       *)
(* rx_thrd; and kthread_stop gets a thread that is alive, unless a thread  *)
(* gave up by itself.                                                      *)
(***************************************************************************)
NoThreadAfterFree ==
    /\ r_pc = "freed" /\ Alive => unseen
    /\ r_pc = "oops" => gave_up

(***************************************************************************)
(* Manual sleep (the comment above spi_imx_transfer): a transfer does not  *)
(* sleep while a packet is ready.                                          *)
(***************************************************************************)
NoSleepBesideData == m_pc = "asleep" => Used = 0

(***************************************************************************)
(* "4s": prepare_message throws packets away only after a pause.           *)
(***************************************************************************)
ClearsAfterPause == m_pc = "clear" => paused
=============================================================================
