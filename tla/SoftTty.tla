------------------------------- MODULE SoftTty -------------------------------
(***************************************************************************)
(* The run time of the bit-banged ttys under soft_uart/gpt: the receive    *)
(* hrtimer of "plain" (gpio_uart_tty.c) and "gpiod" (gpio_uart_tty_gpiod.c)*)
(* with the termios and sysfs calls that change its configuration in the   *)
(* middle of a character, and the transmit ring of tx_ring.c and of the    *)
(* gpiod driver ("ring").  The sender is a plain driver with the same      *)
(* parity and stop bits: for "plain" the same device, its transmit pin     *)
(* wired to its receive pin.                                               *)
(*                                                                         *)
(* Time goes in ticks.  The receiver's bit, NSEC_PER_SEC / baud, is Bit    *)
(* ticks; the sender's is sbit ticks: 1000000U / baud truncated to         *)
(* microseconds, plus the time the pin is written in.  A callback runs up  *)
(* to Late ticks after the timer is due.  Restarting the timer without     *)
(* moving it means that it is due again at once: the idle plain receiver   *)
(* looks at the line all the time, its expiry stays where it was, and      *)
(* hrtimer_forward_now, which moves the expiry by whole intervals until it *)
(* is in the future, starts from there.                                    *)
(*                                                                         *)
(* The baud rate is fixed.                                                 *)
(***************************************************************************)
EXTENDS Naturals, Integers, Sequences, FiniteSets

CONSTANTS DataBits,         \* 8 in the code
          Bit,              \* ticks of the receiver's bit period, even
          SenderBits,       \* how many the sender's bit may have
          Late,             \* how late a callback may be
          RingSize,         \* 512 in the code
          RingBytes,
          MaxChars, MaxCfg, MaxPuts     \* bounds: characters, changes, bytes put

ASSUME TtyAssumption ==
    /\ DataBits \in Nat \ {0} /\ RingSize \in Nat \ {0}
    /\ Bit \in Nat \ {0} /\ Bit % 2 = 0
    /\ SenderBits \subseteq 1 .. DataBits * Bit /\ Late \in 0 .. Bit - 1
    /\ MaxChars \in Nat /\ MaxCfg \in Nat /\ MaxPuts \in Nat

VARIABLES
    part,           \* "plain", "gpiod" or "ring"
    sbit,           \* ticks of the sender's bit
    tx,             \* uart_tx_byte: bits sent so far, position (0: idle), tick in the
                    \* bit, stop bits; left: bytes of the write still to send
    rx,             \* rx_busy, rx_bitpos and the timer (due: ticks until it
                    \* expires, below 0 when the callback is late); history: first, aligned
    parity,         \* cfg.parity: 0 none, 2 even, any other value odd
    stopbits, tx_enable, rx_enable, open,
    st,             \* rx_bytes, framing_errors, and what they do not count
    seen,           \* where in the frame the samples were taken: rx_byte is the bits
                    \* of the frame there
    unmoved,        \* history: idle when the frame began, and nobody disabled it since
    buf, head, tail, refused,       \* the ring
    chars, cfgs, puts

rxVars == <<rx, st, seen>>
cfgVars == <<parity, stopbits, tx_enable, rx_enable, open>>
ringVars == <<buf, head, tail, refused, puts>>
vars == <<part, sbit, tx, rxVars, cfgVars, ringVars, unmoved, chars, cfgs>>

popcount(b) == Cardinality({i \in 1 .. DataBits : b[i] = 1})

(* The parity bit makes the number of ones even (2) or odd (1).            *)
pbit(b, mode) == IF mode = 2 THEN popcount(b) % 2 ELSE 1 - (popcount(b) % 2)

ParityNext == tx.pos = DataBits + 1 /\ parity # 0

(* The bits uart_tx_byte sends after the data: it looks at parity and, for *)
(* each of the stop bits, at their number when it comes there.             *)
NextBits ==
    IF ParityNext THEN <<pbit(Tail(tx.frame), parity)>>
    ELSE IF tx.stops < stopbits THEN <<1>> ELSE <<>>

get_rx_level == IF tx.pos = 0 THEN 1 ELSE tx.frame[tx.pos]

TypeOK ==
    /\ part \in {"plain", "gpiod", "ring"} /\ sbit \in SenderBits
    /\ tx.pos \in 0 .. DataBits + 4 /\ tx.tick \in 0 .. sbit - 1
    /\ tx.stops \in 0 .. 2 /\ tx.left \in 0 .. MaxChars
    /\ rx.busy \in BOOLEAN /\ rx.armed \in BOOLEAN
    /\ rx.bitpos \in -1 .. DataBits + 1 /\ rx.due \in -Late .. 2 * Bit
    /\ rx.age \in 0 .. Bit \div 2 - 1
    /\ parity \in 0 .. 255 /\ stopbits \in 1 .. 2
    /\ tx_enable \in BOOLEAN /\ rx_enable \in BOOLEAN /\ open \in BOOLEAN
    /\ st \in [starts : Nat, rx_bytes : Nat, framing_errors : Nat, closed : Nat, fallback : Nat]
    /\ buf \in [0 .. RingSize - 1 -> RingBytes \union {0}]
    /\ head \in 0 .. RingSize - 1 /\ tail \in 0 .. RingSize - 1

tx_ring_init == head = 0 /\ tail = 0

Init ==
    /\ part \in {"plain", "gpiod", "ring"} /\ sbit \in SenderBits
    /\ tx = [frame |-> <<>>, pos |-> 0, tick |-> 0, stops |-> 0, left |-> 0]
    /\ rx = [busy |-> FALSE, bitpos |-> 0, armed |-> TRUE, due |-> Bit,
             age |-> 0, first |-> 0, aligned |-> FALSE]
    /\ parity = 0 /\ stopbits = 1 /\ tx_enable = TRUE /\ rx_enable = TRUE /\ open = FALSE
    /\ st = [starts |-> 0, rx_bytes |-> 0, framing_errors |-> 0, closed |-> 0, fallback |-> 0]
    /\ seen = <<>> /\ unmoved = FALSE
    /\ buf = [i \in 0 .. RingSize - 1 |-> 0] /\ tx_ring_init /\ refused = 0
    /\ chars = 0 /\ cfgs = 0 /\ puts = 0

----------------------------------------------------------------------------
(* The wire and time.                                                      *)

Elapse == /\ part # "ring" /\ (rx.armed => rx.due > -Late)
          /\ rx' = IF rx.armed THEN [rx EXCEPT !.due = @ - 1] ELSE rx

BitEnds == tx.pos # 0 /\ tx.tick = sbit - 1
Sent == tx.pos = Len(tx.frame)
FrameEnds == BitEnds /\ Sent /\ NextBits = <<>>

(* A write of n bytes, refused while the transmitter is disabled.          *)
gu_tty_write(n) ==
    /\ part # "ring" /\ tx_enable /\ tx.pos = 0 /\ tx.left = 0
    /\ chars + n <= MaxChars /\ chars' = chars + n
    /\ tx' = [tx EXCEPT !.left = n]
    /\ UNCHANGED <<part, sbit, rxVars, cfgVars, ringVars, unmoved, cfgs>>

(* A tick in which a start bit begins.                                     *)
uart_tx_byte(b) ==
    /\ tx.pos = 0 \/ FrameEnds
    /\ tx.left > 0 /\ tx_enable
    /\ tx' = [frame |-> <<0>> \o b, pos |-> 1, tick |-> 0, stops |-> 0, left |-> tx.left - 1]
    /\ unmoved' = (~rx.busy /\ rx.armed /\ rx_enable /\ (part = "plain" => rx.due <= 1))
    /\ Elapse
    /\ UNCHANGED <<part, sbit, st, seen, cfgVars, ringVars, chars, cfgs>>

(* Disabled in the middle of a write: the byte is not sent, but the write  *)
(* counts it as written.                                                   *)
TxSkip ==
    /\ tx.pos = 0 /\ tx.left > 0 /\ ~tx_enable
    /\ tx' = [tx EXCEPT !.left = @ - 1]
    /\ UNCHANGED <<part, sbit, rxVars, cfgVars, ringVars, unmoved, chars, cfgs>>

(* A tick in which none begins.                                            *)
Tick ==
    /\ tx.pos # 0 \/ rx.armed
    /\ tx' = CASE FrameEnds -> [tx EXCEPT !.frame = <<>>, !.pos = 0, !.tick = 0, !.stops = 0]
               [] BitEnds /\ ~Sent -> [tx EXCEPT !.pos = @ + 1, !.tick = 0]
               [] BitEnds /\ Sent /\ NextBits # <<>> ->
                     [tx EXCEPT !.frame = @ \o NextBits, !.pos = @ + 1, !.tick = 0,
                                !.stops = IF ParityNext THEN @ ELSE @ + 1]
               [] OTHER -> [tx EXCEPT !.tick = IF tx.pos = 0 THEN 0 ELSE @ + 1]
    /\ Elapse
    /\ UNCHANGED <<part, sbit, cfgVars, ringVars, st, seen, unmoved, chars, cfgs>>

----------------------------------------------------------------------------
(* rx_timer_cb.                                                            *)

Due == part # "ring" /\ rx.armed /\ rx.due <= 0
Lateness == -rx.due
RxUnchanged == UNCHANGED <<part, sbit, tx, cfgVars, ringVars, unmoved, chars, cfgs>>

Half == Bit \div 2

(* The timer is restarted where it is: age, the time since its expiry,     *)
(* modulo half a bit, goes on.                                             *)
LookAgain == [rx EXCEPT !.due = 1, !.age = (@ + Lateness + 1) % Half]

(* Disabled: plain returns HRTIMER_NORESTART and nobody starts the timer   *)
(* again; gpiod is due again at once.                                      *)
RxDisabled ==
    /\ Due /\ ~rx_enable
    /\ rx' = IF part = "plain" THEN [rx EXCEPT !.armed = FALSE] ELSE LookAgain
    /\ UNCHANGED <<st, seen>> /\ RxUnchanged

(* Mutant of RxIdle: it looks every second bit.                            *)
RxIdle_two_bits ==
    /\ Due /\ rx_enable /\ ~rx.busy /\ get_rx_level = 1
    /\ rx' = [rx EXCEPT !.due = IF part = "plain" THEN 1 ELSE 2 * Bit]
    /\ UNCHANGED <<st, seen>> /\ RxUnchanged

(* Idle: plain looks again at once, gpiod a bit after the expiry.          *)
RxIdle ==
    /\ Due /\ rx_enable /\ ~rx.busy /\ get_rx_level = 1
    /\ rx' = [(IF part = "plain" THEN LookAgain ELSE [rx EXCEPT !.due = Bit + @])
                EXCEPT !.first = 0, !.aligned = FALSE]
    /\ seen' = <<>>
    /\ UNCHANGED st /\ RxUnchanged

Begin(delay) ==
    /\ rx' = [rx EXCEPT !.busy = TRUE, !.bitpos = -1, !.due = delay, !.age = 0,
                        !.first = tx.tick + delay, !.aligned = (tx.pos = 1)]
    /\ st' = [st EXCEPT !.starts = @ + 1]
    /\ seen' = <<>>

(* A low line: a character begins.  The first sample is at the next whole  *)
(* number of half bits after the expiry.                                   *)
RxStart ==
    /\ Due /\ rx_enable /\ ~rx.busy /\ get_rx_level = 0
    /\ Begin(Half - ((rx.age + Lateness) % Half)) /\ RxUnchanged

Pos == rx.bitpos + 1

(* Mutant of RxData: the position is not advanced.                         *)
RxData_same_bit ==
    /\ Due /\ rx_enable /\ rx.busy /\ Pos < DataBits
    /\ rx' = [rx EXCEPT !.due = Bit + @]
    /\ UNCHANGED <<st, seen>> /\ RxUnchanged

(* Mutant of RxData: the next sample is a bit after this one, however late *)
(* this one is.                                                            *)
RxData_from_now ==
    /\ Due /\ rx_enable /\ rx.busy /\ Pos < DataBits
    /\ rx' = [rx EXCEPT !.bitpos = Pos, !.due = Bit]
    /\ seen' = Append(seen, tx.pos)
    /\ UNCHANGED st /\ RxUnchanged

(* Positions 0 to 7 are data.                                              *)
RxData ==
    /\ Due /\ rx_enable /\ rx.busy /\ Pos < DataBits
    /\ rx' = [rx EXCEPT !.bitpos = Pos, !.due = Bit + @]
    /\ seen' = Append(seen, tx.pos)
    /\ UNCHANGED st /\ RxUnchanged

(* Position 8 with parity: plain skips the bit ...                         *)
RxParity ==
    /\ Due /\ rx_enable /\ rx.busy /\ part = "plain" /\ Pos = DataBits /\ parity # 0
    /\ rx' = [rx EXCEPT !.bitpos = Pos, !.due = Bit + @]
    /\ seen' = Append(seen, tx.pos)
    /\ UNCHANGED st /\ RxUnchanged

(* ... and gpiod has no such case: it falls through and gives up the       *)
(* character.                                                              *)
RxFallback ==
    /\ Due /\ rx_enable /\ rx.busy /\ part = "gpiod" /\ Pos = DataBits /\ parity # 0
    /\ rx' = [rx EXCEPT !.bitpos = Pos, !.busy = FALSE]
    /\ st' = [st EXCEPT !.fallback = @ + 1]
    /\ UNCHANGED seen /\ RxUnchanged

AtStop == Pos >= DataBits + (IF parity # 0 THEN 1 ELSE 0)

(* The stop bit decides whether the character is delivered.  Plain counts  *)
(* it also when the port is closed.  The timer is due again at once.       *)
RxStop ==
    /\ Due /\ rx_enable /\ rx.busy /\ AtStop
    /\ rx' = [rx EXCEPT !.bitpos = Pos, !.busy = FALSE]
    /\ st' = CASE get_rx_level = 0 -> [st EXCEPT !.framing_errors = @ + 1]
               [] get_rx_level = 1 /\ (open \/ part = "plain") -> [st EXCEPT !.rx_bytes = @ + 1]
               [] OTHER -> [st EXCEPT !.closed = @ + 1]
    /\ seen' = Append(seen, tx.pos)
    /\ RxUnchanged

rx_timer_cb == RxDisabled \/ RxIdle \/ RxStart \/ RxData \/ RxParity \/ RxFallback \/ RxStop

----------------------------------------------------------------------------
(* Configuration, at any time.  The bound counts the changes away from the *)
(* initial configuration; going back to it is always possible.             *)

Change(back) ==
    /\ part # "ring"
    /\ back \/ cfgs < MaxCfg
    /\ cfgs' = IF back THEN cfgs ELSE cfgs + 1

gu_set_termios(mode, stop) ==
    /\ Change(mode = 0 /\ stop = 1) /\ parity' = mode /\ stopbits' = stop
    /\ UNCHANGED <<part, sbit, tx, rxVars, tx_enable, rx_enable, open, ringVars, unmoved, chars>>

(* The attributes of plain.  parity takes any value, cast to a byte.       *)
parity_store(v) ==
    /\ Change(v % 256 = 0) /\ part = "plain" /\ parity' = v % 256
    /\ UNCHANGED <<part, sbit, tx, rxVars, stopbits, tx_enable, rx_enable, open, ringVars, unmoved, chars>>

stop_store(v) ==
    /\ Change(v = 1) /\ part = "plain" /\ v \in 1 .. 2 /\ stopbits' = v
    /\ UNCHANGED <<part, sbit, tx, rxVars, parity, tx_enable, rx_enable, open, ringVars, unmoved, chars>>

txen_store(v) ==
    /\ Change(v) /\ part = "plain" /\ tx_enable' = v
    /\ UNCHANGED <<part, sbit, tx, rxVars, parity, stopbits, rx_enable, open, ringVars, unmoved, chars>>

(* It does not start the timer.                                            *)
rxen_store(v) ==
    /\ Change(v) /\ part = "plain" /\ rx_enable' = v
    /\ unmoved' = (unmoved /\ v)
    /\ UNCHANGED <<part, sbit, tx, rxVars, parity, stopbits, tx_enable, open, ringVars, chars>>

gu_tty_open ==
    /\ Change(FALSE) /\ ~open /\ open' = TRUE
    /\ UNCHANGED <<part, sbit, tx, rxVars, parity, stopbits, tx_enable, rx_enable, ringVars, unmoved, chars>>

gu_tty_close ==
    /\ Change(TRUE) /\ open /\ open' = FALSE
    /\ UNCHANGED <<part, sbit, tx, rxVars, parity, stopbits, tx_enable, rx_enable, ringVars, unmoved, chars>>

----------------------------------------------------------------------------
(* The transmit ring.  A put or get is one critical section.               *)

tx_ring_full == (head + 1) % RingSize = tail
tx_ring_empty == head = tail

(* Mutant of tx_ring_put: a full ring is not refused.                      *)
tx_ring_put_over(b) ==
    /\ buf' = [buf EXCEPT ![head] = b] /\ head' = (head + 1) % RingSize
    /\ UNCHANGED refused

tx_ring_put(b) ==
    IF tx_ring_full
    THEN refused' = refused + 1 /\ UNCHANGED <<buf, head>>
    ELSE /\ buf' = [buf EXCEPT ![head] = b]
         /\ head' = (head + 1) % RingSize
         /\ UNCHANGED refused

(* One byte of the gpiod driver's gu_tty_write, which reports the byte as  *)
(* written whether the ring took it or not.                                *)
RingWrite(b) ==
    /\ part = "ring" /\ puts < MaxPuts /\ puts' = puts + 1
    /\ tx_ring_put(b)
    /\ UNCHANGED <<part, sbit, tx, rxVars, cfgVars, tail, unmoved, chars, cfgs>>

tx_ring_get ==
    /\ part = "ring" /\ ~tx_ring_empty
    /\ tail' = (tail + 1) % RingSize
    /\ UNCHANGED <<part, sbit, tx, rxVars, cfgVars, buf, head, refused, puts, unmoved, chars, cfgs>>

tx_ring_count == (head + RingSize - tail) % RingSize

Next ==
    \/ \E b \in [1 .. DataBits -> {0, 1}] : uart_tx_byte(b)
    \/ \E n \in 1 .. MaxChars : gu_tty_write(n)
    \/ Tick \/ TxSkip
    \/ rx_timer_cb
    \/ \E mode \in {0, 2}, stop \in 1 .. 2 : gu_set_termios(mode, stop)
    \/ \E v \in {0, 3, 256} : parity_store(v)
    \/ \E v \in 0 .. 3 : stop_store(v)
    \/ \E v \in BOOLEAN : txen_store(v) \/ rxen_store(v)
    \/ gu_tty_open \/ gu_tty_close
    \/ \E b \in RingBytes : RingWrite(b)
    \/ tx_ring_get

Spec == Init /\ [][Next]_vars

(* Time passes and an expired timer runs.                                  *)
FairSpec == Spec /\ WF_vars(Tick) /\ WF_vars(rx_timer_cb)

----------------------------------------------------------------------------
(* Properties.                                                             *)

(* A receiver that is idle when a frame begins (a plain one: and looking   *)
(* already, which begins a bit after the probe), and is not disabled       *)
(* during the start bit, notices the start bit when the sender's bit is    *)
(* longer than the time between two looks: a callback's lateness for       *)
(* plain, and a bit more for gpiod, which looks at the line only once in a *)
(* bit.  (A gpiod receiver misses shorter start bits, which 1000000U /     *)
(* baud makes at 115200 baud.)                                             *)
LooksInTime == sbit > Late + (IF part = "plain" THEN 0 ELSE Bit - 1)

StartBitNoticed ==
    tx.pos = 2 /\ tx.tick = 0 /\ unmoved /\ LooksInTime => rx.busy

(* Whatever parity and the port become meanwhile, and however late the     *)
(* callbacks are, sample k of a character is taken k - 1 receiver's bits   *)
(* after the first and at most one callback's lateness later: the delays   *)
(* of several callbacks do not add up.  The bit of the frame it falls into *)
(* is the one the sender is sending then, as long as that is before the    *)
(* shortest frame ends.  (The first sample is half a bit after the start   *)
(* bit is noticed, mostly in the start bit: see FirstSampleIsData.)        *)
SampleTime(k) == rx.first + (k - 1) * Bit
InFrame(k) == SampleTime(k) + Late < (DataBits + 2) * sbit

SampleSchedule ==
    rx.aligned => \A k \in 1 .. Len(seen) : k <= DataBits + 1 /\ InFrame(k) =>
        /\ (seen[k] - 1) * sbit <= SampleTime(k) + Late
        /\ SampleTime(k) < seen[k] * sbit

(* Every character begun is counted, delivered or refused, once, however   *)
(* parity and the port change under it; only gpiod gives up characters,    *)
(* and only where parity is asked for.                                     *)
CharactersCounted ==
    /\ st.starts = st.rx_bytes + st.framing_errors + st.closed + st.fallback
                     + (IF rx.busy THEN 1 ELSE 0)
    /\ part = "plain" => st.closed = 0 /\ st.fallback = 0

(* rx_timer_cb samples the frame on schedule and accounts for every        *)
(* character.                                                              *)
ReceiveInv == TypeOK /\ SampleSchedule /\ CharactersCounted

(* A character begun ends, unless the receiver is disabled.                *)
CharacterEnds == rx.busy ~> (~rx.busy \/ ~rx.armed)

(* The ring implements a queue of one byte less than its size.             *)
RingContent == [i \in 1 .. tx_ring_count |-> buf[(tail + i - 1) % RingSize]]
Queue == INSTANCE BoundedQueue
            WITH Bytes <- RingBytes, Capacity <- RingSize - 1, queue <- RingContent
IsBoundedQueue == Queue!Spec

(* The first sample falls into the first data bit.  (It falls into the     *)
(* start bit: it comes half a bit after the start bit is noticed.)         *)
FirstSampleIsData == rx.aligned /\ seen # <<>> => seen[1] = 2
=============================================================================
