---------------------------- MODULE SoftTtyProofs ----------------------------
(***************************************************************************)
(* Proofs about SoftTty, for any number of data bits, any length of the    *)
(* sender's and the receiver's bit, any lateness of a callback below a     *)
(* bit, any size of the ring and any number of changes to the              *)
(* configuration.                                                          *)
(***************************************************************************)
EXTENDS SoftTty, FiniteSetTheorems, SequenceTheorems, TLAPS

----------------------------------------------------------------------------
(* The transmit ring                                                       *)

RingInv ==
    /\ buf \in [0 .. RingSize - 1 -> RingBytes \union {0}]
    /\ head \in 0 .. RingSize - 1 /\ tail \in 0 .. RingSize - 1

(* Only the two operations touch the ring.                                 *)
LEMMA RingSteps ==
  ASSUME [Next]_vars
  PROVE  \/ UNCHANGED <<buf, head, tail, refused>>
         \/ \E b \in RingBytes : tx_ring_put(b) /\ UNCHANGED tail
         \/ ~tx_ring_empty /\ tail' = (tail + 1) % RingSize /\ UNCHANGED <<buf, head, refused>>
<1> USE DEF ringVars
<1>1. ASSUME NEW b \in RingBytes, RingWrite(b) PROVE tx_ring_put(b) /\ UNCHANGED tail
  BY <1>1 DEF RingWrite
<1>2. ASSUME tx_ring_get
      PROVE  ~tx_ring_empty /\ tail' = (tail + 1) % RingSize /\ UNCHANGED <<buf, head, refused>>
  BY <1>2 DEF tx_ring_get
<1>3. ASSUME NEW b, uart_tx_byte(b) PROVE UNCHANGED ringVars
  BY <1>3 DEF uart_tx_byte
<1>4. ASSUME NEW n, gu_tty_write(n) PROVE UNCHANGED ringVars
  BY <1>4 DEF gu_tty_write
<1>5. ASSUME Tick \/ TxSkip PROVE UNCHANGED ringVars
  BY <1>5 DEF Tick, TxSkip
<1>6. ASSUME rx_timer_cb PROVE UNCHANGED ringVars
  BY <1>6 DEF rx_timer_cb, RxDisabled, RxIdle, RxStart, RxData, RxParity, RxFallback, RxStop,
     RxUnchanged
<1>7. ASSUME NEW mode, NEW stop, gu_set_termios(mode, stop) PROVE UNCHANGED ringVars
  BY <1>7 DEF gu_set_termios
<1>8. ASSUME NEW v, parity_store(v) \/ stop_store(v) \/ txen_store(v) \/ rxen_store(v)
      PROVE  UNCHANGED ringVars
  BY <1>8 DEF parity_store, stop_store, txen_store, rxen_store
<1>9. ASSUME gu_tty_open \/ gu_tty_close \/ UNCHANGED vars PROVE UNCHANGED ringVars
  BY <1>9 DEF gu_tty_open, gu_tty_close, vars
<1> QED BY <1>1, <1>2, <1>3, <1>4, <1>5, <1>6, <1>7, <1>8, <1>9 DEF Next

(* Indices below the size wrap at most once.                               *)
LEMMA WrapsOnce ==
  ASSUME NEW n \in Nat \ {0}, NEW x \in 0 .. 2 * n - 1
  PROVE  (x % n) = IF x < n THEN x ELSE x - n
OBVIOUS

(* The number of bytes inside, and the place of each.                      *)
LEMMA RingPlaces ==
  ASSUME RingInv
  PROVE  /\ tx_ring_count = IF tail <= head THEN head - tail ELSE head + RingSize - tail
         /\ tx_ring_count \in 0 .. RingSize - 1
         /\ tx_ring_full <=> tx_ring_count = RingSize - 1
         /\ tx_ring_empty <=> tx_ring_count = 0
         /\ (head + 1) % RingSize = IF head + 1 < RingSize THEN head + 1 ELSE 0
         /\ (tail + 1) % RingSize = IF tail + 1 < RingSize THEN tail + 1 ELSE 0
         /\ \A i \in 1 .. RingSize : /\ (tail + i - 1) % RingSize = IF tail + i - 1 < RingSize
                                                                THEN tail + i - 1
                                                                ELSE tail + i - 1 - RingSize
                                     /\ (tail + i - 1) % RingSize \in 0 .. RingSize - 1
<1>0. /\ RingSize \in Nat \ {0} /\ head \in Nat /\ tail \in Nat
      /\ head <= RingSize - 1 /\ tail <= RingSize - 1
  BY TtyAssumption DEF RingInv
<1>1. tx_ring_count = IF tail <= head THEN head - tail ELSE head + RingSize - tail
  <2>1. head + RingSize - tail \in 0 .. 2 * RingSize - 1
    BY <1>0
  <2>2. (head + RingSize - tail) % RingSize
           = IF head + RingSize - tail < RingSize THEN head + RingSize - tail
             ELSE (head + RingSize - tail) - RingSize
    BY <1>0, <2>1, WrapsOnce
  <2> QED BY <1>0, <2>2 DEF tx_ring_count
<1>2. /\ (head + 1) % RingSize = IF head + 1 < RingSize THEN head + 1 ELSE 0
      /\ (tail + 1) % RingSize = IF tail + 1 < RingSize THEN tail + 1 ELSE 0
  <2>1. head + 1 \in 0 .. 2 * RingSize - 1 /\ tail + 1 \in 0 .. 2 * RingSize - 1
    BY <1>0
  <2>2. /\ (head + 1) % RingSize = IF head + 1 < RingSize THEN head + 1 ELSE (head + 1) - RingSize
        /\ (tail + 1) % RingSize = IF tail + 1 < RingSize THEN tail + 1 ELSE (tail + 1) - RingSize
    BY <1>0, <2>1, WrapsOnce
  <2> QED BY <1>0, <2>2
<1>3. ASSUME NEW i \in 1 .. RingSize
      PROVE  /\ (tail + i - 1) % RingSize = IF tail + i - 1 < RingSize
                                            THEN tail + i - 1 ELSE tail + i - 1 - RingSize
             /\ (tail + i - 1) % RingSize \in 0 .. RingSize - 1
  <2>1. tail + i - 1 \in 0 .. 2 * RingSize - 1
    BY <1>0
  <2>2. (tail + i - 1) % RingSize = IF tail + i - 1 < RingSize
                                    THEN tail + i - 1 ELSE (tail + i - 1) - RingSize
    BY <1>0, <2>1, WrapsOnce
  <2> QED BY <1>0, <2>1, <2>2
<1>4. tx_ring_count \in 0 .. RingSize - 1 /\ (tx_ring_empty <=> tx_ring_count = 0)
  BY <1>0, <1>1 DEF tx_ring_empty
<1>5. tx_ring_full <=> tx_ring_count = RingSize - 1
  BY <1>0, <1>1, <1>2 DEF tx_ring_full
<1> QED BY <1>1, <1>2, <1>3, <1>4, <1>5

(* The indices stay inside the ring.                                       *)
LEMMA RingStep == ASSUME RingInv, [Next]_vars PROVE RingInv'
<1>0. /\ RingSize \in Nat \ {0} /\ head \in 0 .. RingSize - 1 /\ tail \in 0 .. RingSize - 1
      /\ buf \in [0 .. RingSize - 1 -> RingBytes \union {0}]
  BY TtyAssumption DEF RingInv
<1>1. (head + 1) % RingSize \in 0 .. RingSize - 1 /\ (tail + 1) % RingSize \in 0 .. RingSize - 1
  BY <1>0, RingPlaces
<1>2. CASE UNCHANGED <<buf, head, tail, refused>>
  BY <1>2 DEF RingInv
<1>3. ASSUME NEW b \in RingBytes, tx_ring_put(b), UNCHANGED tail PROVE RingInv'
  BY <1>0, <1>1, <1>3 DEF tx_ring_put, RingInv
<1>4. CASE tail' = (tail + 1) % RingSize /\ UNCHANGED <<buf, head>>
  BY <1>0, <1>1, <1>4 DEF RingInv
<1> QED BY <1>2, <1>3, <1>4, RingSteps

(* An interval that starts at 1 determines its end.                        *)
LEMMA SameEnd == ASSUME NEW a \in Nat, NEW b \in Nat, 1 .. a = 1 .. b PROVE a = b
<1>1. \A i \in Nat \ {0} : i <= a <=> i <= b
  <2>1. \A i \in Nat \ {0} : (i \in 1 .. a <=> i <= a) /\ (i \in 1 .. b <=> i <= b)
    OBVIOUS
  <2> QED BY <2>1
<1> QED BY <1>1

(* The content is a sequence of as many bytes as are counted.              *)
LEMMA ContentSeq ==
  ASSUME RingInv
  PROVE  /\ RingContent \in Seq(RingBytes \union {0}) /\ Len(RingContent) = tx_ring_count
         /\ DOMAIN RingContent = 1 .. tx_ring_count
         /\ \A i \in 1 .. tx_ring_count : RingContent[i] = buf[(tail + i - 1) % RingSize]
<1> DEFINE n == tx_ring_count
<1>0. RingSize \in Nat \ {0} /\ n \in 0 .. RingSize - 1
  BY RingPlaces, TtyAssumption
<1> HIDE DEF n
<1>1. \A i \in 1 .. n : buf[(tail + i - 1) % RingSize] \in RingBytes \union {0}
  <2> SUFFICES ASSUME NEW i \in 1 .. n PROVE buf[(tail + i - 1) % RingSize] \in RingBytes \union {0}
    OBVIOUS
  <2>1. i \in 1 .. RingSize
    BY <1>0
  <2>2. (tail + i - 1) % RingSize \in 0 .. RingSize - 1
    BY <2>1, RingPlaces
  <2> QED BY <2>2 DEF RingInv
<1>2. RingContent = [i \in 1 .. n |-> buf[(tail + i - 1) % RingSize]]
  BY DEF RingContent, n
<1>3. RingContent \in [1 .. n -> RingBytes \union {0}]
  BY <1>1, <1>2
<1>4. RingContent \in Seq(RingBytes \union {0}) /\ n \in Nat
  BY <1>0, <1>3, SeqDef
<1>5. Len(RingContent) = n
  <2>1. DOMAIN RingContent = 1 .. Len(RingContent) /\ Len(RingContent) \in Nat
    BY <1>4, LenProperties
  <2>2. DOMAIN RingContent = 1 .. n
    BY <1>2
  <2> QED BY <1>4, <2>1, <2>2, SameEnd
<1> QED BY <1>2, <1>4, <1>5 DEF n

(* The count for any two indices.                                          *)
LEMMA CountOf ==
  ASSUME NEW n \in Nat \ {0}, NEW h \in 0 .. n - 1, NEW t \in 0 .. n - 1
  PROVE  (h + n - t) % n = IF t <= h THEN h - t ELSE h + n - t
<1>1. h + n - t \in 0 .. 2 * n - 1
  OBVIOUS
<1>2. (h + n - t) % n = IF h + n - t < n THEN h + n - t ELSE (h + n - t) - n
  BY <1>1, WrapsOnce
<1> QED BY <1>2

(* A byte put into a ring that is not full comes after the others.         *)
LEMMA PutAppends ==
  ASSUME RingInv, NEW b \in RingBytes, ~tx_ring_full,
         buf' = [buf EXCEPT ![head] = b], head' = (head + 1) % RingSize, tail' = tail
  PROVE  RingContent' = Append(RingContent, b)
<1> DEFINE n == tx_ring_count
<1>0. /\ RingSize \in Nat \ {0} /\ head \in 0 .. RingSize - 1 /\ tail \in 0 .. RingSize - 1
      /\ buf \in [0 .. RingSize - 1 -> RingBytes \union {0}] /\ n \in Nat /\ n < RingSize - 1
      /\ n = IF tail <= head THEN head - tail ELSE head + RingSize - tail
      /\ head' = IF head + 1 < RingSize THEN head + 1 ELSE 0
  BY TtyAssumption, RingPlaces DEF RingInv
<1>1. tx_ring_count' = n + 1
  <2>1. head' \in 0 .. RingSize - 1
    BY <1>0
  <2>2. (head' + RingSize - tail') % RingSize
           = IF tail' <= head' THEN head' - tail' ELSE head' + RingSize - tail'
    BY <1>0, <2>1, CountOf
  <2>3. tx_ring_count' = (head' + RingSize - tail') % RingSize
    BY DEF tx_ring_count
  <2> HIDE DEF n
  <2>4. CASE tail <= head /\ head + 1 < RingSize
    <3>1. head' = head + 1 /\ n = head - tail /\ tail' = tail
      BY <1>0, <2>4
    <3>2. tail' <= head' /\ head' - tail' = n + 1
      BY <1>0, <2>4, <3>1
    <3> QED BY <2>2, <2>3, <3>2
  <2>5. CASE tail <= head /\ ~(head + 1 < RingSize)
    <3>1. head' = 0 /\ head = RingSize - 1 /\ n = RingSize - 1 - tail /\ tail > 0
      BY <1>0, <2>5
    <3> QED BY <1>0, <2>2, <2>3, <3>1
  <2>6. CASE ~(tail <= head)
    <3>1. head' = head + 1 /\ n = head + RingSize - tail /\ ~(tail <= head + 1)
      BY <1>0, <2>6
    <3> QED BY <1>0, <2>2, <2>3, <3>1
  <2> QED BY <2>4, <2>5, <2>6
<1>2. /\ RingContent \in Seq(RingBytes \union {0}) /\ Len(RingContent) = n
      /\ \A i \in 1 .. n : RingContent[i] = buf[(tail + i - 1) % RingSize]
  BY ContentSeq
<1>3. \A i \in 1 .. RingSize : (tail + i - 1) % RingSize
                                  = IF tail + i - 1 < RingSize
                                    THEN tail + i - 1 ELSE tail + i - 1 - RingSize
  BY RingPlaces
<1>4. RingContent' = [i \in 1 .. tx_ring_count' |-> buf'[(tail' + i - 1) % RingSize]]
  BY DEF RingContent
<1> HIDE DEF n
<1>5. ASSUME NEW i \in 1 .. n + 1
      PROVE  buf'[(tail + i - 1) % RingSize] = IF i <= n THEN RingContent[i] ELSE b
  <2>0. i \in 1 .. RingSize
    BY <1>0
  <2> DEFINE pl == (tail + i - 1) % RingSize
  <2>1. pl = IF tail + i - 1 < RingSize THEN tail + i - 1 ELSE tail + i - 1 - RingSize
    BY <1>3, <2>0
  <2> HIDE DEF pl
  <2>2. CASE i <= n
    <3>1. pl # head /\ pl \in 0 .. RingSize - 1 /\ i \in 1 .. n
      BY <1>0, <2>0, <2>1, <2>2
    <3>2. RingContent[i] = buf[pl]
      BY <1>2, <3>1 DEF pl
    <3>3. buf'[pl] = buf[pl]
      BY <1>0, <3>1
    <3> QED BY <2>2, <3>2, <3>3 DEF pl
  <2>3. CASE ~(i <= n)
    <3>1. i = n + 1
      BY <1>0, <2>3
    <3>2. pl = head
      BY <1>0, <2>1, <3>1
    <3>3. buf'[pl] = b
      BY <1>0, <3>2
    <3> QED BY <2>3, <3>3 DEF pl
  <2> QED BY <2>2, <2>3
<1>6. RingContent' = [i \in 1 .. n + 1 |-> IF i <= n THEN RingContent[i] ELSE b]
  BY <1>1, <1>4, <1>5
<1>7. Append(RingContent, b) = [i \in 1 .. n + 1 |-> IF i <= n THEN RingContent[i] ELSE b]
  <2> DEFINE c == RingContent
             d == Append(c, b)
  <2>1. /\ d \in Seq(RingBytes \union {0}) /\ Len(d) = n + 1 /\ d[n + 1] = b
        /\ \A i \in 1 .. n : d[i] = c[i]
    BY <1>2, AppendProperties
  <2> HIDE DEF d
  <2>2. d = [i \in 1 .. n + 1 |-> d[i]]
    BY <2>1
  <2>3. ASSUME NEW i \in 1 .. n + 1 PROVE d[i] = IF i <= n THEN c[i] ELSE b
    <3>1. CASE i <= n
      BY <1>0, <2>1, <3>1
    <3>2. CASE ~(i <= n)
      <4>1. i = n + 1
        BY <1>0, <3>2
      <4> QED BY <2>1, <3>2, <4>1
    <3> QED BY <3>1, <3>2
  <2>4. d = [i \in 1 .. n + 1 |-> IF i <= n THEN c[i] ELSE b]
    BY <2>2, <2>3
  <2> QED BY <2>4 DEF d
<1> QED BY <1>6, <1>7

(* The oldest byte is taken.                                               *)
LEMMA GetTakesFirst ==
  ASSUME RingInv, ~tx_ring_empty,
         tail' = (tail + 1) % RingSize, UNCHANGED <<buf, head>>
  PROVE  RingContent # <<>> /\ RingContent' = Tail(RingContent)
<1> DEFINE n == tx_ring_count
<1>0. /\ RingSize \in Nat \ {0} /\ head \in 0 .. RingSize - 1 /\ tail \in 0 .. RingSize - 1
      /\ n \in Nat /\ n > 0 /\ n <= RingSize - 1
      /\ n = IF tail <= head THEN head - tail ELSE head + RingSize - tail
      /\ tail' = IF tail + 1 < RingSize THEN tail + 1 ELSE 0
  BY TtyAssumption, RingPlaces DEF RingInv
<1>1. tail' \in 0 .. RingSize - 1
  BY <1>0
<1>2. tx_ring_count' = n - 1
  <2>1. (head' + RingSize - tail') % RingSize
           = IF tail' <= head' THEN head' - tail' ELSE head' + RingSize - tail'
    BY <1>0, <1>1, CountOf
  <2>2. tx_ring_count' = (head' + RingSize - tail') % RingSize
    BY DEF tx_ring_count
  <2> HIDE DEF n
  <2> QED BY <1>0, <2>1, <2>2
<1>3. /\ RingContent \in Seq(RingBytes \union {0}) /\ Len(RingContent) = n
      /\ \A i \in 1 .. n : RingContent[i] = buf[(tail + i - 1) % RingSize]
  BY ContentSeq
<1>4. \A i \in 1 .. RingSize : (tail + i - 1) % RingSize
                                  = IF tail + i - 1 < RingSize
                                    THEN tail + i - 1 ELSE tail + i - 1 - RingSize
  BY RingPlaces
<1>5. RingContent' = [i \in 1 .. tx_ring_count' |-> buf'[(tail' + i - 1) % RingSize]]
  BY DEF RingContent
<1> HIDE DEF n
<1>6. RingContent # <<>>
  BY <1>0, <1>3
<1>7. ASSUME NEW i \in 1 .. n - 1 PROVE buf'[(tail' + i - 1) % RingSize] = RingContent[i + 1]
  <2>0. i + 1 \in 1 .. RingSize /\ i + 1 \in 1 .. n /\ i \in Nat
    BY <1>0
  <2>1. (tail + (i + 1) - 1) % RingSize = IF tail + (i + 1) - 1 < RingSize
                                    THEN tail + (i + 1) - 1 ELSE tail + (i + 1) - 1 - RingSize
    BY <1>4, <2>0
  <2>2. tail' + i - 1 \in 0 .. 2 * RingSize - 1
    BY <1>0, <1>1, <2>0
  <2>3. (tail' + i - 1) % RingSize = IF tail' + i - 1 < RingSize
                                     THEN tail' + i - 1 ELSE (tail' + i - 1) - RingSize
    BY <1>0, <2>2, WrapsOnce
  <2>4. (tail' + i - 1) % RingSize = (tail + (i + 1) - 1) % RingSize
    BY <1>0, <2>0, <2>1, <2>3
  <2> QED BY <1>3, <2>0, <2>4
<1>8. RingContent' = [i \in 1 .. n - 1 |-> RingContent[i + 1]]
  BY <1>2, <1>5, <1>7
<1>9. Tail(RingContent) = [i \in 1 .. n - 1 |-> RingContent[i + 1]]
  <2> DEFINE c == RingContent
             d == Tail(c)
  <2>1. /\ d \in Seq(RingBytes \union {0}) /\ Len(d) = n - 1
        /\ \A i \in 1 .. n - 1 : d[i] = c[i + 1]
    BY <1>3, <1>6, HeadTailProperties
  <2> HIDE DEF d
  <2>2. d = [i \in 1 .. n - 1 |-> d[i]]
    BY <2>1
  <2>3. d = [i \in 1 .. n - 1 |-> c[i + 1]]
    BY <2>1, <2>2
  <2> QED BY <2>3 DEF d
<1> QED BY <1>6, <1>8, <1>9

(* The ring begins empty.                                                  *)
LEMMA InitRing == ASSUME Init PROVE RingInv
<1>1. head = 0 /\ tail = 0 /\ buf = [i \in 0 .. RingSize - 1 |-> 0]
  BY DEF Init, tx_ring_init
<1>2. 0 \in 0 .. RingSize - 1
  BY TtyAssumption
<1> QED BY <1>1, <1>2 DEF RingInv

(***************************************************************************)
(* For any size of the ring: tx_ring.c implements a queue that holds one   *)
(* byte less than its size, refuses a byte only when it is full and gives  *)
(* the bytes out in order.                                                 *)
(***************************************************************************)
THEOREM RingIsQueue == Spec => IsBoundedQueue
<1>1. ASSUME Init PROVE Queue!Init
  <2>1. head = 0 /\ tail = 0 /\ refused = 0 /\ RingInv
    BY <1>1, InitRing DEF Init, tx_ring_init
  <2>2. tx_ring_count = 0
    BY <2>1, RingPlaces DEF tx_ring_empty
  <2>3. RingContent \in Seq(RingBytes \union {0}) /\ Len(RingContent) = 0
    BY <2>1, <2>2, ContentSeq
  <2>4. RingContent = <<>>
    BY <2>3, EmptySeq
  <2> QED BY <2>1, <2>4 DEF Queue!Init
<1>2. ASSUME RingInv, [Next]_vars PROVE [Queue!Next]_<<RingContent, refused>>
  <2>0. /\ RingSize \in Nat \ {0} /\ Len(RingContent) = tx_ring_count
        /\ tx_ring_count \in 0 .. RingSize - 1
        /\ tx_ring_full <=> tx_ring_count = RingSize - 1
    BY <1>2, ContentSeq, RingPlaces, TtyAssumption
  <2>1. CASE UNCHANGED <<buf, head, tail, refused>>
    BY <2>1 DEF RingContent, tx_ring_count
  <2>2. ASSUME NEW b \in RingBytes, tx_ring_put(b), UNCHANGED tail PROVE Queue!Put(b)
    <3>1. CASE tx_ring_full
      <4>1. refused' = refused + 1 /\ UNCHANGED <<buf, head, tail>>
        BY <2>2, <3>1 DEF tx_ring_put
      <4>2. RingContent' = RingContent
        BY <4>1 DEF RingContent, tx_ring_count
      <4>3. ~(Len(RingContent) < RingSize - 1)
        BY <2>0, <3>1
      <4> QED BY <4>1, <4>2, <4>3 DEF Queue!Put
    <3>2. CASE ~tx_ring_full
      <4>1. /\ buf' = [buf EXCEPT ![head] = b] /\ head' = (head + 1) % RingSize
            /\ UNCHANGED <<refused, tail>>
        BY <2>2, <3>2 DEF tx_ring_put
      <4>2. RingContent' = Append(RingContent, b)
        BY <1>2, <3>2, <4>1, PutAppends
      <4>3. Len(RingContent) < RingSize - 1
        BY <2>0, <3>2
      <4> QED BY <4>1, <4>2, <4>3 DEF Queue!Put
    <3> QED BY <3>1, <3>2
  <2>3. ASSUME ~tx_ring_empty, tail' = (tail + 1) % RingSize, UNCHANGED <<buf, head, refused>>
        PROVE  Queue!Get
    BY <1>2, <2>3, GetTakesFirst DEF Queue!Get
  <2> QED BY <1>2, <2>1, <2>2, <2>3, RingSteps DEF Queue!Next
<1>3. Init => RingInv /\ Queue!Init
  BY <1>1, InitRing
<1>4. RingInv /\ [Next]_vars => RingInv' /\ [Queue!Next]_<<RingContent, refused>>
  BY <1>2, RingStep
<1> QED BY <1>3, <1>4, PTL DEF Spec, IsBoundedQueue, Queue!Spec

----------------------------------------------------------------------------
(* The sender                                                              *)

TxRecs == [frame : Seq({0, 1}), pos : Nat, tick : Nat, stops : 0 .. 2,
           left : 0 .. MaxChars]

(***************************************************************************)
(* A frame is a start bit, the data bits, perhaps a parity bit, and the    *)
(* stop bits sent so far; parity and stop bits come when all is sent.  So  *)
(* no frame ends before the second bit after its data.                     *)
(***************************************************************************)
TxInv ==
    /\ part \in {"plain", "gpiod", "ring"} /\ sbit \in SenderBits
    /\ tx \in TxRecs /\ tx.tick < sbit
    /\ parity \in 0 .. 255 /\ stopbits \in 1 .. 2
    /\ tx.pos = 0 => tx.tick = 0 /\ tx.stops = 0
    /\ tx.pos # 0 =>
          /\ tx.frame[1] = 0 /\ tx.pos <= Len(tx.frame)
          /\ \/ Len(tx.frame) = DataBits + 1 /\ tx.stops = 0
             \/ tx.pos = Len(tx.frame) /\ tx.pos \in {DataBits + 1 + tx.stops, DataBits + 2 + tx.stops}

(* Half a bit, and what the constants are.                                 *)
LEMMA Periods ==
  /\ Bit \in Nat /\ Half \in Nat /\ Half >= 1 /\ Half < Bit /\ Half + Half = Bit
  /\ DataBits \in Nat /\ DataBits >= 1 /\ MaxChars \in Nat
  /\ Late \in Nat /\ Late < Bit /\ DataBits * Bit \in Nat
  /\ \A s \in SenderBits : s \in Nat /\ s >= 1 /\ s <= DataBits * Bit
<1>1. DataBits \in Nat /\ DataBits >= 1 /\ MaxChars \in Nat /\ Bit \in Nat /\ Bit >= 1 /\ Bit % 2 = 0
  BY TtyAssumption
<1>2. DataBits * Bit \in Nat
  BY <1>1
<1>3. /\ Late \in Nat /\ Late < Bit
      /\ \A s \in SenderBits : s \in Nat /\ s >= 1 /\ s <= DataBits * Bit
  BY <1>1, <1>2, TtyAssumption
<1>4. Half \in Nat /\ Half >= 1 /\ Half < Bit /\ Half + Half = Bit
  BY <1>1 DEF Half
<1> QED BY <1>1, <1>2, <1>3, <1>4

(* The parity bit is a bit.                                                *)
LEMMA ParityIsBit == \A b, mode : pbit(b, mode) \in {0, 1}
<1> SUFFICES ASSUME NEW b, NEW mode PROVE pbit(b, mode) \in {0, 1}
  OBVIOUS
<1> DEFINE S == {i \in 1 .. DataBits : b[i] = 1}
<1>1. DataBits \in Nat
  BY TtyAssumption
<1>2. S \subseteq 1 .. DataBits /\ IsFiniteSet(1 .. DataBits)
  BY <1>1, FS_Interval
<1>3. IsFiniteSet(S)
  BY <1>2, FS_Subset
<1>4. Cardinality(S) \in Nat
  BY <1>3, FS_CardinalityType
<1>5. popcount(b) \in Nat
  BY <1>4 DEF popcount
<1> QED BY <1>5 DEF pbit

(* What the receiver sees is a bit, and in the start bit it is low.        *)
LEMMA LevelIsBit ==
  ASSUME TxInv PROVE get_rx_level \in {0, 1} /\ (tx.pos = 1 => get_rx_level = 0)
<1>1. tx.frame \in Seq({0, 1}) /\ tx.pos \in Nat
  BY DEF TxInv, TxRecs
<1>2. CASE tx.pos # 0
  <2>1. tx.pos \in 1 .. Len(tx.frame) /\ tx.frame[1] = 0
    BY <1>1, <1>2 DEF TxInv
  <2> QED BY <1>1, <1>2, <2>1 DEF get_rx_level
<1> QED BY <1>2 DEF get_rx_level

(* How a tick moves the sender.                                            *)
Moves ==
    \/ tx.pos = 0 /\ tx'.pos = 0 /\ tx'.tick = 0
    \/ tx.pos # 0 /\ tx.tick < sbit - 1 /\ tx'.pos = tx.pos /\ tx'.tick = tx.tick + 1
    \/ tx.pos # 0 /\ tx.tick = sbit - 1 /\ tx'.pos = tx.pos + 1 /\ tx'.tick = 0
    \/ tx.pos >= DataBits + 2 /\ tx.tick = sbit - 1 /\ tx'.pos = 0 /\ tx'.tick = 0

(* A frame that ends has sent a stop bit.                                  *)
LEMMA FrameEndsLate ==
  ASSUME TxInv, FrameEnds PROVE tx.pos >= DataBits + 2 /\ tx.tick = sbit - 1
<1>0. /\ tx.pos \in Nat /\ tx.stops \in Nat /\ DataBits \in Nat /\ Len(tx.frame) = tx.pos
      /\ tx.pos # 0 /\ tx.tick = sbit - 1 /\ stopbits \in 1 .. 2 /\ NextBits = <<>>
  BY Periods DEF TxInv, TxRecs, FrameEnds, BitEnds, Sent
<1>1. ~ParityNext /\ ~(tx.stops < stopbits)
  BY <1>0 DEF NextBits
<1>2. tx.stops >= 1
  BY <1>0, <1>1
<1>3. tx.pos \in {DataBits + 1 + tx.stops, DataBits + 2 + tx.stops}
  BY <1>0, <1>2 DEF TxInv
<1> QED BY <1>0, <1>2, <1>3

(* A tick keeps the frame's form.                                          *)
LEMMA TickSends ==
  ASSUME TxInv, Tick PROVE TxInv' /\ Moves
<1>0. /\ tx \in TxRecs /\ tx.frame \in Seq({0, 1}) /\ tx.pos \in Nat
      /\ tx.tick \in Nat /\ tx.tick < sbit /\ sbit \in SenderBits /\ sbit \in Nat /\ sbit >= 1
      /\ tx.stops \in 0 .. 2 /\ tx.left \in 0 .. MaxChars /\ Len(tx.frame) \in Nat
      /\ stopbits \in 1 .. 2 /\ parity \in 0 .. 255 /\ part \in {"plain", "gpiod", "ring"}
  BY Periods DEF TxInv, TxRecs
<1>1. UNCHANGED <<part, sbit, parity, stopbits>>
  BY DEF Tick, cfgVars
<1>2. CASE FrameEnds
  <2>1. tx' = [tx EXCEPT !.frame = <<>>, !.pos = 0, !.tick = 0, !.stops = 0]
    BY <1>2 DEF Tick, FrameEnds
  <2>2. <<>> \in Seq({0, 1}) /\ 0 \in Nat /\ 0 \in 0 .. 2 /\ 0 \in Nat
    BY Periods
  <2>3. tx' \in TxRecs /\ tx'.pos = 0 /\ tx'.tick = 0 /\ tx'.stops = 0
    BY <1>0, <2>1, <2>2 DEF TxRecs
  <2> QED BY <1>0, <1>1, <1>2, <2>3, FrameEndsLate DEF TxInv, Moves
<1>3. CASE BitEnds /\ ~Sent
  <2>0. ~FrameEnds
    BY <1>3 DEF FrameEnds
  <2>1. tx' = [tx EXCEPT !.pos = @ + 1, !.tick = 0]
    BY <1>3, <2>0 DEF Tick
  <2>2. tx.pos # 0 /\ tx.tick = sbit - 1 /\ tx.pos # Len(tx.frame)
    BY <1>3 DEF BitEnds, Sent
  <2>3. 0 \in Nat
    BY Periods
  <2>4. /\ tx' \in TxRecs /\ tx'.pos = tx.pos + 1 /\ tx'.tick = 0 /\ tx'.frame = tx.frame
        /\ tx'.stops = tx.stops
    <3>1. tx.pos + 1 \in Nat
      BY <1>0
    <3> QED BY <1>0, <2>1, <2>3, <3>1 DEF TxRecs
  <2>5. tx.frame[1] = 0 /\ tx.pos < Len(tx.frame) /\ Len(tx.frame) = DataBits + 1 /\ tx.stops = 0
    BY <1>0, <2>2 DEF TxInv
  <2>6. tx'.pos # 0 /\ tx'.pos <= Len(tx'.frame)
    BY <1>0, <2>4, <2>5
  <2> QED BY <1>0, <1>1, <2>2, <2>4, <2>5, <2>6 DEF TxInv, Moves
<1>4. CASE BitEnds /\ Sent /\ NextBits # <<>>
  <2>0. ~FrameEnds
    BY <1>4 DEF FrameEnds
  <2>1. tx' = [tx EXCEPT !.frame = @ \o NextBits, !.pos = @ + 1, !.tick = 0,
                         !.stops = IF ParityNext THEN @ ELSE @ + 1]
    BY <1>4, <2>0 DEF Tick
  <2>2. tx.pos # 0 /\ tx.tick = sbit - 1 /\ tx.pos = Len(tx.frame)
    BY <1>4 DEF BitEnds, Sent
  <2>3. 0 \in Nat /\ DataBits \in Nat /\ DataBits >= 1
    BY Periods
  <2>4. \E v \in {0, 1} : NextBits = <<v>>
    BY <1>4, ParityIsBit DEF NextBits
  <2> DEFINE f == tx.frame \o NextBits
             s == IF ParityNext THEN tx.stops ELSE tx.stops + 1
  <2>5. f \in Seq({0, 1}) /\ Len(f) = Len(tx.frame) + 1 /\ f[1] = tx.frame[1]
    BY <1>0, <2>2, <2>4
  <2>6. /\ tx.frame[1] = 0
        /\ \/ tx.pos = DataBits + 1 /\ tx.stops = 0
           \/ tx.pos \in {DataBits + 1 + tx.stops, DataBits + 2 + tx.stops}
    BY <2>2 DEF TxInv
  <2>7. ParityNext => tx.pos = DataBits + 1
    BY DEF ParityNext
  <2>8. ~ParityNext => tx.stops < stopbits
    BY <1>4 DEF NextBits
  <2>9. s \in 0 .. 2
    BY <1>0, <2>8
  <2>10. tx.pos + 1 \in {DataBits + 1 + s, DataBits + 2 + s}
    <3>1. CASE ParityNext
      <4>1. s = tx.stops /\ tx.pos = DataBits + 1
        BY <2>7, <3>1
      <4>2. tx.stops = 0
        BY <1>0, <2>3, <2>6, <4>1
      <4> QED BY <2>3, <4>1, <4>2
    <3>2. CASE ~ParityNext
      <4>1. s = tx.stops + 1
        BY <3>2
      <4>2. tx.pos \in Nat /\ tx.stops \in Nat
        BY <1>0
      <4>3. tx.pos = DataBits + 1 + tx.stops \/ tx.pos = DataBits + 2 + tx.stops
        BY <2>3, <2>6
      <4> HIDE DEF s
      <4>4. CASE tx.pos = DataBits + 1 + tx.stops
        <5>1. tx.pos + 1 = DataBits + 1 + s
          BY <2>3, <4>1, <4>2, <4>4
        <5> QED BY <5>1
      <4>5. CASE tx.pos = DataBits + 2 + tx.stops
        <5>1. tx.pos + 1 = DataBits + 2 + s
          BY <2>3, <4>1, <4>2, <4>5
        <5> QED BY <5>1
      <4> QED BY <4>3, <4>4, <4>5
    <3> QED BY <3>1, <3>2
  <2>11. tx' = [tx EXCEPT !.frame = f, !.pos = tx.pos + 1, !.tick = 0, !.stops = s]
    BY <2>1
  <2> HIDE DEF f, s
  <2>12. /\ tx' \in TxRecs /\ tx'.pos = tx.pos + 1 /\ tx'.tick = 0 /\ tx'.frame = f
         /\ tx'.stops = s
    <3>1. tx.pos + 1 \in Nat
      BY <1>0
    <3> QED BY <1>0, <2>3, <2>5, <2>9, <2>11, <3>1 DEF TxRecs
  <2>13. tx'.pos = Len(tx'.frame) /\ tx'.pos # 0 /\ tx'.frame[1] = 0
    BY <1>0, <2>2, <2>5, <2>6, <2>12
  <2>14. tx'.pos <= Len(tx'.frame)
    BY <1>0, <2>12, <2>13
  <2> QED BY <1>0, <1>1, <2>2, <2>10, <2>12, <2>13, <2>14 DEF TxInv, Moves
<1>5. CASE ~BitEnds
  <2>0. ~FrameEnds
    BY <1>5 DEF FrameEnds
  <2>1. tx' = [tx EXCEPT !.tick = IF tx.pos = 0 THEN 0 ELSE @ + 1]
    BY <1>5, <2>0 DEF Tick
  <2>2. tx.pos # 0 => tx.tick < sbit - 1
    BY <1>0, <1>5, Periods DEF BitEnds
  <2> DEFINE k == IF tx.pos = 0 THEN 0 ELSE tx.tick + 1
  <2>3. k \in Nat /\ k < sbit
    BY <1>0, <2>2, Periods
  <2>4. tx' = [tx EXCEPT !.tick = k]
    BY <2>1
  <2>5. /\ tx' \in TxRecs /\ tx'.pos = tx.pos /\ tx'.frame = tx.frame /\ tx'.stops = tx.stops
        /\ tx'.tick = k
    <3> HIDE DEF k
    <3> QED BY <1>0, <2>3, <2>4 DEF TxRecs
  <2> QED BY <1>0, <1>1, <2>2, <2>5 DEF TxInv, Moves
<1> QED BY <1>2, <1>3, <1>4, <1>5 DEF FrameEnds

(* A start bit begins.                                                     *)
LEMMA StartSends ==
  ASSUME TxInv, NEW b \in [1 .. DataBits -> {0, 1}], uart_tx_byte(b)
  PROVE  TxInv' /\ tx'.pos = 1 /\ tx'.tick = 0
<1>0. /\ part \in {"plain", "gpiod", "ring"} /\ parity \in 0 .. 255 /\ stopbits \in 1 .. 2
      /\ tx.left \in 0 .. MaxChars /\ sbit \in SenderBits /\ 0 < sbit
  BY Periods DEF TxInv, TxRecs
<1>1. /\ UNCHANGED <<part, sbit, parity, stopbits>> /\ tx.left > 0
      /\ tx' = [frame |-> <<0>> \o b, pos |-> 1, tick |-> 0, stops |-> 0, left |-> tx.left - 1]
  BY DEF uart_tx_byte, cfgVars
<1>2. b \in Seq({0, 1}) /\ Len(b) = DataBits
  <2>1. b \in Seq({0, 1})
    BY Periods, SeqDef
  <2>2. 1 .. Len(b) = 1 .. DataBits /\ Len(b) \in Nat
    BY <2>1
  <2> QED BY <2>1, <2>2, Periods, SameEnd
<1> DEFINE f == <<0>> \o b
<1>3. f \in Seq({0, 1}) /\ Len(f) = DataBits + 1 /\ f[1] = 0
  <2>1. <<0>> \in Seq({0, 1}) /\ Len(<<0>>) = 1 /\ <<0>>[1] = 0
    OBVIOUS
  <2>2. f \in Seq({0, 1}) /\ Len(f) = 1 + DataBits /\ f[1] = <<0>>[1]
    BY <1>2, <2>1, Periods, ConcatProperties
  <2> QED BY <2>1, <2>2, Periods
<1>4. tx.left - 1 \in 0 .. MaxChars /\ 0 \in Nat /\ 1 <= DataBits + 1
  BY <1>0, <1>1, Periods
<1> HIDE DEF f
<1>5. tx' = [frame |-> f, pos |-> 1, tick |-> 0, stops |-> 0, left |-> tx.left - 1]
  BY <1>1 DEF f
<1>6. tx' \in TxRecs
  BY <1>3, <1>4, <1>5 DEF TxRecs
<1> QED BY <1>0, <1>1, <1>3, <1>4, <1>5, <1>6 DEF TxInv

----------------------------------------------------------------------------
(* The receiver                                                            *)

RxRecs == [busy : BOOLEAN, bitpos : -1 .. DataBits + 1, armed : BOOLEAN, due : -Late .. Bit,
           age : 0 .. Half - 1, first : Nat, aligned : BOOLEAN]

StRecs == [starts : Nat, rx_bytes : Nat, framing_errors : Nat, closed : Nat, fallback : Nat]

(***************************************************************************)
(* A busy receiver has taken as many samples as its position says, and has *)
(* at least one left to take; only the attributes of plain disable it; and *)
(* the characters are counted.                                             *)
(***************************************************************************)
RxInv ==
    /\ rx \in RxRecs /\ st \in StRecs /\ seen \in Seq(Nat)
    /\ tx_enable \in BOOLEAN /\ rx_enable \in BOOLEAN /\ open \in BOOLEAN /\ unmoved \in BOOLEAN
    /\ part # "plain" => rx_enable
    /\ rx.busy => rx.bitpos <= DataBits /\ Len(seen) = rx.bitpos + 1
    /\ CharactersCounted

(***************************************************************************)
(* The receiver's clock against the sender's.  The sender is Now ticks     *)
(* into its frame, and the timer is due when it will be, or was, SampleTime*)
(* into it, whatever the lateness of the callbacks before: this holds as   *)
(* long as the sample cannot come after the end of the shortest frame.     *)
(***************************************************************************)
Now == (tx.pos - 1) * sbit + tx.tick

OnTime == tx.pos >= 1 /\ Now + rx.due = SampleTime(Len(seen) + 1)

InPlace(k) ==
    /\ (seen[k] - 1) * sbit <= SampleTime(k) + Late
    /\ SampleTime(k) < seen[k] * sbit

Schedule ==
    rx.aligned =>
        /\ \A k \in 1 .. Len(seen) : k <= DataBits + 1 /\ InFrame(k) => InPlace(k)
        /\ rx.busy /\ rx.armed /\ Len(seen) <= DataBits /\ InFrame(Len(seen) + 1) => OnTime

(***************************************************************************)
(* In the start bit: an idle receiver looks at the line before the bit is  *)
(* over, however late the callback is, and one that has noticed it is on   *)
(* schedule.                                                               *)
(***************************************************************************)
Noticed(now) == now + rx.due = rx.first + Len(seen) * Bit /\ rx.first >= 1

StartInv ==
    /\ unmoved => rx.armed /\ rx_enable
    /\ unmoved /\ LooksInTime =>
          /\ tx.pos = 1 /\ ~rx.busy => tx.tick + rx.due + Late < sbit
          /\ tx.pos = 1 /\ rx.busy => Noticed(tx.tick)
          /\ tx.pos = 2 /\ tx.tick = 0 => rx.busy /\ Noticed(sbit)

TtyInv == TxInv /\ RxInv /\ Schedule /\ StartInv

(* The types of the receiver's state.                                      *)
LEMMA RxTypes ==
  ASSUME RxInv
  PROVE  /\ rx \in RxRecs /\ st \in StRecs /\ seen \in Seq(Nat) /\ Len(seen) \in Nat
         /\ rx.busy \in BOOLEAN /\ rx.armed \in BOOLEAN /\ rx.aligned \in BOOLEAN
         /\ rx.bitpos \in -1 .. DataBits + 1
         /\ rx.due \in -Late .. Bit /\ rx.age \in 0 .. Half - 1 /\ rx.first \in Nat
         /\ tx_enable \in BOOLEAN /\ rx_enable \in BOOLEAN /\ open \in BOOLEAN
         /\ unmoved \in BOOLEAN
BY DEF RxInv, RxRecs

(* The constants and the sender, in arithmetic, and what the clocks need   *)
(* of it.                                                                  *)
LEMMA Ticks ==
  ASSUME TxInv
  PROVE  /\ sbit \in Nat /\ sbit >= 1 /\ sbit <= DataBits * Bit
         /\ tx.pos \in Nat /\ tx.tick \in Nat /\ tx.tick < sbit
         /\ Bit \in Nat /\ Bit >= 1 /\ Late \in Nat /\ Late < Bit
         /\ DataBits \in Nat /\ DataBits >= 1 /\ DataBits * Bit \in Nat
BY Periods DEF TxInv, TxRecs

LEMMA Product ==
  ASSUME NEW a \in Int, NEW b \in Int
  PROVE  a * b \in Int /\ (a + 1) * b = a * b + b /\ (a - 1) * b = a * b - b
OBVIOUS

LEMMA Forward ==
  ASSUME NEW d \in -Late .. Bit, d <= 0, Bit \in Nat, Late \in Nat, Late < Bit
  PROVE  Bit + d \in -Late .. Bit
OBVIOUS

LEMMA Later ==
  ASSUME NEW a \in Int, NEW b \in Int, NEW c \in Int, NEW d \in Int, a + b = c
  PROVE  a + (d + b) = c + d
OBVIOUS

LEMMA ProductGrows ==
  ASSUME NEW a \in Int, NEW b \in Int, NEW c \in Nat, a <= b
  PROVE  a * c <= b * c
<1>1. PICK d \in Nat : b = a + d
  <2>1. b - a \in Nat /\ b = a + (b - a)
    OBVIOUS
  <2> QED BY <2>1
<1>2. b * c = a * c + d * c
  BY <1>1
<1>3. d * c \in Nat /\ a * c \in Int
  OBVIOUS
<1> QED BY <1>2, <1>3

(* Samples are a bit apart.                                                *)
LEMMA SampleTimes ==
  ASSUME NEW n \in Nat, rx.first \in Nat, Bit \in Nat
  PROVE  /\ SampleTime(n + 1) = rx.first + n * Bit /\ SampleTime(n + 1) \in Nat
         /\ SampleTime(n + 2) = SampleTime(n + 1) + Bit
<1>1. n * Bit \in Nat /\ (n + 1) * Bit = n * Bit + Bit
  BY Product
<1>2. n + 1 - 1 = n /\ n + 2 - 1 = n + 1
  OBVIOUS
<1> QED BY <1>1, <1>2 DEF SampleTime

(* Time moves the timer and nothing else of the receiver.                  *)
LEMMA ElapseMoves ==
  ASSUME RxInv, Elapse
  PROVE  /\ rx' \in RxRecs
         /\ rx'.busy = rx.busy /\ rx'.bitpos = rx.bitpos /\ rx'.armed = rx.armed
         /\ rx'.first = rx.first /\ rx'.aligned = rx.aligned
         /\ rx.armed => rx.due > -Late /\ rx'.due = rx.due - 1
         /\ ~rx.armed => rx'.due = rx.due
<1>0. rx \in RxRecs /\ rx.due \in -Late .. Bit /\ rx.armed \in BOOLEAN /\ Bit \in Nat /\ Late \in Nat
  BY RxTypes, Periods
<1>1. CASE rx.armed
  <2>1. rx.due > -Late /\ rx' = [rx EXCEPT !.due = rx.due - 1]
    BY <1>1 DEF Elapse
  <2>2. rx.due - 1 \in -Late .. Bit
    BY <1>0, <2>1
  <2> QED BY <1>0, <1>1, <2>1, <2>2 DEF RxRecs
<1>2. CASE ~rx.armed
  BY <1>0, <1>2 DEF Elapse
<1> QED BY <1>1, <1>2

(* The characters are counted by what busy, st and part are.               *)
LEMMA CountKept ==
  ASSUME CharactersCounted, rx'.busy = rx.busy, UNCHANGED <<st, part>>
  PROVE  CharactersCounted'
BY DEF CharactersCounted

(* A tick keeps the receiver's own invariant.                              *)
LEMMA TimeKeepsRx ==
  ASSUME RxInv, Elapse, UNCHANGED <<part, st, seen, cfgVars>>, unmoved' \in BOOLEAN
  PROVE  RxInv'
<1>1. /\ rx' \in RxRecs /\ rx'.busy = rx.busy /\ rx'.bitpos = rx.bitpos
  BY ElapseMoves
<1>2. CharactersCounted'
  BY <1>1, CountKept DEF RxInv
<1> QED BY <1>1, <1>2 DEF RxInv, cfgVars

(* The sender's time goes on while the frame lasts.                        *)
LEMMA NowGoesOn ==
  ASSUME TxInv, UNCHANGED sbit, tx.pos # 0, Moves, tx'.pos # 0
  PROVE  Now' = Now + 1
<1>0. sbit \in Nat /\ sbit >= 1 /\ tx.pos \in Nat /\ tx.tick \in Nat /\ tx.tick < sbit
  BY Ticks
<1>1. /\ tx.pos - 1 \in Int /\ (tx.pos - 1) * sbit \in Int
      /\ (tx.pos - 1 + 1) * sbit = (tx.pos - 1) * sbit + sbit
  BY <1>0, Product
<1>2. CASE tx.tick < sbit - 1 /\ tx'.pos = tx.pos /\ tx'.tick = tx.tick + 1
  BY <1>0, <1>1, <1>2 DEF Now
<1>3. CASE tx.tick = sbit - 1 /\ tx'.pos = tx.pos + 1 /\ tx'.tick = 0
  <2>1. tx'.pos - 1 = tx.pos - 1 + 1
    BY <1>0, <1>3
  <2>2. Now' = (tx.pos - 1 + 1) * sbit
    BY <1>0, <1>1, <1>3, <2>1 DEF Now
  <2> QED BY <1>0, <1>1, <1>3, <2>2 DEF Now
<1> QED BY <1>0, <1>2, <1>3 DEF Moves

(* A frame does not end before its second bit after the data is over.      *)
LEMMA FrameLasts ==
  ASSUME TxInv, tx.pos >= DataBits + 2, tx.tick = sbit - 1
  PROVE  Now + 1 >= (DataBits + 2) * sbit
<1>0. /\ sbit \in Nat /\ sbit >= 1 /\ tx.pos \in Nat /\ tx.tick \in Nat /\ DataBits \in Nat
  BY Ticks
<1>1. (DataBits + 1) * sbit <= (tx.pos - 1) * sbit
  BY <1>0, ProductGrows
<1>2. (DataBits + 1 + 1) * sbit = (DataBits + 1) * sbit + sbit /\ (DataBits + 1) * sbit \in Int
  BY <1>0, Product
<1>3. (tx.pos - 1) * sbit \in Int /\ DataBits + 1 + 1 = DataBits + 2
  BY <1>0, Product
<1> QED BY <1>0, <1>1, <1>2, <1>3 DEF Now

(* What the schedule says depends on these.                                *)
LEMMA SameTimes ==
  ASSUME rx'.first = rx.first, UNCHANGED <<sbit, seen>>
  PROVE  /\ \A k : (SampleTime(k))' = SampleTime(k)
         /\ \A k : (InFrame(k))' = InFrame(k) /\ (InPlace(k))' = InPlace(k)
BY DEF SampleTime, InFrame, InPlace

(* A tick keeps the receiver's clock on the sender's: before it has its    *)
(* samples the frame does not end.                                         *)
LEMMA TimeKeepsSchedule ==
  ASSUME TxInv, RxInv, Schedule, Elapse, UNCHANGED <<seen, sbit>>,
         \/ Moves
         \/ (tx.pos = 0 \/ FrameEnds) /\ tx'.pos = 1 /\ tx'.tick = 0
  PROVE  Schedule'
<1>0. /\ rx.due \in Int /\ rx.first \in Nat /\ Len(seen) \in Nat /\ rx.armed \in BOOLEAN
      /\ rx.busy \in BOOLEAN /\ rx.aligned \in BOOLEAN
      /\ tx.pos \in Nat /\ tx.tick \in Nat /\ sbit \in Nat /\ Late \in Nat /\ Bit \in Nat
      /\ DataBits \in Nat
  BY RxTypes, Ticks
<1>1. /\ rx'.busy = rx.busy /\ rx'.armed = rx.armed
      /\ rx'.first = rx.first /\ rx'.aligned = rx.aligned
      /\ rx.armed => rx.due > -Late /\ rx'.due = rx.due - 1
  BY ElapseMoves
<1>2. /\ \A k : (SampleTime(k))' = SampleTime(k)
      /\ \A k : (InFrame(k))' = InFrame(k) /\ (InPlace(k))' = InPlace(k)
  BY <1>1, SameTimes
<1> SUFFICES ASSUME rx.aligned PROVE Schedule'
  BY <1>1 DEF Schedule
<1>3. \A k \in 1 .. Len(seen') : k <= DataBits + 1 /\ InFrame(k)' => InPlace(k)'
  BY <1>2 DEF Schedule
<1>4. ASSUME rx.busy, rx.armed, Len(seen) <= DataBits, InFrame(Len(seen) + 1) PROVE OnTime'
  <2> DEFINE t == SampleTime(Len(seen) + 1)
             e == (DataBits + 2) * sbit
  <2>1. tx.pos >= 1 /\ Now + rx.due = t
    BY <1>4 DEF Schedule, OnTime
  <2>2. t \in Nat /\ e \in Int /\ t + Late < e
    BY <1>0, <1>4, SampleTimes, Product DEF InFrame
  <2>3. Now \in Int
    <3>1. (tx.pos - 1) * sbit \in Int
      BY <1>0, Product
    <3> QED BY <1>0, <3>1 DEF Now
  <2>4. t' = t
    BY <1>2
  <2> HIDE DEF t
  <2>5. ~(tx.pos >= DataBits + 2 /\ tx.tick = sbit - 1)
    <3> SUFFICES ASSUME tx.pos >= DataBits + 2, tx.tick = sbit - 1 PROVE FALSE
      OBVIOUS
    <3>1. Now + 1 >= e
      BY FrameLasts
    <3> HIDE DEF e
    <3> QED BY <1>0, <1>1, <1>4, <2>1, <2>2, <2>3, <3>1
  <2>6. Moves /\ tx.pos # 0 /\ tx'.pos # 0
    <3>1. Moves /\ tx.pos # 0
      BY <1>0, <2>1, <2>5, FrameEndsLate
    <3> QED BY <1>0, <2>5, <3>1 DEF Moves
  <2>7. Now' = Now + 1 /\ tx'.pos >= 1
    <3>1. tx'.pos = tx.pos \/ tx'.pos = tx.pos + 1
      BY <2>6 DEF Moves
    <3> QED BY <1>0, <2>6, <3>1, NowGoesOn
  <2>8. Now' + rx'.due = t
    BY <1>0, <1>1, <1>4, <2>1, <2>2, <2>3, <2>7
  <2>9. Now' + rx'.due = SampleTime(Len(seen) + 1)'
    BY <2>4, <2>8 DEF t
  <2> QED BY <1>1, <2>7, <2>9 DEF OnTime
<1> QED BY <1>1, <1>2, <1>3, <1>4 DEF Schedule

(* A start bit begins: an idle receiver looks within the bit.              *)
LEMMA StartBegins ==
  ASSUME TtyInv, NEW b \in [1 .. DataBits -> {0, 1}], uart_tx_byte(b)
  PROVE  TtyInv'
<1>1. TxInv' /\ tx'.pos = 1 /\ tx'.tick = 0
  BY StartSends DEF TtyInv
<1>2. /\ Elapse /\ UNCHANGED <<part, sbit, st, seen, cfgVars>> /\ (tx.pos = 0 \/ FrameEnds)
      /\ unmoved' = (~rx.busy /\ rx.armed /\ rx_enable /\ (part = "plain" => rx.due <= 1))
  BY DEF uart_tx_byte
<1>3. RxInv'
  <2>1. unmoved' \in BOOLEAN
    BY <1>2
  <2> QED BY <1>2, <2>1, TimeKeepsRx DEF TtyInv
<1>4. Schedule'
  BY <1>1, <1>2, TimeKeepsSchedule DEF TtyInv
<1>5. StartInv'
  <2> SUFFICES ASSUME unmoved' PROVE StartInv'
    BY DEF StartInv
  <2>1. ~rx.busy /\ rx.armed /\ rx_enable /\ rx_enable' = rx_enable /\ (part = "plain" => rx.due <= 1)
    BY <1>2 DEF cfgVars
  <2>2. /\ ~rx'.busy /\ rx'.armed /\ rx'.due = rx.due - 1 /\ rx.due \in -Late .. Bit
        /\ Late \in Nat /\ Bit \in Nat /\ sbit \in Nat
    BY <1>2, <2>1, ElapseMoves, RxTypes, Ticks DEF TtyInv
  <2>3. ASSUME LooksInTime PROVE tx'.tick + rx'.due + Late < sbit
    <3>1. sbit > Late + (IF part = "plain" THEN 0 ELSE Bit - 1)
      BY <2>3 DEF LooksInTime
    <3>2. CASE part = "plain"
      BY <1>1, <2>1, <2>2, <3>1, <3>2
    <3>3. CASE part # "plain"
      BY <1>1, <2>2, <3>1, <3>3
    <3> QED BY <3>2, <3>3
  <2>4. LooksInTime' => LooksInTime
    BY <1>2 DEF LooksInTime
  <2> QED BY <1>1, <1>2, <2>1, <2>2, <2>3, <2>4 DEF StartInv
<1> QED BY <1>1, <1>3, <1>4, <1>5 DEF TtyInv

(* A tick.                                                                 *)
LEMMA TimePasses ==
  ASSUME TtyInv, Tick PROVE TtyInv'
<1>1. TxInv' /\ Moves
  BY TickSends DEF TtyInv
<1>2. Elapse /\ UNCHANGED <<part, sbit, st, seen, cfgVars, unmoved>>
  BY DEF Tick
<1>0. /\ rx.due \in Int /\ rx.first \in Nat /\ Len(seen) * Bit \in Int /\ rx.armed \in BOOLEAN
      /\ rx.busy \in BOOLEAN /\ unmoved \in BOOLEAN /\ Late \in Nat
      /\ tx.pos \in Nat /\ tx.tick \in Nat /\ tx.tick < sbit /\ sbit \in Nat
  BY RxTypes, Ticks, Product DEF TtyInv
<1>3. RxInv'
  BY <1>0, <1>2, TimeKeepsRx DEF TtyInv
<1>4. Schedule'
  BY <1>1, <1>2, TimeKeepsSchedule DEF TtyInv
<1>5. StartInv'
  <2> SUFFICES ASSUME unmoved PROVE StartInv'
    BY <1>2 DEF StartInv
  <2>1. rx.armed /\ rx_enable
    BY DEF TtyInv, StartInv
  <2>2. /\ rx'.armed /\ rx_enable' /\ rx'.busy = rx.busy /\ rx'.first = rx.first
        /\ rx.due > -Late /\ rx'.due = rx.due - 1 /\ seen' = seen /\ sbit' = sbit
    BY <1>2, <2>1, ElapseMoves DEF TtyInv, cfgVars
  <2>3. ASSUME LooksInTime, tx'.pos = 1
        PROVE  IF rx'.busy THEN (Noticed(tx.tick))' ELSE tx'.tick + rx'.due + Late < sbit
    <3>1. tx.pos = 1 /\ tx'.tick = tx.tick + 1
      BY <1>0, <1>1, <2>3, Periods DEF Moves
    <3>2. CASE rx.busy
      <4>1. Noticed(tx.tick)
        BY <2>3, <3>1, <3>2 DEF TtyInv, StartInv
      <4>2. tx'.tick + rx'.due = tx.tick + rx.due
        BY <1>0, <2>2, <3>1
      <4>3. (Noticed(tx.tick))'
        BY <2>2, <4>1, <4>2 DEF Noticed
      <4> QED BY <2>2, <3>2, <4>3
    <3>3. CASE ~rx.busy
      <4>1. tx.tick + rx.due + Late < sbit
        BY <2>3, <3>1, <3>3 DEF TtyInv, StartInv
      <4>2. tx'.tick + rx'.due + Late < sbit
        BY <1>0, <2>2, <3>1, <4>1
      <4> QED BY <2>2, <3>3, <4>2
    <3> QED BY <3>2, <3>3
  <2>4. ASSUME LooksInTime, tx'.pos = 2, tx'.tick = 0 PROVE rx'.busy /\ (Noticed(sbit))'
    <3>1. tx.pos = 1 /\ tx.tick = sbit - 1
      BY <1>0, <1>1, <2>4, Periods DEF Moves
    <3>2. rx.busy
      <4> SUFFICES ASSUME ~rx.busy PROVE FALSE
        BY <1>0
      <4>1. tx.tick + rx.due + Late < sbit
        BY <2>4, <3>1 DEF TtyInv, StartInv
      <4> QED BY <1>0, <2>2, <3>1, <4>1
    <3>3. Noticed(tx.tick)
      BY <2>4, <3>1, <3>2 DEF TtyInv, StartInv
    <3>4. sbit + rx'.due = tx.tick + rx.due
      BY <1>0, <2>2, <3>1
    <3> QED BY <2>2, <3>2, <3>3, <3>4 DEF Noticed
  <2>5. LooksInTime' => LooksInTime
    BY <1>2 DEF LooksInTime
  <2> QED BY <1>2, <2>2, <2>3, <2>4, <2>5 DEF StartInv
<1> QED BY <1>1, <1>3, <1>4, <1>5 DEF TtyInv

(* A step in which neither the line nor the receiver moves.                *)
LEMMA QuietKeeps ==
  ASSUME TtyInv, TxInv', UNCHANGED <<part, sbit, rxVars>>,
         tx'.pos = tx.pos, tx'.tick = tx.tick,
         tx_enable' \in BOOLEAN, rx_enable' \in BOOLEAN, open' \in BOOLEAN, unmoved' \in BOOLEAN,
         unmoved' => unmoved /\ rx_enable', part # "plain" => rx_enable'
  PROVE  TtyInv'
<1>1. UNCHANGED <<rx, st, seen, part, sbit>>
  BY DEF rxVars
<1>2. CharactersCounted'
  BY <1>1, CountKept DEF TtyInv, RxInv
<1>3. RxInv'
  BY <1>1, <1>2 DEF TtyInv, RxInv
<1>4. Schedule'
  BY <1>1 DEF TtyInv, Schedule, OnTime, Now, InPlace, InFrame, SampleTime
<1>5. StartInv'
  BY <1>1 DEF TtyInv, StartInv, Noticed, LooksInTime
<1> QED BY <1>3, <1>4, <1>5 DEF TtyInv

(* The write call and the skipped byte change how many bytes are left.     *)
LEMMA LeftKeeps ==
  ASSUME TtyInv, NEW n \in 0 .. MaxChars, tx' = [tx EXCEPT !.left = n],
         UNCHANGED <<part, sbit, rxVars, cfgVars, unmoved>>
  PROVE  TtyInv'
<1>0. tx \in TxRecs
  BY DEF TtyInv, TxInv
<1>1. /\ tx' \in TxRecs /\ tx'.frame = tx.frame /\ tx'.pos = tx.pos /\ tx'.tick = tx.tick
      /\ tx'.stops = tx.stops
  BY <1>0 DEF TxRecs
<1>2. UNCHANGED <<parity, stopbits, tx_enable, rx_enable, open>>
  BY DEF cfgVars
<1>3. TxInv'
  BY <1>1, <1>2 DEF TtyInv, TxInv
<1>4. /\ tx_enable' \in BOOLEAN /\ rx_enable' \in BOOLEAN /\ open' \in BOOLEAN
      /\ unmoved' \in BOOLEAN
  BY <1>2, RxTypes DEF TtyInv
<1>5. (unmoved' => unmoved /\ rx_enable') /\ (part # "plain" => rx_enable')
  BY <1>2 DEF TtyInv, StartInv, RxInv
<1> QED BY <1>1, <1>3, <1>4, <1>5, QuietKeeps

(* A change of the configuration.                                          *)
LEMMA ChangeKeeps ==
  ASSUME TtyInv, UNCHANGED <<part, sbit, tx, rxVars>>, parity' \in 0 .. 255, stopbits' \in 1 .. 2,
         tx_enable' \in BOOLEAN, rx_enable' \in BOOLEAN, open' \in BOOLEAN, unmoved' \in BOOLEAN,
         unmoved' => unmoved /\ rx_enable', part # "plain" => rx_enable'
  PROVE  TtyInv'
<1>1. TxInv'
  BY DEF TtyInv, TxInv
<1> QED BY <1>1, QuietKeeps

(* Every configuration call, and the ring's calls.                         *)
LEMMA ConfigKeeps ==
  ASSUME TtyInv,
         \/ \E mode \in {0, 2}, stop \in 1 .. 2 : gu_set_termios(mode, stop)
         \/ \E v \in {0, 3, 256} : parity_store(v)
         \/ \E v \in 0 .. 3 : stop_store(v)
         \/ \E v \in BOOLEAN : txen_store(v) \/ rxen_store(v)
         \/ gu_tty_open \/ gu_tty_close
         \/ \E b \in RingBytes : RingWrite(b)
         \/ tx_ring_get
         \/ UNCHANGED vars
  PROVE  TtyInv'
<1>0. /\ parity \in 0 .. 255 /\ stopbits \in 1 .. 2 /\ tx_enable \in BOOLEAN
      /\ rx_enable \in BOOLEAN /\ open \in BOOLEAN /\ unmoved \in BOOLEAN
      /\ unmoved => rx_enable
      /\ part # "plain" => rx_enable
  BY RxTypes DEF TtyInv, TxInv, StartInv, RxInv
<1>1. CASE \E mode \in {0, 2}, stop \in 1 .. 2 : gu_set_termios(mode, stop)
  BY <1>0, <1>1, ChangeKeeps DEF gu_set_termios
<1>2. CASE \E v \in {0, 3, 256} : parity_store(v)
  <2>1. PICK v \in {0, 3, 256} : parity_store(v)
    BY <1>2
  <2>2. v % 256 \in 0 .. 255
    OBVIOUS
  <2> QED BY <1>0, <2>1, <2>2, ChangeKeeps DEF parity_store
<1>3. CASE \E v \in 0 .. 3 : stop_store(v)
  BY <1>0, <1>3, ChangeKeeps DEF stop_store
<1>4. CASE \E v \in BOOLEAN : txen_store(v)
  BY <1>0, <1>4, ChangeKeeps DEF txen_store
<1>5. CASE \E v \in BOOLEAN : rxen_store(v)
  <2>1. PICK v \in BOOLEAN : rxen_store(v)
    BY <1>5
  <2>2. unmoved' = (unmoved /\ v) /\ rx_enable' = v /\ part = "plain"
    BY <2>1 DEF rxen_store
  <2>3. unmoved' \in BOOLEAN /\ (unmoved' => unmoved /\ rx_enable')
    BY <2>2
  <2> QED BY <1>0, <2>1, <2>2, <2>3, ChangeKeeps DEF rxen_store
<1>6. CASE gu_tty_open
  BY <1>0, <1>6, ChangeKeeps DEF gu_tty_open
<1>7. CASE gu_tty_close
  BY <1>0, <1>7, ChangeKeeps DEF gu_tty_close
<1>8. CASE \E b \in RingBytes : RingWrite(b)
  BY <1>0, <1>8, ChangeKeeps DEF RingWrite, cfgVars
<1>9. CASE tx_ring_get
  BY <1>0, <1>9, ChangeKeeps DEF tx_ring_get, cfgVars
<1>10. CASE UNCHANGED vars
  BY <1>0, <1>10, ChangeKeeps DEF vars, cfgVars
<1> QED BY <1>1, <1>2, <1>3, <1>4, <1>5, <1>6, <1>7, <1>8, <1>9, <1>10

----------------------------------------------------------------------------
(* The callback                                                            *)

(* What the callback leaves alone.                                         *)
LEMMA CallbackLeaves ==
  ASSUME TtyInv, RxUnchanged
  PROVE  /\ UNCHANGED <<part, sbit, tx, parity, stopbits, tx_enable, rx_enable, open, unmoved>>
         /\ TxInv'
<1>1. UNCHANGED <<part, sbit, tx, parity, stopbits, tx_enable, rx_enable, open, unmoved>>
  BY DEF RxUnchanged, cfgVars
<1> QED BY <1>1 DEF TtyInv, TxInv

(* A disabled receiver.                                                    *)
LEMMA DisabledKeeps ==
  ASSUME TtyInv, RxDisabled PROVE TtyInv'
<1>0. rx \in RxRecs
  BY RxTypes DEF TtyInv
<1>1. /\ UNCHANGED <<part, sbit, tx, parity, stopbits, tx_enable, rx_enable, open, unmoved, st, seen>>
      /\ TxInv'
  BY CallbackLeaves DEF RxDisabled
<1>2. ~rx_enable /\ part = "plain"
  BY DEF RxDisabled, TtyInv, RxInv
<1>3. rx' = [rx EXCEPT !.armed = FALSE]
  BY <1>2 DEF RxDisabled
<1>4. /\ rx' \in RxRecs /\ rx'.busy = rx.busy /\ rx'.bitpos = rx.bitpos /\ ~rx'.armed
      /\ rx'.first = rx.first /\ rx'.aligned = rx.aligned
  BY <1>0, <1>3 DEF RxRecs
<1>5. CharactersCounted'
  BY <1>1, <1>4, CountKept DEF TtyInv, RxInv
<1>6. RxInv'
  BY <1>1, <1>4, <1>5 DEF TtyInv, RxInv
<1>7. Schedule'
  BY <1>1, <1>4 DEF TtyInv, Schedule, InPlace, InFrame, SampleTime
<1>8. StartInv'
  <2>1. ~unmoved
    BY <1>2 DEF TtyInv, StartInv
  <2> QED BY <1>1, <2>1 DEF StartInv
<1> QED BY <1>1, <1>6, <1>7, <1>8 DEF TtyInv

(* A receiver that finds the line idle.                                    *)
LEMMA IdleKeeps ==
  ASSUME TtyInv, RxIdle PROVE TtyInv'
<1>0. /\ rx \in RxRecs /\ rx.armed \in BOOLEAN /\ rx.busy \in BOOLEAN /\ rx.age \in 0 .. Half - 1
      /\ rx.due \in -Late .. Bit /\ rx.due <= 0 /\ Bit \in Nat /\ Half \in Nat
      /\ Half >= 1 /\ Half < Bit /\ Late \in Nat /\ Late < Bit
  BY RxTypes, Periods DEF TtyInv, RxIdle, Due
<1>1. /\ UNCHANGED <<part, sbit, tx, parity, stopbits, tx_enable, rx_enable, open, unmoved, st>>
      /\ TxInv'
  BY CallbackLeaves DEF RxIdle
<1>2. rx_enable /\ ~rx.busy /\ get_rx_level = 1 /\ rx.armed /\ seen' = <<>>
  BY DEF RxIdle, Due
<1>3. tx.pos # 1
  BY <1>2, LevelIsBit DEF TtyInv
<1>4. /\ rx' \in RxRecs /\ rx'.busy = FALSE /\ rx'.armed /\ rx'.aligned = FALSE
  <2>1. CASE part = "plain"
    <3> DEFINE a == (rx.age + Lateness + 1) % Half
    <3>1. rx' = [rx EXCEPT !.due = 1, !.age = a, !.first = 0, !.aligned = FALSE]
      BY <1>0, <2>1 DEF RxIdle, LookAgain, RxRecs
    <3>2. rx.age + Lateness + 1 \in Nat
      BY <1>0 DEF Lateness
    <3>3. a \in 0 .. Half - 1 /\ 1 \in -Late .. Bit
      BY <1>0, <3>2
    <3> HIDE DEF a
    <3> QED BY <1>0, <1>2, <3>1, <3>3 DEF RxRecs
  <2>2. CASE part # "plain"
    <3> DEFINE d == Bit + rx.due
    <3>1. rx' = [rx EXCEPT !.due = d, !.first = 0, !.aligned = FALSE]
      BY <1>0, <2>2 DEF RxIdle, RxRecs
    <3>2. d \in -Late .. Bit
      BY <1>0
    <3> HIDE DEF d
    <3> QED BY <1>0, <1>2, <3>1, <3>2 DEF RxRecs
  <2> QED BY <2>1, <2>2
<1>5. CharactersCounted'
  <2>1. rx'.busy = rx.busy
    BY <1>0, <1>2, <1>4
  <2> QED BY <1>1, <2>1, CountKept DEF TtyInv, RxInv
<1>6. RxInv'
  BY <1>1, <1>2, <1>4, <1>5 DEF TtyInv, RxInv
<1>7. Schedule'
  BY <1>4 DEF Schedule
<1>8. StartInv'
  <2>1. LooksInTime' => LooksInTime
    BY <1>1 DEF LooksInTime
  <2>2. ~(unmoved /\ LooksInTime /\ tx.pos = 2 /\ tx.tick = 0)
    BY <1>2 DEF TtyInv, StartInv
  <2> QED BY <1>1, <1>2, <1>3, <1>4, <2>1, <2>2 DEF StartInv
<1> QED BY <1>1, <1>6, <1>7, <1>8 DEF TtyInv

(* A character begins.                                                     *)
LEMMA StartKeeps ==
  ASSUME TtyInv, RxStart PROVE TtyInv'
<1>0. /\ rx \in RxRecs /\ st \in StRecs /\ rx.armed \in BOOLEAN /\ rx.age \in 0 .. Half - 1
      /\ rx.due \in -Late .. Bit /\ rx.due <= 0
      /\ Bit \in Nat /\ Half \in Nat /\ Half >= 1 /\ Half < Bit /\ DataBits \in Nat
      /\ tx.pos \in Nat /\ tx.tick \in Nat /\ sbit \in Nat /\ Late \in Nat
  BY RxTypes, Periods, Ticks DEF TtyInv, RxStart, Due
<1>1. /\ UNCHANGED <<part, sbit, tx, parity, stopbits, tx_enable, rx_enable, open, unmoved>>
      /\ TxInv'
  BY CallbackLeaves DEF RxStart
<1> DEFINE d == Half - ((rx.age + Lateness) % Half)
           f == tx.tick + d
           a == tx.pos = 1
<1>2. d \in -Late .. Bit /\ f \in Nat /\ f >= 1 /\ a \in BOOLEAN
  <2>1. rx.age + Lateness \in Nat
    BY <1>0 DEF Lateness
  <2>2. (rx.age + Lateness) % Half \in 0 .. Half - 1
    BY <1>0, <2>1
  <2> QED BY <1>0, <2>2
<1>3. /\ rx' = [rx EXCEPT !.busy = TRUE, !.bitpos = -1, !.due = d, !.age = 0,
                          !.first = f, !.aligned = a]
      /\ st' = [st EXCEPT !.starts = @ + 1] /\ seen' = <<>> /\ ~rx.busy /\ rx.armed
  BY DEF RxStart, Begin, Due
<1>4. -1 \in -1 .. DataBits + 1 /\ 0 \in 0 .. Half - 1
  BY <1>0
<1>5. f = tx.tick + d /\ (a <=> tx.pos = 1)
  OBVIOUS
<1> HIDE DEF d, f, a
<1>6. /\ rx' \in RxRecs /\ rx'.busy = TRUE /\ rx'.bitpos = -1 /\ rx'.armed = rx.armed
      /\ rx'.due = d /\ rx'.first = f /\ rx'.aligned = a
  BY <1>0, <1>2, <1>3, <1>4 DEF RxRecs
<1>7. /\ st' \in StRecs /\ st'.starts = st.starts + 1 /\ st'.rx_bytes = st.rx_bytes
      /\ st'.framing_errors = st.framing_errors /\ st'.closed = st.closed
      /\ st'.fallback = st.fallback
  <2>1. st.starts \in Nat
    BY <1>0 DEF StRecs
  <2>2. PICK n \in Nat : n = st.starts + 1
    BY <2>1
  <2>3. st' = [st EXCEPT !.starts = n]
    BY <1>3, <2>2
  <2>4. /\ st' \in StRecs /\ st'.starts = n /\ st'.rx_bytes = st.rx_bytes
        /\ st'.framing_errors = st.framing_errors /\ st'.closed = st.closed
        /\ st'.fallback = st.fallback
    BY <1>0, <2>3 DEF StRecs
  <2> QED BY <2>2, <2>4
<1>8. CharactersCounted'
  <2>1. /\ st.starts = st.rx_bytes + st.framing_errors + st.closed + st.fallback
        /\ part = "plain" => st.closed = 0 /\ st.fallback = 0
    BY <1>0, <1>3 DEF TtyInv, RxInv, CharactersCounted, StRecs
  <2> QED BY <1>0, <1>1, <1>6, <1>7, <2>1 DEF CharactersCounted, StRecs
<1>9. seen' \in Seq(Nat) /\ Len(seen') = 0
  BY <1>3
<1>10. RxInv'
  <2>1. rx'.bitpos <= DataBits /\ Len(seen') = rx'.bitpos + 1
    BY <1>0, <1>6, <1>9
  <2> QED BY <1>1, <1>6, <1>7, <1>8, <1>9, <2>1 DEF TtyInv, RxInv
<1>11. Schedule'
  <2> SUFFICES ASSUME a PROVE Schedule'
    BY <1>6 DEF Schedule
  <2>1. Now' = tx.tick
    <3>1. tx.pos - 1 = 0 /\ 0 * sbit = 0
      BY <1>0, <1>5
    <3> QED BY <1>0, <1>1, <3>1 DEF Now
  <2>2. SampleTime(Len(seen) + 1)' = f
    <3>1. 0 + 1 - 1 = 0 /\ 0 * Bit = 0
      BY <1>0
    <3> QED BY <1>2, <1>6, <1>9, <3>1 DEF SampleTime
  <2>3. OnTime'
    BY <1>0, <1>1, <1>5, <1>6, <2>1, <2>2 DEF OnTime
  <2>4. \A k \in 1 .. Len(seen') : FALSE
    BY <1>9
  <2> QED BY <2>3, <2>4 DEF Schedule
<1>12. StartInv'
  <2>1. ~(unmoved /\ LooksInTime /\ tx.pos = 2 /\ tx.tick = 0)
    BY <1>3 DEF TtyInv, StartInv
  <2>2. LooksInTime' => LooksInTime
    BY <1>1 DEF LooksInTime
  <2>3. (Noticed(tx.tick))'
    <3>1. 0 * Bit = 0
      BY <1>0
    <3> QED BY <1>0, <1>1, <1>2, <1>5, <1>6, <1>9, <3>1 DEF Noticed
  <2> QED BY <1>0, <1>1, <1>3, <1>6, <2>1, <2>2, <2>3 DEF TtyInv, StartInv
<1> QED BY <1>1, <1>10, <1>11, <1>12 DEF TtyInv

(* A sample that is taken now is on schedule, up to its lateness.          *)
LEMMA SampleInPlace ==
  ASSUME TtyInv, Due, rx.busy, rx.aligned, Len(seen) <= DataBits, InFrame(Len(seen) + 1)
  PROVE  /\ Now + rx.due = SampleTime(Len(seen) + 1) /\ tx.pos >= 1
         /\ (tx.pos - 1) * sbit <= SampleTime(Len(seen) + 1) + Late
         /\ SampleTime(Len(seen) + 1) < tx.pos * sbit
<1>0. /\ rx.due \in -Late .. Bit /\ rx.due <= 0 /\ rx.first \in Nat /\ Len(seen) \in Nat
      /\ tx.pos \in Nat /\ tx.tick \in Nat /\ tx.tick < sbit /\ sbit \in Nat
      /\ Bit \in Nat /\ Late \in Nat
  BY RxTypes, Ticks DEF TtyInv, Due
<1> DEFINE t == SampleTime(Len(seen) + 1)
           q == tx.pos * sbit
           o == (tx.pos - 1) * sbit
<1>1. t \in Nat
  BY <1>0, SampleTimes
<1>2. tx.pos >= 1 /\ o + tx.tick + rx.due = t
  BY DEF TtyInv, Schedule, Due, OnTime, Now
<1>3. q \in Int /\ o \in Int /\ o = q - sbit
  BY <1>0, Product
<1>4. o <= t + Late /\ t < q
  <2> HIDE DEF t, q, o
  <2> QED BY <1>0, <1>1, <1>2, <1>3
<1> QED BY <1>2, <1>4 DEF Now

(* Another sample in its place.                                            *)
LEMMA PlacesKept ==
  ASSUME TtyInv, Due, rx.busy, seen' = Append(seen, tx.pos), rx.aligned, rx'.first = rx.first,
         UNCHANGED sbit
  PROVE  \A k \in 1 .. Len(seen') : k <= DataBits + 1 /\ InFrame(k)' => InPlace(k)'
<1>0. seen \in Seq(Nat) /\ Len(seen) \in Nat /\ tx.pos \in Nat /\ DataBits \in Nat
  BY RxTypes, Ticks DEF TtyInv
<1>1. /\ seen' \in Seq(Nat) /\ Len(seen') = Len(seen) + 1 /\ seen'[Len(seen) + 1] = tx.pos
      /\ \A k \in 1 .. Len(seen) : seen'[k] = seen[k]
  BY <1>0, AppendProperties
<1>2. \A k : SampleTime(k)' = SampleTime(k) /\ InFrame(k)' = InFrame(k)
  BY DEF SampleTime, InFrame
<1>3. \A k \in 1 .. Len(seen) : k <= DataBits + 1 /\ InFrame(k) => InPlace(k)
  BY DEF TtyInv, Schedule
<1>4. ASSUME NEW k \in 1 .. Len(seen'), k <= DataBits + 1, InFrame(k)' PROVE InPlace(k)'
  <2>0. InFrame(k)
    BY <1>2, <1>4
  <2>1. CASE k \in 1 .. Len(seen)
    <3>1. InPlace(k) /\ seen'[k] = seen[k]
      BY <1>1, <1>3, <1>4, <2>0, <2>1
    <3> QED BY <1>2, <3>1 DEF InPlace
  <2>2. CASE k = Len(seen) + 1
    <3>1. Len(seen) <= DataBits /\ InFrame(Len(seen) + 1) /\ seen'[k] = tx.pos
      BY <1>0, <1>1, <1>4, <2>0, <2>2
    <3>2. (tx.pos - 1) * sbit <= SampleTime(k) + Late /\ SampleTime(k) < tx.pos * sbit
      BY <2>2, <3>1, SampleInPlace
    <3> QED BY <1>2, <3>1, <3>2 DEF InPlace
  <2> QED BY <1>0, <1>1, <1>4, <2>1, <2>2
<1> QED BY <1>4

(* A data or parity bit is sampled, and the next sample is a bit away.     *)
LEMMA BitKeeps ==
  ASSUME TtyInv, RxData \/ RxParity PROVE TtyInv'
<1>0. /\ rx \in RxRecs /\ rx.armed \in BOOLEAN /\ rx.due \in -Late .. Bit /\ rx.due <= 0
      /\ rx.bitpos \in -1 .. DataBits + 1 /\ rx.aligned \in BOOLEAN /\ rx.first \in Nat
      /\ Bit \in Nat /\ Bit >= 1 /\ DataBits \in Nat /\ Len(seen) \in Nat /\ seen \in Seq(Nat)
      /\ tx.pos \in Nat /\ tx.tick \in Nat /\ sbit \in Nat /\ Late \in Nat /\ Late < Bit
  BY RxTypes, Ticks DEF TtyInv, RxData, RxParity, Due
<1>1. /\ UNCHANGED <<part, sbit, tx, parity, stopbits, tx_enable, rx_enable, open, unmoved, st>>
      /\ TxInv'
  BY CallbackLeaves DEF RxData, RxParity
<1>2. Due /\ rx.busy /\ rx.armed /\ seen' = Append(seen, tx.pos)
  BY DEF RxData, RxParity, Due
<1>3. Len(seen) = rx.bitpos + 1
  BY <1>2 DEF TtyInv, RxInv
<1>4. /\ rx' \in RxRecs /\ rx'.bitpos = rx.bitpos + 1 /\ rx'.bitpos <= DataBits
      /\ rx'.busy = rx.busy /\ rx'.armed = rx.armed /\ rx'.due = Bit + rx.due
      /\ rx'.first = rx.first /\ rx'.aligned = rx.aligned
  <2> DEFINE p == rx.bitpos + 1
             d == Bit + rx.due
  <2>1. p = DataBits \/ p < DataBits
    BY DEF RxData, RxParity, Pos
  <2>2. p \in -1 .. DataBits + 1 /\ p <= DataBits /\ d \in -Late .. Bit
    <3>1. p \in -1 .. DataBits + 1 /\ p <= DataBits
      <4>1. rx.bitpos \in -1 .. DataBits + 1 /\ DataBits \in Nat
        BY <1>0
      <4> QED BY ONLY <2>1, <4>1
    <3>2. d \in -Late .. Bit
      BY <1>0, Forward
    <3> QED BY <3>1, <3>2
  <2>3. rx' = [rx EXCEPT !.bitpos = p, !.due = d]
    BY DEF RxData, RxParity, Pos
  <2> HIDE DEF p, d
  <2>4. /\ rx' \in RxRecs /\ rx'.bitpos = p
        /\ rx'.busy = rx.busy /\ rx'.armed = rx.armed /\ rx'.due = d
        /\ rx'.first = rx.first /\ rx'.aligned = rx.aligned
    BY <1>0, <2>2, <2>3 DEF RxRecs
  <2> QED BY <2>2, <2>4 DEF p, d
<1>5. seen' \in Seq(Nat) /\ Len(seen') = Len(seen) + 1
  BY <1>0, <1>2, AppendProperties
<1>6. CharactersCounted'
  BY <1>1, <1>4, CountKept DEF TtyInv, RxInv
<1>7. RxInv'
  <2>1. Len(seen') = rx'.bitpos + 1
    BY <1>3, <1>4, <1>5
  <2> QED BY <1>1, <1>4, <1>5, <1>6, <2>1 DEF TtyInv, RxInv
<1>8. Schedule'
  <2> SUFFICES ASSUME rx.aligned PROVE Schedule'
    BY <1>4 DEF Schedule
  <2>1. \A k \in 1 .. Len(seen') : k <= DataBits + 1 /\ InFrame(k)' => InPlace(k)'
    BY <1>1, <1>2, <1>4, PlacesKept
  <2>2. ASSUME Len(seen') <= DataBits, InFrame(Len(seen) + 1)' PROVE OnTime'
    <3> DEFINE n == Len(seen)
               t == SampleTime(n + 1)
               e == (DataBits + 2) * sbit
    <3>0. n \in Nat /\ Len(seen') = n + 1
      BY <1>0, <1>5
    <3>1. t \in Nat /\ SampleTime(n + 2) = t + Bit
      BY <1>0, <3>0, SampleTimes
    <3>2. SampleTime(Len(seen) + 1)' = t + Bit
      <4>1. Len(seen') + 1 = n + 2
        BY <3>0
      <4> QED BY <1>4, <3>1, <4>1 DEF SampleTime
    <3>3. t + Bit + Late < e /\ e \in Int
      BY <1>0, <1>1, <2>2, <3>2, Product DEF InFrame
    <3>4. InFrame(n + 1) /\ n <= DataBits
      <4>1. n <= DataBits
        BY <1>0, <2>2, <3>0
      <4>2. t + Late < e
        <5> HIDE DEF t, e
        <5> QED BY <1>0, <3>1, <3>3
      <4> QED BY <4>1, <4>2 DEF InFrame
    <3>5. Now + rx.due = t /\ tx.pos >= 1
      BY <1>2, <3>4, SampleInPlace
    <3>6. Now' = Now /\ Now \in Int
      <4>1. (tx.pos - 1) * sbit \in Int
        BY <1>0, Product
      <4> QED BY <1>0, <1>1, <4>1 DEF Now
    <3>7. Now' + rx'.due = t + Bit
      <4>1. rx.due \in Int /\ t \in Int
        BY <1>0, <3>1
      <4> HIDE DEF t
      <4>2. ASSUME NEW x \in Int, x = Now PROVE x + (Bit + rx.due) = t + Bit
        <5>1. x + rx.due = t
          BY <3>5, <4>2
        <5>2. Bit \in Int
          BY <1>0
        <5> QED BY <4>1, <5>1, <5>2, Later
      <4> QED BY <1>4, <3>6, <4>2
    <3> QED BY <1>1, <3>2, <3>5, <3>7 DEF OnTime
  <2> QED BY <1>4, <2>1, <2>2 DEF Schedule
<1>9. StartInv'
  <2>1. LooksInTime' => LooksInTime
    BY <1>1 DEF LooksInTime
  <2>2. Len(seen') * Bit = Len(seen) * Bit + Bit /\ Len(seen) * Bit \in Int
    BY <1>0, <1>5, Product
  <2>3. ASSUME NEW now \in Nat, Noticed(now)
        PROVE  now + rx'.due = rx'.first + Len(seen') * Bit /\ rx'.first >= 1
    <3>1. now + rx.due = rx.first + Len(seen) * Bit /\ rx.first >= 1
      BY <2>3 DEF Noticed
    <3> DEFINE m == Len(seen) * Bit
               l == Len(seen') * Bit
    <3>2. now + rx.due = rx.first + m /\ l = m + Bit /\ m \in Int
      BY <2>2, <3>1
    <3>3. now + rx'.due = rx'.first + l
      <4>1. rx.due \in Int /\ rx.first \in Int
        BY <1>0
      <4> HIDE DEF m, l
      <4>2. rx.first + m \in Int
        BY <3>2, <4>1
      <4>3. now + (Bit + rx.due) = (rx.first + m) + Bit
        BY <1>0, <3>2, <4>1, <4>2, Later
      <4> QED BY <1>0, <1>4, <3>2, <4>1, <4>3
    <3> QED BY <1>4, <3>1, <3>3
  <2>4. (tx.pos = 1 /\ unmoved /\ LooksInTime) => (Noticed(tx.tick))'
    BY <1>0, <1>1, <1>2, <2>3 DEF TtyInv, StartInv, Noticed
  <2>5. (tx.pos = 2 /\ tx.tick = 0 /\ unmoved /\ LooksInTime) => (Noticed(sbit))'
    BY <1>0, <1>1, <1>2, <2>3 DEF TtyInv, StartInv, Noticed
  <2> QED BY <1>1, <1>2, <1>4, <2>1, <2>4, <2>5 DEF TtyInv, StartInv
<1> QED BY <1>1, <1>7, <1>8, <1>9 DEF TtyInv

(***************************************************************************)
(* The character ends: at the stop bit, or given up by gpiod.  It cannot   *)
(* have begun in the start bit that is still on the line.                  *)
(***************************************************************************)
LEMMA EndKeeps ==
  ASSUME TtyInv, RxFallback \/ RxStop PROVE TtyInv'
<1>0. /\ rx \in RxRecs /\ st \in StRecs /\ rx.armed \in BOOLEAN /\ rx.aligned \in BOOLEAN
      /\ rx.bitpos \in -1 .. DataBits + 1 /\ rx.first \in Nat /\ rx.busy
      /\ DataBits \in Nat /\ DataBits >= 1 /\ Len(seen) \in Nat /\ seen \in Seq(Nat)
      /\ tx.pos \in Nat /\ Due
  BY RxTypes, Periods DEF TtyInv, TxInv, TxRecs, RxFallback, RxStop
<1>1. /\ UNCHANGED <<part, sbit, tx, parity, stopbits, tx_enable, rx_enable, open, unmoved>>
      /\ TxInv'
  BY CallbackLeaves DEF RxFallback, RxStop
<1>2. Len(seen) = rx.bitpos + 1 /\ rx.bitpos <= DataBits
  BY <1>0 DEF TtyInv, RxInv
<1>3. /\ rx' \in RxRecs /\ rx'.busy = FALSE /\ rx'.armed = rx.armed
      /\ rx'.first = rx.first /\ rx'.aligned = rx.aligned
  <2> DEFINE p == rx.bitpos + 1
  <2>1. p \in -1 .. DataBits + 1
    BY <1>0, <1>2
  <2>2. rx' = [rx EXCEPT !.bitpos = p, !.busy = FALSE]
    BY DEF RxFallback, RxStop, Pos
  <2> HIDE DEF p
  <2> QED BY <1>0, <2>1, <2>2 DEF RxRecs
<1>4. seen' = seen \/ seen' = Append(seen, tx.pos)
  BY DEF RxFallback, RxStop
<1>5. seen' \in Seq(Nat)
  BY <1>0, <1>4, AppendProperties
<1>6. st' \in StRecs /\ CharactersCounted'
  <2>0. /\ st.starts \in Nat /\ st.rx_bytes \in Nat /\ st.framing_errors \in Nat
        /\ st.closed \in Nat /\ st.fallback \in Nat
    BY <1>0 DEF StRecs
  <2>1. /\ st.starts = st.rx_bytes + st.framing_errors + st.closed + st.fallback + 1
        /\ part = "plain" => st.closed = 0 /\ st.fallback = 0
    BY <1>0 DEF TtyInv, RxInv, CharactersCounted
  <2>2. \/ st' = [st EXCEPT !.framing_errors = st.framing_errors + 1]
        \/ st' = [st EXCEPT !.rx_bytes = st.rx_bytes + 1]
        \/ st' = [st EXCEPT !.closed = st.closed + 1] /\ part # "plain"
        \/ st' = [st EXCEPT !.fallback = st.fallback + 1] /\ part # "plain"
    <3>1. CASE RxFallback
      BY <3>1 DEF RxFallback
    <3>2. CASE RxStop
      <4>1. get_rx_level \in {0, 1}
        BY LevelIsBit DEF TtyInv
      <4>2. CASE get_rx_level = 0
        BY <3>2, <4>2 DEF RxStop
      <4>3. CASE get_rx_level = 1 /\ (open \/ part = "plain")
        BY <3>2, <4>3 DEF RxStop
      <4>4. CASE get_rx_level = 1 /\ ~(open \/ part = "plain")
        BY <3>2, <4>4 DEF RxStop
      <4> QED BY <4>1, <4>2, <4>3, <4>4
    <3> QED BY <3>1, <3>2
  <2>3. CASE st' = [st EXCEPT !.framing_errors = st.framing_errors + 1]
    <3>1. PICK n \in Nat : n = st.framing_errors + 1
      BY <2>0
    <3>2. st' = [st EXCEPT !.framing_errors = n]
      BY <2>3, <3>1
    <3>3. /\ st' \in StRecs /\ st'.framing_errors = n /\ st'.starts = st.starts
          /\ st'.rx_bytes = st.rx_bytes /\ st'.closed = st.closed
          /\ st'.fallback = st.fallback
      BY <1>0, <3>2 DEF StRecs
    <3>4. st'.starts = st'.rx_bytes + st'.framing_errors + st'.closed + st'.fallback
      BY <2>0, <2>1, <3>1, <3>3
    <3> QED BY <1>1, <1>3, <2>0, <2>1, <2>3, <3>3, <3>4 DEF CharactersCounted
  <2>4. CASE st' = [st EXCEPT !.rx_bytes = st.rx_bytes + 1]
    <3>1. PICK n \in Nat : n = st.rx_bytes + 1
      BY <2>0
    <3>2. st' = [st EXCEPT !.rx_bytes = n]
      BY <2>4, <3>1
    <3>3. /\ st' \in StRecs /\ st'.rx_bytes = n /\ st'.starts = st.starts
          /\ st'.framing_errors = st.framing_errors /\ st'.closed = st.closed
          /\ st'.fallback = st.fallback
      BY <1>0, <3>2 DEF StRecs
    <3>4. st'.starts = st'.rx_bytes + st'.framing_errors + st'.closed + st'.fallback
      BY <2>0, <2>1, <3>1, <3>3
    <3> QED BY <1>1, <1>3, <2>0, <2>1, <2>4, <3>3, <3>4 DEF CharactersCounted
  <2>5. CASE st' = [st EXCEPT !.closed = st.closed + 1] /\ part # "plain"
    <3>1. PICK n \in Nat : n = st.closed + 1
      BY <2>0
    <3>2. st' = [st EXCEPT !.closed = n]
      BY <2>5, <3>1
    <3>3. /\ st' \in StRecs /\ st'.closed = n /\ st'.starts = st.starts
          /\ st'.rx_bytes = st.rx_bytes /\ st'.framing_errors = st.framing_errors
          /\ st'.fallback = st.fallback
      BY <1>0, <3>2 DEF StRecs
    <3>4. st'.starts = st'.rx_bytes + st'.framing_errors + st'.closed + st'.fallback
      BY <2>0, <2>1, <3>1, <3>3
    <3> QED BY <1>1, <1>3, <2>0, <2>1, <2>5, <3>3, <3>4 DEF CharactersCounted
  <2>6. CASE st' = [st EXCEPT !.fallback = st.fallback + 1] /\ part # "plain"
    <3>1. PICK n \in Nat : n = st.fallback + 1
      BY <2>0
    <3>2. st' = [st EXCEPT !.fallback = n]
      BY <2>6, <3>1
    <3>3. /\ st' \in StRecs /\ st'.fallback = n /\ st'.starts = st.starts
          /\ st'.rx_bytes = st.rx_bytes /\ st'.framing_errors = st.framing_errors
          /\ st'.closed = st.closed
      BY <1>0, <3>2 DEF StRecs
    <3>4. st'.starts = st'.rx_bytes + st'.framing_errors + st'.closed + st'.fallback
      BY <2>0, <2>1, <3>1, <3>3
    <3> QED BY <1>1, <1>3, <2>0, <2>1, <2>6, <3>3, <3>4 DEF CharactersCounted
  <2> QED BY <2>2, <2>3, <2>4, <2>5, <2>6
<1>7. RxInv'
  BY <1>1, <1>3, <1>5, <1>6 DEF TtyInv, RxInv
<1>8. Schedule'
  <2> SUFFICES ASSUME rx.aligned PROVE Schedule'
    BY <1>3 DEF Schedule
  <2>1. \A k \in 1 .. Len(seen') : k <= DataBits + 1 /\ InFrame(k)' => InPlace(k)'
    <3>1. CASE seen' = seen
      BY <1>1, <1>3, <3>1 DEF TtyInv, Schedule, InPlace, InFrame, SampleTime
    <3>2. CASE seen' = Append(seen, tx.pos)
      BY <1>0, <1>1, <1>3, <3>2, PlacesKept
    <3> QED BY <1>4, <3>1, <3>2
  <2> QED BY <1>3, <2>1 DEF Schedule
<1>9. StartInv'
  <2>1. LooksInTime' => LooksInTime
    BY <1>1 DEF LooksInTime
  <2>2. rx.bitpos + 1 >= DataBits
    BY <1>0 DEF RxFallback, RxStop, AtStop, Pos
  <2>3. /\ sbit \in Nat /\ sbit <= DataBits * Bit /\ Bit \in Nat /\ DataBits * Bit \in Nat
        /\ tx.tick \in Nat /\ tx.tick < sbit /\ rx.due \in Int /\ rx.due <= 0
    BY <1>0, Ticks, RxTypes DEF TtyInv, Due
  <2>4. DataBits * Bit <= Len(seen) * Bit /\ Len(seen) * Bit \in Int
    <3>1. Len(seen) \in Int /\ DataBits \in Int /\ DataBits <= Len(seen)
      BY <1>0, <1>2, <2>2
    <3> QED BY <2>3, <3>1, ProductGrows, Product
  <2>5. ASSUME NEW now \in Nat, now <= sbit, Noticed(now) PROVE FALSE
    <3>1. now + rx.due = rx.first + Len(seen) * Bit /\ rx.first >= 1
      BY <2>5 DEF Noticed
    <3> DEFINE m == Len(seen) * Bit
               l == DataBits * Bit
    <3>2. now + rx.due = rx.first + m /\ l <= m /\ m \in Int /\ l \in Nat /\ sbit <= l
      BY <2>3, <2>4, <3>1
    <3> HIDE DEF m, l
    <3> QED BY <1>0, <2>3, <2>5, <3>1, <3>2
  <2>6. ~(unmoved /\ LooksInTime /\ (tx.pos = 1 \/ (tx.pos = 2 /\ tx.tick = 0)))
    <3>1. CASE unmoved /\ LooksInTime /\ tx.pos = 1
      <4>1. Noticed(tx.tick)
        BY <1>0, <3>1 DEF TtyInv, StartInv
      <4> QED BY <2>3, <2>5, <4>1
    <3>2. CASE unmoved /\ LooksInTime /\ tx.pos = 2 /\ tx.tick = 0
      <4>1. Noticed(sbit)
        BY <1>0, <3>2 DEF TtyInv, StartInv
      <4> QED BY <2>3, <2>5, <4>1
    <3> QED BY <3>1, <3>2
  <2> QED BY <1>1, <1>3, <2>1, <2>6 DEF TtyInv, StartInv
<1> QED BY <1>1, <1>7, <1>8, <1>9 DEF TtyInv

(* The initial state: idle on both sides.                                  *)
LEMMA InitTty == ASSUME Init PROVE TtyInv
<1>0. /\ Bit \in Nat /\ Bit >= 1 /\ Half >= 1 /\ Half \in Nat /\ DataBits \in Nat /\ MaxChars \in Nat
  BY Periods
<1>1. TxInv
  <2>1. tx = [frame |-> <<>>, pos |-> 0, tick |-> 0, stops |-> 0, left |-> 0]
    BY DEF Init
  <2>2. tx \in TxRecs
    BY <1>0, <2>1 DEF TxRecs
  <2>3. sbit \in SenderBits /\ tx.tick < sbit
    BY <2>1, Periods DEF Init
  <2> QED BY <2>1, <2>2, <2>3 DEF Init, TxInv
<1>2. RxInv
  <2>1. rx = [busy |-> FALSE, bitpos |-> 0, armed |-> TRUE, due |-> Bit,
              age |-> 0, first |-> 0, aligned |-> FALSE]
    BY DEF Init
  <2>2. Bit \in -Late .. Bit
    BY <1>0, Periods
  <2>3. rx \in RxRecs
    BY <1>0, <2>1, <2>2 DEF RxRecs
  <2>4. st = [starts |-> 0, rx_bytes |-> 0, framing_errors |-> 0, closed |-> 0, fallback |-> 0]
    BY DEF Init
  <2>5. st \in StRecs /\ CharactersCounted
    BY <2>1, <2>4 DEF StRecs, CharactersCounted
  <2>6. seen \in Seq(Nat)
    BY DEF Init
  <2>7. /\ tx_enable \in BOOLEAN /\ open \in BOOLEAN /\ unmoved \in BOOLEAN
        /\ rx_enable \in BOOLEAN /\ rx_enable
    BY DEF Init
  <2>8. ~rx.busy
    BY <2>1
  <2> QED BY <2>3, <2>5, <2>6, <2>7, <2>8 DEF RxInv
<1>3. Schedule /\ StartInv
  BY DEF Init, Schedule, StartInv
<1> QED BY <1>1, <1>2, <1>3 DEF TtyInv

(* Every step keeps the two clocks together.                               *)
LEMMA StepTty == ASSUME TtyInv, [Next]_vars PROVE TtyInv'
<1>1. CASE \E b \in [1 .. DataBits -> {0, 1}] : uart_tx_byte(b)
  BY <1>1, StartBegins
<1>2. CASE \E n \in 1 .. MaxChars : gu_tty_write(n)
  <2>1. PICK n \in 1 .. MaxChars : gu_tty_write(n)
    BY <1>2
  <2>2. n \in 0 .. MaxChars
    BY Periods
  <2> QED BY <2>1, <2>2, LeftKeeps DEF gu_tty_write
<1>3. CASE Tick
  BY <1>3, TimePasses
<1>4. CASE TxSkip
  <2>1. tx.left \in 0 .. MaxChars /\ tx.left > 0
    BY <1>4 DEF TxSkip, TtyInv, TxInv, TxRecs
  <2>2. PICK n \in 0 .. MaxChars : n = tx.left - 1
    BY <2>1, Periods
  <2>3. tx' = [tx EXCEPT !.left = n]
    BY <1>4, <2>2 DEF TxSkip
  <2> QED BY <1>4, <2>3, LeftKeeps DEF TxSkip
<1>5. CASE rx_timer_cb
  BY <1>5, DisabledKeeps, IdleKeeps, StartKeeps, BitKeeps, EndKeeps DEF rx_timer_cb
<1> QED BY <1>1, <1>2, <1>3, <1>4, <1>5, ConfigKeeps DEF Next

(* The inductive invariant of the sender and the receiver.                 *)
THEOREM TtyCorrect == Spec => []TtyInv
<1>1. Init => TtyInv
  BY InitTty
<1>2. TtyInv /\ [Next]_vars => TtyInv'
  BY StepTty
<1> QED BY <1>1, <1>2, PTL DEF Spec

(***************************************************************************)
(* For any number of data bits, any even bit period of the receiver, any   *)
(* shorter lateness of its callbacks, and any sender's bit longer than the *)
(* time between two looks: a receiver that is idle and looking when a      *)
(* frame begins, and not disabled, has noticed the frame when its start    *)
(* bit is over.  uart_tx_byte and rx_timer_cb are related by StartInv.     *)
(***************************************************************************)
THEOREM StartBitIsNoticed == Spec => []StartBitNoticed
<1>1. TtyInv => StartBitNoticed
  BY DEF TtyInv, StartInv, StartBitNoticed
<1> QED BY <1>1, TtyCorrect, PTL

(* The ring's indices, through every step of the system.                   *)
LEMMA RingIndices == Spec => []RingInv
<1>1. Init => RingInv
  BY InitRing
<1>2. RingInv /\ [Next]_vars => RingInv'
  BY RingStep
<1> QED BY <1>1, <1>2, PTL DEF Spec

(***************************************************************************)
(* For any number of data bits, any two bit periods and any lateness of    *)
(* the callbacks below a bit, whatever the termios and sysfs calls change  *)
(* in the middle of a character: its samples are a receiver's bit apart up *)
(* to the lateness of one callback, fall into the bits the sender sends    *)
(* then, and each character begun is counted once.                         *)
(***************************************************************************)
THEOREM SamplesInOrder == Spec => []ReceiveInv
<1>1. ASSUME TtyInv, RingInv PROVE ReceiveInv
  <2>1. SampleSchedule
    BY <1>1 DEF TtyInv, Schedule, SampleSchedule, InPlace
  <2>2. CharactersCounted
    BY <1>1 DEF TtyInv, RxInv
  <2>3. tx.pos \in 0 .. DataBits + 4
    <3>1. /\ tx.pos \in Nat /\ tx.stops \in 0 .. 2 /\ DataBits \in Nat /\ Len(tx.frame) \in Nat
      BY <1>1, Periods DEF TtyInv, TxInv, TxRecs
    <3>2. CASE tx.pos = 0
      BY <3>1, <3>2
    <3>3. CASE tx.pos # 0
      <4>1. \/ tx.pos <= DataBits + 1
            \/ tx.pos \in {DataBits + 1 + tx.stops, DataBits + 2 + tx.stops}
        BY <1>1, <3>3 DEF TtyInv, TxInv
      <4> QED BY <3>1, <4>1
    <3> QED BY <3>2, <3>3
  <2>4. rx.due \in -Late .. 2 * Bit
    <3>1. rx.due \in -Late .. Bit /\ Bit \in Nat /\ Late \in Nat
      BY <1>1, RxTypes, Periods DEF TtyInv
    <3> QED BY <3>1
  <2>5. rx.age \in 0 .. (Bit \div 2) - 1
    BY <1>1, RxTypes DEF TtyInv, Half
  <2>7. tx.tick \in 0 .. sbit - 1
    BY <1>1, Ticks DEF TtyInv
  <2>6. TypeOK
    BY <1>1, <2>3, <2>4, <2>5, <2>7, RxTypes DEF TtyInv, TxInv, TxRecs, StRecs, RingInv, TypeOK
  <2> QED BY <2>1, <2>2, <2>6 DEF ReceiveInv
<1>2. TtyInv /\ RingInv => ReceiveInv
  BY <1>1
<1> QED BY <1>2, TtyCorrect, RingIndices, PTL
=============================================================================
