------------------------- MODULE BitbangUartProofs -------------------------
EXTENDS BitbangUart, FiniteSetTheorems, SequenceTheorems, TLAPS

-----------------------------------------------------------------------------
(* The character format *)

\* The parity of a character is a bit.
LEMMA ParityIsBit == \A b \in Byte : parity_even8(b) \in Bit
<1>1. ASSUME NEW x \in Byte, NEW k \in Nat PROVE XorShift(x, k) \in Byte
  <2>1. ASSUME NEW i \in Pos PROVE (x[i] + (IF i + k \in Pos THEN x[i + k] ELSE 0)) % 2 \in Bit
    <3>1. x[i] \in Nat /\ (IF i + k \in Pos THEN x[i + k] ELSE 0) \in Nat
      BY DEF Byte, Bit
    <3> QED BY <3>1 DEF Bit
  <2> QED BY <2>1 DEF XorShift, Byte
<1>2. ASSUME NEW b \in Byte PROVE XorShift(XorShift(XorShift(b, 4), 2), 1) \in Byte
  <2>1. XorShift(b, 4) \in Byte
    BY <1>1
  <2>2. XorShift(XorShift(b, 4), 2) \in Byte
    BY <1>1, <2>1
  <2> QED BY <1>1, <2>2
<1>3. 0 \in Pos
  BY BitsAssumption DEF Pos
<1> QED BY <1>2, <1>3 DEF parity_even8, Byte

\* Inserting a bit into a character gives a character.
LEMMA InsertIsByte ==
  ASSUME NEW b \in Byte, NEW v \in Bit
  PROVE  INSERT_BIT(b, v) \in Byte
BY BitsAssumption DEF INSERT_BIT, Byte, Pos

\* Every bit the transmitter drives is a bit.
LEMMA TxBitIsBit ==
  ASSUME NEW b \in Byte, NEW par \in Bit, NEW i \in Idle .. Stop2Idx
  PROVE  TxBit(b, par, i) \in Bit
BY BitsAssumption DEF TxBit, Byte, Pos, Bit, Idle, Stop2Idx, ParityIdx

\* Moving the index of a character within its range keeps its type.
LEMMA ChrStep ==
  ASSUME NEW last, NEW c \in Chr(last), NEW i \in Idle .. last
  PROVE  [c EXCEPT !.idx = i] \in Chr(last)
BY DEF Chr

\* The ones among the lowest positions of a character, counted one by one.
LEMMA OnesStep ==
  ASSUME NEW x, NEW k \in Nat, NEW b \in Bit, b = IF k \in Pos THEN x[k] ELSE 0
  PROVE  /\ Cardinality({i \in Pos : x[i] = 1 /\ i < k}) \in Nat
         /\ Cardinality({i \in Pos : x[i] = 1 /\ i < k + 1})
              = Cardinality({i \in Pos : x[i] = 1 /\ i < k}) + b
<1> DEFINE low == {i \in Pos : x[i] = 1 /\ i < k}
           next == {i \in Pos : x[i] = 1 /\ i < k + 1}
<1>1. IsFiniteSet(low)
  <2>1. IsFiniteSet(Pos)
    BY FS_Interval, BitsAssumption DEF Pos
  <2>2. low \subseteq Pos
    OBVIOUS
  <2> QED BY <2>1, <2>2, FS_Subset
<1>2. Cardinality(low) \in Nat
  BY <1>1, FS_CardinalityType
<1>3. CASE b = 1
  <2>1. next = low \cup {k} /\ k \notin low
    BY <1>3, BitsAssumption DEF Pos
  <2> QED BY <1>1, <1>2, <1>3, <2>1, FS_AddElement
<1>4. CASE b = 0
  <2>1. next = low
    BY <1>4, BitsAssumption DEF Pos
  <2> HIDE DEF low, next
  <2>2. Cardinality(next) = Cardinality(low) + b
    BY <1>2, <1>4, <2>1
  <2> QED BY <1>2, <2>2 DEF low, next
<1> QED BY <1>3, <1>4 DEF Bit

(***************************************************************************)
(* parity_even8 is right: three shifts and exclusive ors leave in the      *)
(* lowest bit what makes the number of ones even, for every character of   *)
(* up to eight bits.                                                       *)
(***************************************************************************)
THEOREM ParityCountsOnes ==
  \A x \in Byte : LET ones == Cardinality({i \in Pos : x[i] = 1}) IN
                  ones \in Nat /\ (ones + parity_even8(x)) % 2 = 0
<1> SUFFICES ASSUME NEW x \in Byte
             PROVE  LET ones == Cardinality({i \in Pos : x[i] = 1}) IN
                    ones \in Nat /\ (ones + parity_even8(x)) % 2 = 0
  OBVIOUS
<1> DEFINE y(k) == IF k \in Pos THEN x[k] ELSE 0
           C(k) == Cardinality({i \in Pos : x[i] = 1 /\ i < k})
<1>1. \A k \in Nat : y(k) \in Bit
  BY DEF Byte, Bit
<1>2. \A k \in Nat : C(k) \in Nat /\ C(k + 1) = C(k) + y(k)
  <2> TAKE k \in Nat
  <2> QED BY <1>1, OnesStep
<1>3. C(0) = 0
  <2>1. {i \in Pos : x[i] = 1 /\ i < 0} = {}
    BY DEF Pos
  <2> QED BY <2>1, FS_EmptySet
<1>4. C(8) = Cardinality({i \in Pos : x[i] = 1})
  <2>1. {i \in Pos : x[i] = 1 /\ i < 8} = {i \in Pos : x[i] = 1}
    BY BitsAssumption DEF Pos
  <2> QED BY <2>1
<1>5. \A k \in Nat : k >= Bits => y(k) = 0
  BY BitsAssumption DEF Pos
<1>6. parity_even8(x) = (((((y(0) + y(4)) % 2) + ((y(2) + y(6)) % 2)) % 2)
                         + ((((y(1) + y(5)) % 2) + ((y(3) + y(7)) % 2)) % 2)) % 2
  <2> DEFINE u == XorShift(x, 4)
             v == XorShift(u, 2)
             Pad(f, k) == IF k \in Pos THEN f[k] ELSE 0
  <2>1. \A k \in Nat : Pad(u, k) = (y(k) + y(k + 4)) % 2
    <3> TAKE k \in Nat
    <3>1. CASE k \in Pos
      BY <3>1 DEF XorShift
    <3>2. CASE k \notin Pos
      <4>1. y(k) = 0 /\ y(k + 4) = 0
        BY <3>2, <1>5, BitsAssumption DEF Pos
      <4> HIDE DEF y
      <4> QED BY <3>2, <4>1
    <3> QED BY <3>1, <3>2
  <2> HIDE DEF u
  <2>2. \A k \in Nat : Pad(v, k) = (Pad(u, k) + Pad(u, k + 2)) % 2
    <3> TAKE k \in Nat
    <3>1. CASE k \in Pos
      BY <3>1 DEF XorShift
    <3>2. CASE k \notin Pos
      <4>1. k + 2 \notin Pos
        BY <3>2, BitsAssumption DEF Pos
      <4> QED BY <3>2, <4>1
    <3> QED BY <3>1, <3>2
  <2> HIDE DEF v
  <2>3. parity_even8(x) = (Pad(v, 0) + Pad(v, 1)) % 2
    BY BitsAssumption DEF parity_even8, u, v, XorShift, Pos
  <2> HIDE DEF Pad, y
  <2>4. /\ Pad(u, 0) = (y(0) + y(4)) % 2 /\ Pad(u, 1) = (y(1) + y(5)) % 2
        /\ Pad(u, 2) = (y(2) + y(6)) % 2 /\ Pad(u, 3) = (y(3) + y(7)) % 2
    <3>1. /\ 0 + 4 = 4 /\ 1 + 4 = 5 /\ 2 + 4 = 6 /\ 3 + 4 = 7
      OBVIOUS
    <3> QED BY <2>1, <3>1
  <2>5. Pad(v, 0) = (Pad(u, 0) + Pad(u, 2)) % 2 /\ Pad(v, 1) = (Pad(u, 1) + Pad(u, 3)) % 2
    <3>1. 0 + 2 = 2 /\ 1 + 2 = 3
      OBVIOUS
    <3> QED BY <2>2, <3>1
  <2> QED BY <2>3, <2>4, <2>5
<1> HIDE DEF y, C
<1>7. C(8) = y(0) + y(1) + y(2) + y(3) + y(4) + y(5) + y(6) + y(7)
  <2>1. /\ C(1) = C(0) + y(0) /\ C(2) = C(1) + y(1) /\ C(3) = C(2) + y(2) /\ C(4) = C(3) + y(3)
        /\ C(5) = C(4) + y(4) /\ C(6) = C(5) + y(5) /\ C(7) = C(6) + y(6) /\ C(8) = C(7) + y(7)
    <3>1. /\ 0 + 1 = 1 /\ 1 + 1 = 2 /\ 2 + 1 = 3 /\ 3 + 1 = 4
          /\ 4 + 1 = 5 /\ 5 + 1 = 6 /\ 6 + 1 = 7 /\ 7 + 1 = 8
      OBVIOUS
    <3> QED BY <1>2, <3>1
  <2>2. \A k \in Nat : y(k) \in Int
    BY <1>1 DEF Bit
  <2> QED BY <2>1, <2>2, <1>3
<1>8. /\ y(0) \in Bit /\ y(1) \in Bit /\ y(2) \in Bit /\ y(3) \in Bit
      /\ y(4) \in Bit /\ y(5) \in Bit /\ y(6) \in Bit /\ y(7) \in Bit
  BY <1>1
<1>9. (C(8) + parity_even8(x)) % 2 = 0
  <2>1. (y(0) + y(1) + y(2) + y(3) + y(4) + y(5) + y(6) + y(7)
         + ((((((y(0) + y(4)) % 2) + ((y(2) + y(6)) % 2)) % 2)
            + ((((y(1) + y(5)) % 2) + ((y(3) + y(7)) % 2)) % 2)) % 2)) % 2 = 0
    BY <1>8 DEF Bit
  <2> QED BY <1>6, <1>7, <2>1, Zenon
<1> QED BY <1>2, <1>4, <1>9

-----------------------------------------------------------------------------
(* The types of the FIFOs and of the statistics *)

\* What a write copies is a sequence of characters.
LEMMA ChunksAreSeq == Chunks \subseteq Seq(Bytes)
BY UartAssumption DEF Chunks

-----------------------------------------------------------------------------
\* An empty FIFO is a FIFO.
LEMMA EmptyFifo == <<>> \in Seq(Byte) /\ Len(<<>>) = 0 /\ 0 <= FifoSize
BY EmptySeq, UartAssumption

\* Counting one event more keeps the statistics natural numbers.
LEMMA StatStep ==
  ASSUME NEW f \in [Stat -> Nat], NEW s \in Stat
  PROVE  [f EXCEPT ![s] = @ + 1] \in [Stat -> Nat]
OBVIOUS

\* Overwrite-on-full keeps the receive FIFO within FIFO_SIZE: it drops the
\* oldest byte exactly when the new one would not fit.
LEMMA PushRxType ==
  ASSUME NEW b \in Byte, rx_fifo \in Seq(Byte), Len(rx_fifo) <= FifoSize, PushRx(b)
  PROVE  /\ rx_fifo' \in Seq(Byte) /\ Len(rx_fifo') <= FifoSize
         /\ Full(rx_fifo) => /\ Len(rx_fifo') = Len(rx_fifo)
                             /\ \A i \in 1 .. Len(rx_fifo) :
                                   rx_fifo'[i] = IF i = Len(rx_fifo) THEN b ELSE rx_fifo[i + 1]
         /\ ~Full(rx_fifo) => /\ Len(rx_fifo') = Len(rx_fifo) + 1
                              /\ \A i \in 1 .. Len(rx_fifo) + 1 :
                                    rx_fifo'[i] = IF i = Len(rx_fifo) + 1 THEN b ELSE rx_fifo[i]
<1>1. CASE Full(rx_fifo)
  <2>1. rx_fifo # <<>> /\ Len(rx_fifo) \in Nat \ {0}
    BY <1>1, UartAssumption DEF Full
  <2>2. /\ Tail(rx_fifo) \in Seq(Byte) /\ Len(Tail(rx_fifo)) = Len(rx_fifo) - 1
        /\ \A i \in 1 .. Len(rx_fifo) - 1 : Tail(rx_fifo)[i] = rx_fifo[i + 1]
    BY <2>1, HeadTailProperties
  <2>3. rx_fifo' = Append(Tail(rx_fifo), b)
    BY <1>1 DEF PushRx
  <2>4. rx_fifo' \in Seq(Byte) /\ Len(rx_fifo') = Len(rx_fifo)
    BY <2>1, <2>2, <2>3, AppendProperties
  <2>5. ASSUME NEW i \in 1 .. Len(rx_fifo)
        PROVE  rx_fifo'[i] = IF i = Len(rx_fifo) THEN b ELSE rx_fifo[i + 1]
    <3> DEFINE t == Tail(rx_fifo)
    <3>1. /\ \A j \in 1 .. Len(t) : Append(t, b)[j] = t[j]
          /\ Append(t, b)[Len(t) + 1] = b
      BY <2>2, AppendProperties
    <3> HIDE DEF t
    <3>2. CASE i = Len(rx_fifo)
      BY <3>1, <3>2, <2>1, <2>2, <2>3 DEF t
    <3>3. CASE i # Len(rx_fifo)
      <4>1. i \in 1 .. Len(rx_fifo) - 1
        BY <3>3, <2>1
      <4> QED BY <3>1, <3>3, <4>1, <2>2, <2>3 DEF t
    <3> QED BY <3>2, <3>3
  <2> QED BY <1>1, <2>4, <2>5
<1>2. CASE ~Full(rx_fifo)
  BY <1>2, UartAssumption, AppendProperties DEF PushRx, Full
<1> QED BY <1>1, <1>2

\* Every step preserves the types.
LEMMA TypeStep == TypeOK /\ [Next]_vars => TypeOK'
<1> SUFFICES ASSUME TypeOK, [Next]_vars PROVE TypeOK'
  OBVIOUS
<1> USE DEF TypeOK
<1>1. ASSUME NEW p \in Procs, Syscall(p) PROVE TypeOK'
  <2>1. CASE OpenResetFifo(p) \/ CloseResetFifo(p)
    <3>1. RxTypeOK'
      <4>1. rx_fifo' = <<>> /\ UNCHANGED <<rx_chr, rx_gpio, rx_queued, irq_pending>>
        BY <2>1 DEF OpenResetFifo, CloseResetFifo
      <4> QED BY <4>1, EmptyFifo DEF RxTypeOK
    <3>2. ProcTypeOK'
      BY <2>1 DEF OpenResetFifo, CloseResetFifo, ProcTypeOK, Goto, Places
    <3> QED
      BY <2>1, <3>1, <3>2 DEF OpenResetFifo, CloseResetFifo, TxTypeOK, OpenTypeOK,
         HistTypeOK, txVars, openVars, histVars
  <2>2. CASE OpenResetIdx(p)
    <3>1. tx_chr' \in Chr(Stop2Idx) /\ rx_chr' \in Chr(StopIdx)
      <4>1. Idle \in Idle .. Stop2Idx /\ Idle \in Idle .. StopIdx
        BY BitsAssumption DEF Idle, StopIdx, Stop2Idx
      <4>2. /\ tx_chr' = [tx_chr EXCEPT !.idx = Idle]
            /\ rx_chr' = [rx_chr EXCEPT !.idx = Idle]
        BY <2>2 DEF OpenResetIdx
      <4> QED BY <4>1, <4>2, ChrStep DEF TxTypeOK, RxTypeOK
    <3>2. aborted' \in Nat /\ cut' \in BOOLEAN
      BY <2>2 DEF OpenResetIdx, HistTypeOK
    <3>3. ProcTypeOK'
      BY <2>2 DEF OpenResetIdx, ProcTypeOK, Goto, Places
    <3> QED
      BY <2>2, <3>1, <3>2, <3>3 DEF OpenResetIdx, TxTypeOK, RxTypeOK, OpenTypeOK,
         HistTypeOK, openVars
  <2>3. CASE OpenEnableIrq(p) \/ CloseDisableIrq(p)
    <3>1. OpenTypeOK'
      BY <2>3 DEF OpenEnableIrq, CloseDisableIrq, OpenTypeOK
    <3>2. ProcTypeOK'
      BY <2>3 DEF OpenEnableIrq, CloseDisableIrq, ProcTypeOK, Goto, Places
    <3> QED
      BY <2>3, <3>1, <3>2 DEF OpenEnableIrq, CloseDisableIrq, TxTypeOK, RxTypeOK,
         HistTypeOK, txVars, rxVars, histVars
  <2>4. CASE TxWait(p) \/ RxWait(p)
    <3>1. ProcTypeOK'
      BY <2>4 DEF TxWait, RxWait, ProcTypeOK, Step, Goto, Places
    <3> QED
      BY <2>4, <3>1 DEF TxWait, RxWait, TxTypeOK, RxTypeOK, OpenTypeOK,
         HistTypeOK, txVars, rxVars, openVars, histVars
  <2>5. ASSUME NEW s \in Chunks, TxCopy(p, s) PROVE TypeOK'
    <3>1. s \in Seq(Bytes) /\ Len(s) <= FifoSize - Len(tx_fifo)
      BY <2>5, ChunksAreSeq, UartAssumption DEF TxCopy, Least, TxTypeOK, ProcTypeOK
    <3>2. tx_fifo' \in Seq(Bytes) /\ Len(tx_fifo') <= FifoSize
      BY <2>5, <3>1, UartAssumption, ConcatProperties DEF TxCopy, TxTypeOK
    <3>3. accepted' \in Seq(Bytes)
      BY <2>5, <3>1, ConcatProperties DEF TxCopy, HistTypeOK
    <3>4. ProcTypeOK'
      <4>1. CASE Return(p)
        BY <4>1, UartAssumption DEF ProcTypeOK, Return, Goto, Places
      <4>2. CASE Step(p, "tx_check")
        BY <4>2 DEF ProcTypeOK, Step, Goto, Places
      <4> QED BY <2>5, <4>1, <4>2 DEF TxCopy
    <3> QED
      BY <2>5, <3>2, <3>3, <3>4 DEF TxCopy, TxTypeOK, RxTypeOK, OpenTypeOK, HistTypeOK,
         rxVars, openVars
  <2>6. CASE TxCheckTimer(p) \/ TxStartTimer(p)
    <3>1. ProcTypeOK'
      BY <2>6, UartAssumption DEF TxCheckTimer, TxStartTimer, ProcTypeOK, Return, Step,
         Goto, Places
    <3>2. TxTypeOK'
      BY <2>6 DEF TxCheckTimer, TxStartTimer, TxTypeOK, txVars
    <3> QED
      BY <2>6, <3>1, <3>2 DEF TxCheckTimer, TxStartTimer, RxTypeOK, OpenTypeOK,
         HistTypeOK, rxVars, openVars, histVars
  <2>7. ASSUME NEW k \in 0 .. MaxCount, RxCopy(p, k) PROVE TypeOK'
    <3>1. k <= Len(rx_fifo) /\ k \in Nat
      BY <2>7, UartAssumption DEF RxCopy, Least, ProcTypeOK, RxTypeOK
    <3>2. RxTypeOK'
      BY <2>7, <3>1, UartAssumption, SubSeqProperties DEF RxCopy, RxTypeOK
    <3>3. ProcTypeOK'
      BY <2>7, UartAssumption DEF RxCopy, ProcTypeOK, Return, Goto, Places
    <3> QED
      BY <2>7, <3>2, <3>3 DEF RxCopy, TxTypeOK, OpenTypeOK, HistTypeOK, txVars,
         openVars, histVars
  <2> QED
    BY <1>1, <2>1, <2>2, <2>3, <2>4, <2>5, <2>6, <2>7 DEF Syscall
<1>2. ASSUME NEW p \in Procs, User(p) PROVE TypeOK'
  <2>1. CASE Open(p) \/ Close(p)
    <3>1. OpenTypeOK'
      BY <2>1 DEF Open, Close, OpenTypeOK
    <3>2. ProcTypeOK'
      BY <2>1 DEF Open, Close, ProcTypeOK, Goto, Places
    <3>3. HistTypeOK'
      BY <2>1 DEF Open, Close, HistTypeOK, histVars
    <3> QED
      BY <2>1, <3>1, <3>2, <3>3 DEF Open, Close, TxTypeOK, RxTypeOK, txVars, rxVars
  <2>2. ASSUME NEW n \in 0 .. MaxCount, Write(p, n) \/ Read(p, n) \/ Interrupted(p)
        PROVE  TypeOK'
    <3>1. ProcTypeOK'
      <4>1. CASE Return(p)
        BY <4>1, UartAssumption DEF ProcTypeOK, Return, Goto, Places
      <4>2. CASE Goto(p, "tx_wait") /\ req' = [req EXCEPT ![p] = n]
        BY <4>2 DEF ProcTypeOK, Goto, Places
      <4>3. CASE Goto(p, "rx_wait") /\ req' = [req EXCEPT ![p] = n]
        BY <4>3 DEF ProcTypeOK, Goto, Places
      <4> QED BY <2>2, <4>1, <4>2, <4>3 DEF Write, Read, Interrupted
    <3> QED
      BY <2>2, <3>1 DEF Write, Read, Interrupted, TxTypeOK, RxTypeOK, OpenTypeOK,
         HistTypeOK, txVars, rxVars, openVars, histVars
  <2>3. 0 \in 0 .. MaxCount
    BY UartAssumption
  <2> QED BY <1>2, <2>1, <2>2, <2>3 DEF User
<1>3. CASE tx_timer_cb
  <2>1. CASE TxStartBit
    <3>1. /\ Head(tx_fifo) \in Bytes
          /\ Tail(tx_fifo) \in Seq(Bytes) /\ Len(Tail(tx_fifo)) <= FifoSize
          /\ Append(taken, Head(tx_fifo)) \in Seq(Bytes)
      BY <2>1, UartAssumption, HeadTailProperties, AppendProperties
         DEF TxStartBit, TxTypeOK, HistTypeOK
    <3>2. tx_chr' \in Chr(Stop2Idx)
      <4>1. Head(tx_fifo) \in Byte
        BY <3>1, UartAssumption
      <4>2. parity_even8(Head(tx_fifo)) \in Bit
        BY <4>1, ParityIsBit
      <4>3. 0 \in Idle .. Stop2Idx
        BY BitsAssumption DEF Idle, Stop2Idx
      <4>4. tx_chr' = [idx |-> 0, data |-> Head(tx_fifo), parity |-> parity_even8(Head(tx_fifo))]
        BY <2>1 DEF TxStartBit
      <4> QED BY ONLY <4>1, <4>2, <4>3, <4>4 DEF Chr
    <3>3. tx_gpio' \in Bit
      BY <2>1 DEF TxStartBit, TxBit, Bit
    <3>4. ProcTypeOK'
      BY <2>1 DEF TxStartBit, Wake, ProcTypeOK, Places
    <3> QED
      BY <2>1, <3>1, <3>2, <3>3, <3>4 DEF TxStartBit, TxExpire, TxTypeOK, RxTypeOK,
         OpenTypeOK, HistTypeOK, rxVars, openVars
  <2>2. CASE TxFifoEmpty
    BY <2>2 DEF TxFifoEmpty, TxExpire, TxTypeOK, RxTypeOK, OpenTypeOK, ProcTypeOK,
       HistTypeOK, rxVars, openVars, procVars, histVars
  <2>3. CASE TxNextBit \/ TxLastStopBit
    <3>1. tx_chr.data \in Byte /\ tx_chr.parity \in Bit /\ tx_chr.idx \in Idle .. Stop2Idx
      BY DEF TxTypeOK, Chr
    <3>2. tx_gpio' = TxBit(tx_chr.data, tx_chr.parity, tx_chr.idx)
      BY <2>3 DEF TxNextBit, TxLastStopBit
    <3>3. tx_gpio' \in Bit
      BY <3>1, <3>2, TxBitIsBit
    <3>4. tx_chr' \in Chr(Stop2Idx)
      <4>1. CASE TxNextBit
        <5>1. tx_chr.idx + 1 \in Idle .. Stop2Idx
          BY <4>1, BitsAssumption DEF TxNextBit, Idle, StopIdx, Stop2Idx
        <5>2. tx_chr' = [tx_chr EXCEPT !.idx = tx_chr.idx + 1]
          BY <4>1 DEF TxNextBit
        <5> QED BY <5>1, <5>2, ChrStep DEF TxTypeOK
      <4>2. CASE TxLastStopBit
        <5>1. Idle \in Idle .. Stop2Idx
          BY BitsAssumption DEF Idle, Stop2Idx
        <5> QED BY <4>2, <5>1, ChrStep DEF TxLastStopBit, TxTypeOK
      <4> QED BY <2>3, <4>1, <4>2
    <3>5. stats' \in [Stat -> Nat]
      <4>1. "tx_counter" \in Stat
        BY DEF Stat
      <4>2. CASE TxNextBit
        BY <4>2 DEF TxNextBit
      <4>3. CASE TxLastStopBit
        BY <4>1, <4>3, StatStep DEF TxLastStopBit
      <4> QED BY <2>3, <4>2, <4>3
    <3> QED
      BY <2>3, <3>3, <3>4, <3>5 DEF TxNextBit, TxLastStopBit, TxExpire, TxTypeOK,
         RxTypeOK, OpenTypeOK, ProcTypeOK, HistTypeOK, rxVars, openVars, procVars
  <2> QED BY <1>3, <2>1, <2>2, <2>3 DEF tx_timer_cb
<1>4. CASE TxReturn
  BY <1>4 DEF TxReturn, TxTypeOK, RxTypeOK, OpenTypeOK, ProcTypeOK, HistTypeOK,
     rxVars, openVars, procVars, histVars
<1>5. ASSUME NEW v \in Bit, LineChange(v) \/ rx_irq_handler PROVE TypeOK'
  <2>1. RxTypeOK'
    BY <1>5 DEF LineChange, rx_irq_handler, RxTypeOK
  <2> QED
    BY <1>5, <2>1 DEF LineChange, rx_irq_handler, TxTypeOK, OpenTypeOK, ProcTypeOK,
       HistTypeOK, txVars, openVars, procVars, histVars
<1>6. CASE rx_timer_cb
  <2>1. TxTypeOK' /\ OpenTypeOK' /\ rx_gpio' = rx_gpio /\ irq_pending' = irq_pending
    BY <1>6 DEF rx_timer_cb, TxTypeOK, OpenTypeOK, txVars, openVars
  <2>2. /\ rx_chr \in Chr(StopIdx) /\ rx_chr.data \in Byte /\ rx_chr.parity \in Bit
        /\ rx_gpio \in Bit /\ rx_fifo \in Seq(Byte) /\ Len(rx_fifo) <= FifoSize
    BY DEF RxTypeOK, Chr
  <2>3. Idle \in Idle .. StopIdx /\ 0 \in Idle .. StopIdx
    BY BitsAssumption DEF Idle, StopIdx
  <2>4. {"rx_counter", "rx_errs_start", "rx_errs_stop", "rx_errs_parity"} \subseteq Stat
    BY DEF Stat
  <2> DEFINE Goal == /\ rx_chr' \in Chr(StopIdx) /\ stats' \in [Stat -> Nat]
                     /\ rx_fifo' \in Seq(Byte) /\ Len(rx_fifo') <= FifoSize
                     /\ rx_queued' \in BOOLEAN /\ received' \in Seq(Byte)
                     /\ pc' \in [Procs -> Places]
  <2>5. ASSUME RxStartBit PROVE Goal
    <3>1. rx_chr' \in Chr(StopIdx)
      BY <2>5, <2>2, <2>3, ChrStep DEF RxStartBit
    <3>2. stats' \in [Stat -> Nat]
      BY <2>5, <2>4, StatStep DEF RxStartBit
    <3> QED BY <2>5, <3>1, <3>2 DEF RxStartBit, RxTypeOK, ProcTypeOK, HistTypeOK
  <2>6. ASSUME RxDataBit PROVE Goal
    <3>1. INSERT_BIT(rx_chr.data, rx_gpio) \in Byte
      BY <2>2, InsertIsByte
    <3>2. rx_chr.idx + 1 \in Idle .. StopIdx
      BY <2>6, BitsAssumption DEF RxDataBit, Pos, Idle, StopIdx
    <3>3. rx_chr' \in Chr(StopIdx)
      BY <2>6, <2>2, <3>1, <3>2 DEF RxDataBit, Chr
    <3> QED BY <2>6, <3>3 DEF RxDataBit, RxTypeOK, ProcTypeOK, HistTypeOK
  <2>7. ASSUME RxParityBit PROVE Goal
    <3>1. rx_chr.idx + 1 \in Idle .. StopIdx
      BY <2>7, BitsAssumption DEF RxParityBit, ParityIdx, Idle, StopIdx
    <3>2. rx_chr' \in Chr(StopIdx)
      BY <2>7, <2>2, <3>1 DEF RxParityBit, Chr
    <3> QED BY <2>7, <3>2 DEF RxParityBit, RxTypeOK, ProcTypeOK, HistTypeOK
  <2>8. ASSUME RxStopBit PROVE Goal
    <3>1. rx_chr' \in Chr(StopIdx) /\ rx_queued' \in BOOLEAN
      BY <2>8, <2>2, <2>3, ChrStep DEF RxStopBit
    <3>2. CASE PushRx(rx_chr.data) /\ Wake("rx_asleep", "rx_wait")
               /\ received' = Append(received, rx_chr.data)
               /\ stats' = [stats EXCEPT !["rx_counter"] = @ + 1]
      <4>1. rx_fifo' \in Seq(Byte) /\ Len(rx_fifo') <= FifoSize
        BY <3>2, <2>2, PushRxType
      <4>2. received' \in Seq(Byte) /\ stats' \in [Stat -> Nat]
        BY <3>2, <2>2, <2>4, StatStep, AppendProperties DEF HistTypeOK
      <4>3. pc' \in [Procs -> Places]
        BY <3>2 DEF Wake, ProcTypeOK, Places
      <4> QED BY <3>1, <4>1, <4>2, <4>3
    <3>3. CASE /\ UNCHANGED <<rx_fifo, pc, received>>
               /\ \E i, j \in BOOLEAN : stats' = [stats EXCEPT
                     !["rx_errs_parity"] = IF i THEN @ + 1 ELSE @,
                     !["rx_errs_stop"] = IF j THEN @ + 1 ELSE @]
      <4>1. stats' \in [Stat -> Nat]
        BY <3>3, <2>4
      <4> QED BY <3>1, <3>3, <4>1 DEF RxTypeOK, ProcTypeOK, HistTypeOK
    <3> QED BY <2>8, <3>2, <3>3 DEF RxStopBit
  <2>9. Goal
    BY <1>6, <2>5, <2>6, <2>7, <2>8 DEF rx_timer_cb
  <2> QED
    BY <1>6, <2>1, <2>2, <2>9 DEF rx_timer_cb, RxTypeOK, ProcTypeOK, HistTypeOK
<1>7. CASE UNCHANGED vars
  BY <1>7 DEF vars, TxTypeOK, RxTypeOK, OpenTypeOK, ProcTypeOK, HistTypeOK,
     txVars, rxVars, openVars, procVars, histVars
<1>8. 0 \in Bit
  BY DEF Bit
<1> QED BY <1>1, <1>2, <1>3, <1>4, <1>5, <1>6, <1>7, <1>8 DEF Next

(***************************************************************************)
(* Type correctness: the FIFOs never exceed FIFO_SIZE and the bit indices  *)
(* never leave the ranges the two callbacks handle, for any number of      *)
(* processes, FIFO size and character width.                               *)
(***************************************************************************)
THEOREM TypeCorrect == Spec => []TypeOK
<1>1. ASSUME Init PROVE TypeOK
  <2>1. tx_chr \in Chr(Stop2Idx) /\ rx_chr \in Chr(StopIdx)
    BY <1>1, BitsAssumption DEF Init, Chr, Byte, Bit, Idle, StopIdx, Stop2Idx
  <2>2. TxTypeOK
    BY <1>1, <2>1, EmptyFifo, EmptySeq, UartAssumption DEF Init, TxTypeOK, Bit
  <2>3. RxTypeOK
    BY <1>1, <2>1, EmptyFifo DEF Init, RxTypeOK, Bit
  <2>4. OpenTypeOK /\ ProcTypeOK
    BY <1>1, UartAssumption DEF Init, OpenTypeOK, ProcTypeOK, Places
  <2>5. HistTypeOK /\ stats \in [Stat -> Nat]
    BY <1>1, EmptySeq DEF Init, HistTypeOK
  <2> QED BY <2>2, <2>3, <2>4, <2>5 DEF TypeOK
<1> QED BY <1>1, TypeStep, PTL DEF Spec

-----------------------------------------------------------------------------
(* The transmit pump *)

(***************************************************************************)
(* What makes TxPumpArmed inductive on one CPU: a callback that is about   *)
(* to return HRTIMER_NORESTART left the FIFO empty, and nothing ran since. *)
(***************************************************************************)
PumpInv ==
    /\ TxPumpArmed
    /\ tx_running /\ ~tx_restart => tx_fifo = <<>>

\* Every step preserves PumpInv on one CPU.
LEMMA PumpStep == ASSUME ~Smp, TypeOK, PumpInv, [Next]_vars PROVE PumpInv'
<1> USE DEF PumpInv, TxPumpArmed, hrtimer_active_tx
<1>1. ASSUME NEW p \in Procs, Syscall(p) \/ User(p) PROVE PumpInv'
  <2>0. pc \in [Procs -> Places]
    BY DEF TypeOK, ProcTypeOK
  <2>1. ~tx_running
    BY <1>1 DEF Syscall, User, CpuFree, Open, OpenResetFifo, OpenResetIdx,
       OpenEnableIrq, Close, CloseDisableIrq, CloseResetFifo, Write, TxWait, TxCopy,
       TxCheckTimer, TxStartTimer, Read, RxWait, RxCopy, Interrupted
  <2>2. ASSUME NEW s \in Chunks, TxCopy(p, s) PROVE PumpInv'
    <3>1. CASE s = <<>>
      <4>1. tx_fifo' = tx_fifo /\ UNCHANGED <<tx_queued, tx_running>>
        BY <2>2, <3>1, ConcatEmptySeq DEF TxCopy, TypeOK, TxTypeOK
      <4>2. pc[p] = "tx_copy" /\ pc' = [pc EXCEPT ![p] = "opened"]
        BY <2>2, <3>1 DEF TxCopy, At, Return, Goto
      <4> QED BY <2>0, <2>1, <4>1, <4>2
    <3>2. CASE s # <<>>
      <4>1. pc' = [pc EXCEPT ![p] = "tx_check"] /\ tx_running' = tx_running
        BY <2>2, <3>2 DEF TxCopy, Step, Goto
      <4> QED BY <2>0, <2>1, <4>1
    <3> QED BY <3>1, <3>2
  <2>3. CASE TxCheckTimer(p)
    <3>1. UNCHANGED <<tx_fifo, tx_queued, tx_running, tx_restart>>
      BY <2>3 DEF TxCheckTimer, txVars
    <3>2. CASE tx_queued
      BY <3>1, <3>2, <2>1
    <3>3. CASE ~tx_queued
      <4>1. pc' = [pc EXCEPT ![p] = "tx_start"]
        BY <2>1, <2>3, <3>3 DEF TxCheckTimer, Step, Goto
      <4> QED BY <2>0, <2>1, <3>1, <4>1
    <3> QED BY <3>2, <3>3
  <2>4. CASE TxStartTimer(p)
    BY <2>1, <2>4 DEF TxStartTimer
  <2>5. ASSUME UNCHANGED <<tx_fifo, tx_queued, tx_running>>, pc[p] \notin {"tx_check", "tx_start"},
               NEW l, pc' = [pc EXCEPT ![p] = l]
        PROVE  PumpInv'
    BY <2>0, <2>1, <2>5
  <2>6. CASE \/ Open(p) \/ OpenResetFifo(p) \/ OpenResetIdx(p) \/ OpenEnableIrq(p)
             \/ Close(p) \/ CloseDisableIrq(p) \/ CloseResetFifo(p)
    <3>1. UNCHANGED <<tx_fifo, tx_queued, tx_running>>
      BY <2>6 DEF Open, OpenResetFifo, OpenResetIdx, OpenEnableIrq, Close,
         CloseDisableIrq, CloseResetFifo, txVars
    <3>2. pc[p] \notin {"tx_check", "tx_start"} /\ \E l : pc' = [pc EXCEPT ![p] = l]
      BY <2>6 DEF Open, OpenResetFifo, OpenResetIdx, OpenEnableIrq, Close,
         CloseDisableIrq, CloseResetFifo, At, Goto
    <3> QED BY <2>5, <3>1, <3>2
  <2>7. ASSUME NEW n, \/ TxWait(p) \/ RxWait(p) \/ Interrupted(p) \/ Write(p, n)
                      \/ Read(p, n) \/ RxCopy(p, n)
        PROVE  PumpInv'
    <3>1. UNCHANGED <<tx_fifo, tx_queued, tx_running>>
      BY <2>7 DEF TxWait, RxWait, Interrupted, Write, Read, RxCopy, txVars
    <3>2. pc[p] \notin {"tx_check", "tx_start"} /\ \E l : pc' = [pc EXCEPT ![p] = l]
      BY <2>7 DEF TxWait, RxWait, Interrupted, Write, Read, RxCopy, At, Step, Return, Goto
    <3> QED BY <2>5, <3>1, <3>2
  <2> QED
    BY <1>1, <2>2, <2>3, <2>4, <2>6, <2>7 DEF Syscall, User
<1>2. CASE tx_timer_cb
  BY <1>2 DEF tx_timer_cb, TxStartBit, TxFifoEmpty, TxNextBit, TxLastStopBit, TxExpire
<1>3. CASE TxReturn
  <2>1. UNCHANGED <<tx_fifo, pc>> /\ tx_queued' = (tx_queued \/ tx_restart) /\ ~tx_running'
    BY <1>3 DEF TxReturn, procVars, TypeOK, TxTypeOK
  <2>2. tx_running
    BY <1>3 DEF TxReturn
  <2> QED BY <2>1, <2>2
<1>4. ASSUME NEW v \in Bit, LineChange(v) \/ rx_irq_handler PROVE PumpInv'
  BY <1>4 DEF LineChange, rx_irq_handler, txVars, procVars
<1>5. CASE rx_timer_cb
  <2>1. UNCHANGED <<tx_fifo, tx_queued, tx_running, tx_restart>>
    BY <1>5 DEF rx_timer_cb, txVars
  <2>2. \A q \in Procs : pc[q] \in {"tx_check", "tx_start"} => pc'[q] = pc[q]
    BY <1>5 DEF rx_timer_cb, RxStartBit, RxDataBit, RxParityBit, RxStopBit, Wake
  <2> QED BY <2>1, <2>2
<1>6. CASE UNCHANGED vars
  BY <1>6 DEF vars, txVars, procVars
<1>7. 0 \in Bit
  BY DEF Bit
<1> QED BY <1>1, <1>2, <1>3, <1>4, <1>5, <1>6, <1>7 DEF Next

(***************************************************************************)
(* On one CPU the check-then-start of bitbang_tx never strands a byte,     *)
(* whatever the number of writers, their sizes and the reopens: whenever   *)
(* the FIFO holds something the timer is active or about to be started.    *)
(***************************************************************************)
THEOREM PumpNeverStops == ASSUME ~Smp PROVE Spec => []TxPumpArmed
<1>1. Init => PumpInv
  BY DEF Init, PumpInv, TxPumpArmed
<1>2. TypeOK /\ PumpInv /\ [Next]_vars => PumpInv'
  BY PumpStep
<1>3. PumpInv => TxPumpArmed
  BY DEF PumpInv
<1> QED BY <1>1, <1>2, <1>3, TypeCorrect, PTL DEF Spec

-----------------------------------------------------------------------------
(* Sleepers *)

\* Every step preserves NoLostWakeup.
LEMMA WakeupStep == ASSUME TypeOK, NoLostWakeup, [Next]_vars PROVE NoLostWakeup'
<1> USE DEF NoLostWakeup, At
<1>0. /\ pc \in [Procs -> Places] /\ tx_fifo \in Seq(Bytes) /\ rx_fifo \in Seq(Byte)
      /\ Len(tx_fifo) <= FifoSize /\ FifoSize \in Nat
  BY UartAssumption DEF TypeOK, ProcTypeOK, TxTypeOK, RxTypeOK
<1>1. ASSUME NEW p \in Procs, NEW l, pc' = [pc EXCEPT ![p] = l],
             l = "tx_asleep" => Full(tx_fifo'), l = "rx_asleep" => rx_fifo' = <<>>,
             Full(tx_fifo) => Full(tx_fifo'), rx_fifo = <<>> => rx_fifo' = <<>>
      PROVE  NoLostWakeup'
  BY <1>0, <1>1 DEF Full
<1>2. ASSUME NEW p \in Procs, Syscall(p) \/ User(p) PROVE NoLostWakeup'
  <2>1. CASE \/ Open(p) \/ OpenResetIdx(p) \/ OpenEnableIrq(p) \/ Close(p)
             \/ CloseDisableIrq(p) \/ TxStartTimer(p) \/ TxCheckTimer(p)
             \/ Interrupted(p)
    <3>1. UNCHANGED <<tx_fifo, rx_fifo>>
      BY <2>1 DEF Open, OpenResetIdx, OpenEnableIrq, Close, CloseDisableIrq,
         TxStartTimer, TxCheckTimer, Interrupted, txVars, rxVars
    <3>2. \E l \in {"open_fifo", "opened", "open_irq", "close_irq", "closed",
                    "close_fifo", "tx_start"} : pc' = [pc EXCEPT ![p] = l]
      BY <2>1 DEF Open, OpenResetIdx, OpenEnableIrq, Close, CloseDisableIrq,
         TxStartTimer, TxCheckTimer, Interrupted, Goto, Return, Step
    <3> QED BY <1>1, <3>1, <3>2
  <2>2. CASE OpenResetFifo(p) \/ CloseResetFifo(p)
    <3>1. rx_fifo' = <<>> /\ tx_fifo' = tx_fifo
      BY <2>2 DEF OpenResetFifo, CloseResetFifo, txVars
    <3>2. \E l \in {"open_idx", "closed"} : pc' = [pc EXCEPT ![p] = l]
      BY <2>2 DEF OpenResetFifo, CloseResetFifo, Goto
    <3> QED BY <1>1, <3>1, <3>2
  <2>3. CASE TxWait(p) \/ RxWait(p)
    <3>1. UNCHANGED <<tx_fifo, rx_fifo>>
      BY <2>3 DEF TxWait, RxWait, txVars, rxVars
    <3>2. \E l : /\ pc' = [pc EXCEPT ![p] = l]
                 /\ l = "tx_asleep" => Full(tx_fifo)
                 /\ l = "rx_asleep" => rx_fifo = <<>>
      BY <2>3 DEF TxWait, RxWait, Step, Goto
    <3> QED BY <1>1, <3>1, <3>2
  <2>4. ASSUME NEW n \in 0 .. MaxCount, Write(p, n) \/ Read(p, n) PROVE NoLostWakeup'
    <3>1. UNCHANGED <<tx_fifo, rx_fifo>>
      BY <2>4 DEF Write, Read, txVars, rxVars
    <3>2. \E l \in {"tx_wait", "rx_wait"} : pc' = [pc EXCEPT ![p] = l]
      BY <2>4 DEF Write, Read, Goto
    <3> QED BY <1>1, <3>1, <3>2
  <2>5. ASSUME NEW s \in Chunks, TxCopy(p, s) PROVE NoLostWakeup'
    <3>1. s \in Seq(Bytes) /\ tx_fifo' = tx_fifo \o s /\ rx_fifo' = rx_fifo
      BY <2>5, ChunksAreSeq DEF TxCopy, rxVars
    <3>2. Len(tx_fifo') = Len(tx_fifo) + Len(s) /\ Len(s) \in Nat
      BY <3>1, <1>0, ConcatProperties
    <3>3. Full(tx_fifo) => Full(tx_fifo')
      BY <3>2, <1>0 DEF Full
    <3>4. \E l \in {"opened", "tx_check"} : pc' = [pc EXCEPT ![p] = l]
      BY <2>5 DEF TxCopy, Return, Step, Goto
    <3> QED BY <1>1, <3>1, <3>3, <3>4
  <2>6. ASSUME NEW k \in 0 .. MaxCount, RxCopy(p, k) PROVE NoLostWakeup'
    <3>1. /\ tx_fifo' = tx_fifo /\ pc' = [pc EXCEPT ![p] = "opened"]
          /\ rx_fifo' = SubSeq(rx_fifo, k + 1, Len(rx_fifo))
      BY <2>6 DEF RxCopy, Return, Goto, txVars
    <3>2. rx_fifo = <<>> => rx_fifo' = <<>>
      BY <3>1, <1>0, UartAssumption, SubSeqEmpty
    <3> QED BY <1>1, <3>1, <3>2
  <2> QED BY <1>2, <2>1, <2>2, <2>3, <2>4, <2>5, <2>6 DEF Syscall, User
<1>3. CASE tx_timer_cb
  <2>1. CASE TxStartBit
    <3>1. rx_fifo' = rx_fifo /\ pc' = [q \in Procs |-> IF pc[q] = "tx_asleep" THEN "tx_wait" ELSE pc[q]]
      BY <2>1 DEF TxStartBit, Wake, rxVars
    <3> QED BY <3>1
  <2>2. CASE TxFifoEmpty \/ TxNextBit \/ TxLastStopBit
    BY <2>2 DEF TxFifoEmpty, TxNextBit, TxLastStopBit, rxVars, procVars
  <2> QED BY <1>3, <2>1, <2>2 DEF tx_timer_cb
<1>4. CASE TxReturn
  BY <1>4 DEF TxReturn, rxVars, procVars
<1>5. ASSUME NEW v \in Bit, LineChange(v) \/ rx_irq_handler PROVE NoLostWakeup'
  BY <1>5 DEF LineChange, rx_irq_handler, txVars, procVars
<1>6. CASE rx_timer_cb
  <2>1. tx_fifo' = tx_fifo
    BY <1>6 DEF rx_timer_cb, txVars
  <2>2. CASE UNCHANGED <<rx_fifo, pc>>
    BY <2>1, <2>2
  <2>3. CASE Wake("rx_asleep", "rx_wait")
    BY <2>1, <2>3 DEF Wake
  <2> QED
    BY <1>6, <2>2, <2>3 DEF rx_timer_cb, RxStartBit, RxDataBit, RxParityBit, RxStopBit
<1>7. CASE UNCHANGED vars
  BY <1>7 DEF vars, txVars, rxVars, procVars
<1>8. 0 \in Bit
  BY DEF Bit
<1> QED BY <1>2, <1>3, <1>4, <1>5, <1>6, <1>7, <1>8 DEF Next

(***************************************************************************)
(* No wake-up is lost: for any number of readers and writers, one that     *)
(* sleeps in wait_event_interruptible waits for a condition that is false. *)
(***************************************************************************)
THEOREM SleepersHaveReason == Spec => []NoLostWakeup
<1>1. Init => NoLostWakeup
  BY DEF Init, NoLostWakeup, At
<1>2. TypeOK /\ NoLostWakeup /\ [Next]_vars => NoLostWakeup'
  BY WakeupStep
<1> QED BY <1>1, <1>2, TypeCorrect, PTL DEF Spec

-----------------------------------------------------------------------------
(* The interrupt and the open count *)

OpeningPlaces == {"open_fifo", "open_idx", "open_irq"}
ReleasedPlaces == {"closed", "close_irq", "close_fifo"}

\* The processes that are counted in open_count.
Holders == {p \in Procs : pc[p] \notin ReleasedPlaces}

(***************************************************************************)
(* What makes IrqFollowsOpen inductive: open_count counts the holders, the *)
(* first opener is alone in its initialisation, and as long as no open     *)
(* overtook a last close there is one last closer and nobody else holds    *)
(* the device.                                                             *)
(***************************************************************************)
SessionInv ==
    /\ open_count = Cardinality(Holders)
    /\ ~overtaken =>
          /\ \A p, q \in Procs : pc[p] \in OpeningPlaces /\ pc[q] \in OpeningPlaces => p = q
          /\ \A p, q \in Procs : pc[p] = "close_irq" /\ pc[q] = "close_irq" => p = q
          /\ (\E p \in Procs : pc[p] = "close_irq") => Holders = {}
    /\ IrqFollowsOpen

\* The holders are finitely many, so zero and one of them mean what they say.
LEMMA HoldersCounted ==
  /\ IsFiniteSet(Holders)
  /\ Cardinality(Holders) \in Nat
  /\ Cardinality(Holders) = 0 <=> Holders = {}
  /\ \A p \in Holders : Cardinality(Holders) = 1 => Holders = {p}
  /\ \A p \in Holders : Cardinality(Holders \ {p}) = Cardinality(Holders) - 1
  /\ \A p \in Procs \ Holders : Cardinality(Holders \cup {p}) = Cardinality(Holders) + 1
<1>1. IsFiniteSet(Holders)
  BY FS_Subset, UartAssumption DEF Holders
<1>2. Cardinality(Holders) \in Nat
  BY <1>1, FS_CardinalityType
<1>3. Cardinality(Holders) = 0 <=> Holders = {}
  BY <1>1, FS_EmptySet
<1>4. ASSUME NEW p \in Holders
      PROVE  /\ Cardinality(Holders \ {p}) = Cardinality(Holders) - 1
             /\ Cardinality(Holders) = 1 => Holders = {p}
  <2>1. IsFiniteSet(Holders \ {p}) /\ Cardinality(Holders \ {p}) = Cardinality(Holders) - 1
    BY <1>1, FS_RemoveElement
  <2>2. Cardinality(Holders) = 1 => Holders \ {p} = {}
    BY <2>1, FS_EmptySet
  <2> QED BY <2>1, <2>2
<1>5. ASSUME NEW p \in Procs \ Holders
      PROVE  Cardinality(Holders \cup {p}) = Cardinality(Holders) + 1
  BY <1>1, FS_AddElement
<1> QED BY <1>1, <1>2, <1>3, <1>4, <1>5

\* A step that leaves the session places, the count and the interrupt alone
\* preserves SessionInv.
LEMMA SessionFrame ==
  ASSUME SessionInv, UNCHANGED <<open_count, irq_depth, overtaken>>,
         \A q \in Procs : \/ pc'[q] = pc[q]
                          \/ /\ pc[q] \notin OpeningPlaces \cup ReleasedPlaces
                             /\ pc'[q] \notin OpeningPlaces \cup ReleasedPlaces
  PROVE  SessionInv'
<1>1. Holders' = Holders
  BY DEF Holders
<1>2. \A q \in Procs : /\ pc'[q] \in OpeningPlaces <=> pc[q] \in OpeningPlaces
                       /\ pc'[q] = "close_irq" <=> pc[q] = "close_irq"
  BY DEF ReleasedPlaces
<1> QED BY <1>1, <1>2 DEF SessionInv, IrqFollowsOpen, At, OpeningPlaces

\* Every step preserves SessionInv.
LEMMA SessionStep == ASSUME TypeOK, SessionInv, [Next]_vars PROVE SessionInv'
<1>0. /\ pc \in [Procs -> Places] /\ irq_depth \in Nat /\ open_count = Cardinality(Holders)
      /\ overtaken \in BOOLEAN
  BY DEF TypeOK, ProcTypeOK, OpenTypeOK, HistTypeOK, SessionInv
<1> DEFINE opening == \E q \in Procs : pc[q] \in OpeningPlaces
           closing == \E q \in Procs : pc[q] = "close_irq"
<1>a. ~overtaken => irq_depth = IF opening \/ (open_count = 0 /\ ~closing) THEN 1 ELSE 0
  BY DEF SessionInv, IrqFollowsOpen, At, OpeningPlaces
<1>b. SUFFICES ASSUME ~(UNCHANGED <<open_count, irq_depth, overtaken>>
                        /\ \A q \in Procs : \/ pc'[q] = pc[q]
                                            \/ /\ pc[q] \notin OpeningPlaces \cup ReleasedPlaces
                                               /\ pc'[q] \notin OpeningPlaces \cup ReleasedPlaces)
               PROVE  SessionInv'
  BY SessionFrame
<1>1. ASSUME NEW p \in Procs, Open(p) PROVE SessionInv'
  <2>1. /\ pc[p] = "closed" /\ open_count' = open_count + 1 /\ irq_depth' = irq_depth
        /\ pc' = [pc EXCEPT ![p] = IF open_count = 0 THEN "open_fifo" ELSE "opened"]
        /\ overtaken' = (overtaken \/ (open_count = 0 /\ closing))
    BY <1>1, <1>0 DEF Open, At, Goto
  <2>2. p \notin Holders /\ Holders' = Holders \cup {p}
    BY <2>1, <1>0 DEF Holders, ReleasedPlaces
  <2>3. open_count' = Cardinality(Holders')
    BY <2>1, <2>2, <1>0, HoldersCounted
  <2>4. CASE overtaken'
    BY <2>3, <2>4 DEF SessionInv, IrqFollowsOpen
  <2>5. CASE ~overtaken' /\ open_count = 0
    <3>1. Holders = {} /\ ~closing /\ ~overtaken
      BY <2>5, <2>1, <1>0, HoldersCounted
    <3>2. \A q \in Procs : pc[q] \notin OpeningPlaces
      BY <3>1 DEF Holders, OpeningPlaces, ReleasedPlaces
    <3>3. irq_depth = 1
      BY <3>1, <1>a, <2>5
    <3>4. \A q \in Procs : /\ pc'[q] \in OpeningPlaces <=> q = p
                           /\ pc'[q] # "close_irq"
      BY <2>1, <2>5, <3>1, <3>2, <1>0 DEF OpeningPlaces
    <3> QED
      BY <2>1, <2>3, <3>3, <3>4 DEF SessionInv, IrqFollowsOpen, At, OpeningPlaces
  <2>6. CASE ~overtaken' /\ open_count # 0
    <3>1. ~overtaken /\ Holders # {} /\ ~closing
      BY <2>6, <2>1, <1>0, HoldersCounted DEF SessionInv
    <3>2. \A q \in Procs : /\ pc'[q] \in OpeningPlaces <=> pc[q] \in OpeningPlaces
                           /\ pc'[q] # "close_irq"
      BY <2>1, <2>6, <3>1, <1>0 DEF OpeningPlaces
    <3>3. open_count \in Nat /\ open_count' # 0
      BY <2>1, <1>0, HoldersCounted
    <3>4. irq_depth = IF opening THEN 1 ELSE 0
      BY <1>a, <2>6, <3>1
    <3> QED
      BY <2>1, <2>3, <3>1, <3>2, <3>3, <3>4 DEF SessionInv, IrqFollowsOpen, At, OpeningPlaces
  <2> QED BY <2>4, <2>5, <2>6
<1>2. ASSUME NEW p \in Procs, Close(p) PROVE SessionInv'
  <2>1. /\ pc[p] = "opened" /\ open_count' = open_count - 1
        /\ UNCHANGED <<irq_depth, overtaken>>
        /\ pc' = [pc EXCEPT ![p] = IF open_count = 1 THEN "close_irq" ELSE "closed"]
    BY <1>2 DEF Close, At, Goto, histVars
  <2>2. p \in Holders /\ Holders' = Holders \ {p}
    BY <2>1, <1>0 DEF Holders, ReleasedPlaces
  <2>3. open_count' = Cardinality(Holders')
    BY <2>1, <2>2, <1>0, HoldersCounted
  <2>4. CASE overtaken
    BY <2>1, <2>3, <2>4 DEF SessionInv, IrqFollowsOpen
  <2>5. CASE ~overtaken /\ open_count = 1
    <3>1. Holders = {p} /\ Holders' = {}
      BY <2>2, <2>5, <1>0, HoldersCounted
    <3>2. ~opening /\ ~closing
      BY <3>1, <2>1, <2>5 DEF Holders, OpeningPlaces, ReleasedPlaces, SessionInv
    <3>3. irq_depth = 0
      BY <3>2, <1>a, <2>5
    <3>4. \A q \in Procs : /\ pc'[q] \notin OpeningPlaces
                           /\ pc'[q] = "close_irq" <=> q = p
      BY <2>1, <2>5, <3>2, <1>0 DEF OpeningPlaces
    <3> QED
      BY <2>1, <2>3, <3>1, <3>3, <3>4 DEF SessionInv, IrqFollowsOpen, At, OpeningPlaces
  <2>6. CASE ~overtaken /\ open_count # 1
    <3>1. ~closing
      BY <2>2, <2>6 DEF SessionInv
    <3>2. open_count \in Nat /\ open_count # 0 /\ open_count' # 0
      BY <2>1, <2>2, <2>6, <1>0, HoldersCounted
    <3>3. \A q \in Procs : /\ pc'[q] \in OpeningPlaces <=> pc[q] \in OpeningPlaces
                           /\ pc'[q] # "close_irq"
      BY <2>1, <2>6, <3>1, <1>0 DEF OpeningPlaces
    <3>4. irq_depth = IF opening THEN 1 ELSE 0
      BY <1>a, <2>6, <3>2
    <3> QED
      BY <2>1, <2>3, <2>6, <3>2, <3>3, <3>4 DEF SessionInv, IrqFollowsOpen, At, OpeningPlaces
  <2> QED BY <2>4, <2>5, <2>6
<1>3. ASSUME NEW p \in Procs, OpenEnableIrq(p) PROVE SessionInv'
  <2>1. /\ pc[p] = "open_irq" /\ UNCHANGED <<open_count, overtaken>>
        /\ irq_depth' = IF irq_depth = 0 THEN 0 ELSE irq_depth - 1
        /\ pc' = [pc EXCEPT ![p] = "opened"]
    BY <1>3 DEF OpenEnableIrq, At, Goto, histVars
  <2>2. p \in Holders /\ Holders' = Holders
    BY <2>1, <1>0 DEF Holders, ReleasedPlaces
  <2>3. CASE overtaken
    BY <2>1, <2>2, <2>3, <1>0 DEF SessionInv, IrqFollowsOpen
  <2>4. CASE ~overtaken
    <3>1. ~closing /\ open_count # 0
      BY <2>2, <2>4, <1>0, HoldersCounted DEF SessionInv
    <3>2. \A q \in Procs : pc'[q] \notin OpeningPlaces /\ pc'[q] # "close_irq"
      BY <2>1, <2>4, <3>1, <1>0 DEF SessionInv, OpeningPlaces
    <3>3. irq_depth = 1
      BY <2>1, <2>4, <1>a DEF OpeningPlaces
    <3> QED
      BY <1>0, <2>1, <2>2, <3>1, <3>2, <3>3 DEF SessionInv, IrqFollowsOpen, At, OpeningPlaces
  <2> QED BY <2>3, <2>4
<1>4. ASSUME NEW p \in Procs, CloseDisableIrq(p) PROVE SessionInv'
  <2>1. /\ pc[p] = "close_irq" /\ UNCHANGED <<open_count, overtaken>>
        /\ irq_depth' = irq_depth + 1
        /\ pc' = [pc EXCEPT ![p] = "close_fifo"]
    BY <1>4 DEF CloseDisableIrq, At, Goto, histVars
  <2>2. Holders' = Holders
    BY <2>1, <1>0 DEF Holders, ReleasedPlaces
  <2>3. CASE overtaken
    BY <2>1, <2>2, <2>3, <1>0 DEF SessionInv, IrqFollowsOpen
  <2>4. CASE ~overtaken
    <3>1. Holders = {} /\ open_count = 0
      BY <2>1, <2>4, <1>0, HoldersCounted DEF SessionInv
    <3>2. ~opening
      BY <3>1 DEF Holders, OpeningPlaces, ReleasedPlaces
    <3>3. irq_depth = 0
      BY <2>1, <2>4, <3>2, <1>a
    <3>4. \A q \in Procs : pc'[q] \notin OpeningPlaces /\ pc'[q] # "close_irq"
      BY <2>1, <2>4, <3>2, <1>0 DEF SessionInv, OpeningPlaces
    <3> QED
      BY <1>0, <2>1, <2>2, <3>1, <3>3, <3>4 DEF SessionInv, IrqFollowsOpen, At, OpeningPlaces
  <2> QED BY <2>3, <2>4
<1>5. ASSUME NEW p \in Procs, OpenResetFifo(p) \/ OpenResetIdx(p) \/ CloseResetFifo(p)
      PROVE  SessionInv'
  <2>1. UNCHANGED <<open_count, irq_depth, overtaken>>
    BY <1>5 DEF OpenResetFifo, OpenResetIdx, CloseResetFifo, openVars, histVars
  <2>2. \/ pc[p] = "open_fifo" /\ pc' = [pc EXCEPT ![p] = "open_idx"]
        \/ pc[p] = "open_idx" /\ pc' = [pc EXCEPT ![p] = "open_irq"]
        \/ pc[p] = "close_fifo" /\ pc' = [pc EXCEPT ![p] = "closed"]
    BY <1>5 DEF OpenResetFifo, OpenResetIdx, CloseResetFifo, At, Goto
  <2>3. Holders' = Holders
    BY <2>2, <1>0 DEF Holders, ReleasedPlaces
  <2>4. \A q \in Procs : /\ pc'[q] \in OpeningPlaces <=> pc[q] \in OpeningPlaces
                         /\ pc'[q] = "close_irq" <=> pc[q] = "close_irq"
    BY <2>2, <1>0 DEF OpeningPlaces
  <2> QED BY <2>1, <2>3, <2>4 DEF SessionInv, IrqFollowsOpen, At, OpeningPlaces
<1>6. ASSUME NEW p \in Procs, NEW n, NEW s,
             \/ TxWait(p) \/ TxCopy(p, s) \/ TxCheckTimer(p) \/ TxStartTimer(p)
             \/ RxWait(p) \/ RxCopy(p, n) \/ Interrupted(p) \/ Write(p, n) \/ Read(p, n)
      PROVE  FALSE
  <2>1. UNCHANGED <<open_count, irq_depth, overtaken>>
    BY <1>6 DEF TxWait, TxCopy, TxCheckTimer, TxStartTimer, RxWait, RxCopy, Interrupted,
       Write, Read, openVars, histVars
  <2>2. /\ pc[p] \notin OpeningPlaces \cup ReleasedPlaces
        /\ \E l : l \notin OpeningPlaces \cup ReleasedPlaces /\ pc' = [pc EXCEPT ![p] = l]
    BY <1>6 DEF TxWait, TxCopy, TxCheckTimer, TxStartTimer, RxWait, RxCopy, Interrupted,
       Write, Read, At, Step, Return, Goto, OpeningPlaces, ReleasedPlaces
  <2> QED BY <1>0, <1>b, <2>1, <2>2
<1>7. CASE tx_timer_cb \/ TxReturn
  <2>1. UNCHANGED <<open_count, irq_depth, overtaken>>
    BY <1>7 DEF tx_timer_cb, TxStartBit, TxFifoEmpty, TxNextBit, TxLastStopBit, TxReturn,
       openVars, histVars
  <2>2. UNCHANGED pc \/ Wake("tx_asleep", "tx_wait")
    BY <1>7 DEF tx_timer_cb, TxStartBit, TxFifoEmpty, TxNextBit, TxLastStopBit, TxReturn,
       procVars
  <2> QED BY <1>b, <2>1, <2>2 DEF Wake, OpeningPlaces, ReleasedPlaces
<1>8. CASE rx_timer_cb \/ rx_irq_handler \/ (\E v \in Bit : LineChange(v)) \/ UNCHANGED vars
  <2>1. UNCHANGED <<open_count, irq_depth, overtaken>>
    BY <1>8 DEF rx_timer_cb, rx_irq_handler, LineChange, vars, openVars, histVars
  <2>2. UNCHANGED pc \/ Wake("rx_asleep", "rx_wait")
    BY <1>8 DEF rx_timer_cb, RxStartBit, RxDataBit, RxParityBit, RxStopBit,
       rx_irq_handler, LineChange, vars, procVars
  <2> QED BY <1>b, <2>1, <2>2 DEF Wake, OpeningPlaces, ReleasedPlaces
<1> QED
  BY <1>1, <1>2, <1>3, <1>4, <1>5, <1>6, <1>7, <1>8 DEF Next, Syscall, User

(***************************************************************************)
(* For any number of processes the interrupt is enabled exactly while the  *)
(* device is open, unless a first open overtook a last close.              *)
(***************************************************************************)
THEOREM InterruptFollowsOpen == Spec => []IrqFollowsOpen
<1>1. ASSUME Init PROVE SessionInv
  <2>1. Holders = {}
    BY <1>1 DEF Init, Holders, ReleasedPlaces
  <2>2. \A q \in Procs : pc[q] = "closed"
    BY <1>1 DEF Init
  <2> QED
    BY <1>1, <2>1, <2>2, HoldersCounted DEF Init, SessionInv, IrqFollowsOpen, At, OpeningPlaces
<1>2. TypeOK /\ SessionInv /\ [Next]_vars => SessionInv'
  BY SessionStep
<1>3. SessionInv => IrqFollowsOpen
  BY DEF SessionInv
<1> QED BY <1>1, <1>2, <1>3, TypeCorrect, PTL DEF Spec

-----------------------------------------------------------------------------
(* The transmitted characters *)

\* Moving the head of one queue to the end of another keeps what they hold
\* together.
LEMMA MoveHead ==
  \A s, f \in Seq(Bytes) : f # <<>> => s \o f = Append(s, Head(f)) \o Tail(f)
OBVIOUS

charVars == <<tx_fifo, tx_chr, tx_gpio, accepted, taken, aborted, cut>>

\* What a step may do to the characters to be sent: queue more, abandon the
\* one being sent, or send one bit.
LEMMA CharSteps ==
  ASSUME TypeOK, [Next]_vars
  PROVE  \/ UNCHANGED charVars /\ stats'["tx_counter"] = stats["tx_counter"]
         \/ \E p \in Procs : OpenResetIdx(p) \/ \E s \in Chunks : TxCopy(p, s)
         \/ TxStartBit \/ TxNextBit \/ TxLastStopBit
<1> DEFINE Same == UNCHANGED charVars /\ stats'["tx_counter"] = stats["tx_counter"]
<1>1. ASSUME NEW p \in Procs, NEW n,
             \/ Open(p) \/ Close(p) \/ Interrupted(p) \/ Write(p, n) \/ Read(p, n)
             \/ OpenResetFifo(p) \/ OpenEnableIrq(p) \/ CloseDisableIrq(p)
             \/ CloseResetFifo(p) \/ TxWait(p) \/ TxCheckTimer(p) \/ TxStartTimer(p)
             \/ RxWait(p) \/ RxCopy(p, n)
      PROVE  Same
  BY <1>1 DEF charVars, Open, Close, Interrupted, Write, Read, OpenResetFifo, OpenEnableIrq,
     CloseDisableIrq, CloseResetFifo, TxWait, TxCheckTimer, TxStartTimer, RxWait, RxCopy,
     txVars, histVars
<1>2. ASSUME TxFifoEmpty \/ TxReturn \/ rx_irq_handler \/ (\E v \in Bit : LineChange(v))
             \/ UNCHANGED vars
      PROVE  Same
  BY <1>2 DEF charVars, TxFifoEmpty, TxReturn, rx_irq_handler, LineChange, vars, txVars, histVars
<1>3. ASSUME rx_timer_cb PROVE Same
  <2>1. UNCHANGED charVars
    BY <1>3 DEF rx_timer_cb, charVars, txVars
  <2>2. stats \in [Stat -> Nat] /\ "tx_counter" \in Stat
    BY DEF TypeOK, Stat
  <2>3. stats'["tx_counter"] = stats["tx_counter"]
    BY <1>3, <2>2 DEF rx_timer_cb, RxStartBit, RxDataBit, RxParityBit, RxStopBit
  <2> QED BY <2>1, <2>3
<1> HIDE DEF Same
<1> QED BY <1>1, <1>2, <1>3 DEF Next, Syscall, User, tx_timer_cb, Same

\* Bytes put behind the queue are behind everything accepted.
LEMMA JoinThree ==
  ASSUME NEW B, NEW u \in Seq(B), NEW v \in Seq(B), NEW w \in Seq(B)
  PROVE  (u \o v) \o w = u \o (v \o w)
<1> DEFINE a == (u \o v) \o w
           b == u \o (v \o w)
<1>1. /\ u \o v \in Seq(B) /\ Len(u \o v) = Len(u) + Len(v)
      /\ v \o w \in Seq(B) /\ Len(v \o w) = Len(v) + Len(w)
  OBVIOUS
<1>2. a \in Seq(B) /\ b \in Seq(B) /\ Len(a) = Len(b)
  BY <1>1
<1>3. ASSUME NEW i \in 1 .. Len(a) PROVE a[i] = b[i]
  <2>1. i \in 1 .. Len(u) + Len(v) + Len(w) /\ Len(u) \in Nat /\ Len(v) \in Nat /\ Len(w) \in Nat
    BY <1>1
  <2>2. CASE i <= Len(u)
    BY <1>1, <2>1, <2>2
  <2>3. CASE i > Len(u) /\ i <= Len(u) + Len(v)
    BY <1>1, <2>1, <2>3
  <2>4. CASE i > Len(u) + Len(v)
    BY <1>1, <2>1, <2>4
  <2> QED BY <2>1, <2>2, <2>3, <2>4
<1> HIDE DEF a, b
<1> QED BY <1>2, <1>3, SeqEqual

\* Every step preserves CharsAccounted.
LEMMA CharsStep == ASSUME TypeOK, CharsAccounted, [Next]_vars PROVE CharsAccounted'
<1> USE DEF CharsAccounted
<1>0. /\ tx_fifo \in Seq(Bytes) /\ accepted \in Seq(Bytes) /\ taken \in Seq(Bytes)
      /\ stats \in [Stat -> Nat] /\ "tx_counter" \in Stat /\ aborted \in Nat
      /\ tx_chr \in Chr(Stop2Idx) /\ Len(taken) \in Nat /\ stats["tx_counter"] \in Nat
  BY LenProperties DEF TypeOK, TxTypeOK, HistTypeOK, Stat
<1>1. CASE UNCHANGED charVars /\ stats'["tx_counter"] = stats["tx_counter"]
  BY <1>1 DEF charVars
<1>2. ASSUME NEW p \in Procs, OpenResetIdx(p) PROVE CharsAccounted'
  <2>1. /\ UNCHANGED <<tx_fifo, accepted, taken, stats>> /\ tx_chr'.idx = Idle
        /\ aborted' = IF tx_chr.idx = Idle THEN aborted ELSE aborted + 1
    BY <1>2, <1>0 DEF OpenResetIdx, Chr
  <2> QED BY <2>1, <1>0
<1>3. ASSUME NEW p \in Procs, NEW s \in Chunks, TxCopy(p, s) PROVE CharsAccounted'
  <2>1. /\ UNCHANGED <<tx_chr, taken, stats, aborted>>
        /\ tx_fifo' = tx_fifo \o s /\ accepted' = accepted \o s
    BY <1>3 DEF TxCopy
  <2>2. s \in Seq(Bytes)
    BY ChunksAreSeq
  <2>3. (taken \o tx_fifo) \o s = taken \o (tx_fifo \o s)
    <3>1. taken \in Seq(Bytes) /\ tx_fifo \in Seq(Bytes)
      BY <1>0
    <3> QED BY ONLY <3>1, <2>2, JoinThree
  <2> QED BY <2>1, <2>3
<1>4. CASE TxStartBit
  <2>1. /\ UNCHANGED <<accepted, stats, aborted>> /\ tx_chr.idx = Idle /\ tx_chr'.idx = 0
        /\ tx_fifo # <<>> /\ tx_fifo' = Tail(tx_fifo) /\ taken' = Append(taken, Head(tx_fifo))
    BY <1>4 DEF TxStartBit
  <2>2. taken' \o tx_fifo' = taken \o tx_fifo
    BY <2>1, <1>0, MoveHead
  <2>3. Len(taken') = Len(taken) + 1
    BY <2>1, <1>0, HeadTailProperties, AppendProperties
  <2>4. Len(taken') + 1 = (Len(taken) + 1) + 1 /\ Idle # 0
    BY <2>3, <1>0 DEF Idle
  <2> HIDE DEF CharsAccounted
  <2>5. /\ accepted = taken \o tx_fifo
        /\ Len(taken) + 1 = stats["tx_counter"] + aborted
    BY <1>0, <2>1 DEF CharsAccounted
  <2> QED BY <2>1, <2>2, <2>4, <2>5, <1>0 DEF CharsAccounted
<1>5. CASE TxNextBit
  <2>1. /\ UNCHANGED <<tx_fifo, accepted, taken, stats, aborted>>
        /\ tx_chr.idx \in 0 .. StopIdx /\ tx_chr'.idx = tx_chr.idx + 1
    BY <1>5, <1>0 DEF TxNextBit, Chr
  <2>2. tx_chr.idx # Idle /\ tx_chr'.idx # Idle
    BY <2>1, BitsAssumption DEF Idle, StopIdx
  <2> QED BY <2>1, <2>2
<1>6. CASE TxLastStopBit
  <2>1. /\ UNCHANGED <<tx_fifo, accepted, taken, aborted>>
        /\ tx_chr.idx = Stop2Idx /\ tx_chr'.idx = Idle
        /\ stats'["tx_counter"] = stats["tx_counter"] + 1
    BY <1>6, <1>0 DEF TxLastStopBit, Chr
  <2>2. tx_chr.idx # Idle
    BY <2>1, BitsAssumption DEF Idle, Stop2Idx
  <2> QED BY <2>1, <2>2, <1>0
<1> QED BY <1>1, <1>2, <1>3, <1>4, <1>5, <1>6, CharSteps

(***************************************************************************)
(* Whatever is written, interrupted, closed and opened again, the bytes    *)
(* leave in the order bitbang_tx accepted them, and each one taken is      *)
(* counted, on the wire, or abandoned by an open that reset the index.     *)
(***************************************************************************)
THEOREM AllCharsAccounted == Spec => []CharsAccounted
<1>1. Init => CharsAccounted
  <2> SUFFICES ASSUME Init PROVE CharsAccounted
    OBVIOUS
  <2>1. <<>> \o <<>> = <<>>
    BY EmptySeq, ConcatEmptySeq
  <2> QED BY <2>1 DEF Init, CharsAccounted, Idle, Stat
<1>2. TypeOK /\ CharsAccounted /\ [Next]_vars => CharsAccounted'
  BY CharsStep
<1> QED BY <1>1, <1>2, TypeCorrect, PTL DEF Spec

-----------------------------------------------------------------------------
(* The transmit pin *)

(***************************************************************************)
(* PinFollowsIndex in the form that is inductive: the pin shows the bit    *)
(* driven one index ago, and the parity bit belongs to the data.           *)
(***************************************************************************)
PinInv ==
    /\ taken # <<>> => tx_chr.data = taken[Len(taken)]
    /\ tx_chr.parity = parity_even8(tx_chr.data)
    /\ ~cut => tx_gpio = IF tx_chr.idx = Idle THEN 1
                         ELSE TxBit(tx_chr.data, tx_chr.parity, tx_chr.idx - 1)

\* Every step preserves PinInv.
LEMMA PinStep == ASSUME TypeOK, PinInv, [Next]_vars PROVE PinInv'
<1> USE DEF PinInv
<1>0. /\ tx_fifo \in Seq(Bytes) /\ taken \in Seq(Bytes) /\ tx_chr \in Chr(Stop2Idx)
      /\ tx_gpio \in Bit
  BY DEF TypeOK, TxTypeOK, HistTypeOK
<1>1. CASE UNCHANGED charVars
  BY <1>1 DEF charVars
<1>2. ASSUME NEW p \in Procs, OpenResetIdx(p) PROVE PinInv'
  <2>1. /\ UNCHANGED <<taken, tx_gpio>> /\ cut' = (tx_gpio = 0)
        /\ tx_chr'.idx = Idle /\ tx_chr'.data = tx_chr.data /\ tx_chr'.parity = tx_chr.parity
    BY <1>2, <1>0 DEF OpenResetIdx, Chr
  <2> QED BY <2>1, <1>0 DEF Bit
<1>3. ASSUME NEW p \in Procs, NEW s \in Chunks, TxCopy(p, s) PROVE PinInv'
  BY <1>3 DEF TxCopy
<1>4. CASE TxStartBit
  <2>1. /\ tx_chr' = [idx |-> 0, data |-> Head(tx_fifo), parity |-> parity_even8(Head(tx_fifo))]
        /\ tx_gpio' = 0 /\ taken' = Append(taken, Head(tx_fifo)) /\ tx_fifo # <<>>
    BY <1>4 DEF TxStartBit, TxBit
  <2>2. taken'[Len(taken')] = Head(tx_fifo)
    BY <2>1, <1>0, HeadTailProperties, AppendProperties
  <2>3. TxBit(tx_chr'.data, tx_chr'.parity, 0 - 1) = 0
    BY DEF TxBit, Idle
  <2> QED BY <2>1, <2>2, <2>3 DEF Idle
<1>5. CASE TxNextBit
  <2>1. /\ taken' = taken /\ tx_chr.idx \in 0 .. StopIdx /\ tx_chr'.idx = tx_chr.idx + 1
        /\ tx_chr'.data = tx_chr.data /\ tx_chr'.parity = tx_chr.parity
        /\ tx_gpio' = TxBit(tx_chr.data, tx_chr.parity, tx_chr.idx)
    BY <1>5, <1>0 DEF TxNextBit, Chr
  <2>2. tx_chr'.idx # Idle /\ tx_chr'.idx - 1 = tx_chr.idx
    BY <2>1, BitsAssumption DEF Idle, StopIdx
  <2> QED BY <2>1, <2>2
<1>6. CASE TxLastStopBit
  <2>1. /\ taken' = taken /\ tx_chr'.idx = Idle
        /\ tx_chr'.data = tx_chr.data /\ tx_chr'.parity = tx_chr.parity
        /\ tx_gpio' = TxBit(tx_chr.data, tx_chr.parity, Stop2Idx)
    BY <1>6, <1>0 DEF TxLastStopBit, Chr
  <2>2. tx_gpio' = 1
    BY <2>1, BitsAssumption DEF TxBit, Stop2Idx, Idle, ParityIdx
  <2> QED BY <2>1, <2>2
<1> QED BY <1>1, <1>2, <1>3, <1>4, <1>5, <1>6, CharSteps

\* PinInv says what PinFollowsIndex says, the parity bit included.
LEMMA PinShows == ASSUME TypeOK, PinInv PROVE PinFollowsIndex
<1> DEFINE idx == tx_chr.idx
           ones == Cardinality({i \in Pos : tx_chr.data[i] = 1})
<1>1. tx_chr.data \in Byte /\ idx \in Idle .. Stop2Idx /\ Bits \in 1 .. 8
  BY BitsAssumption DEF TypeOK, TxTypeOK, Chr
<1>2. (ones + parity_even8(tx_chr.data)) % 2 = 0
  BY <1>1, ParityCountsOnes
<1> SUFFICES ASSUME ~cut
             PROVE  /\ idx \in {Idle, Stop2Idx} => tx_gpio = 1
                    /\ idx = 0 => tx_gpio = 0
                    /\ idx - 1 \in Pos => tx_gpio = tx_chr.data[idx - 1]
                    /\ idx = StopIdx => (ones + tx_gpio) % 2 = 0
  BY DEF PinInv, PinFollowsIndex
<1>3. tx_gpio = IF idx = Idle THEN 1 ELSE TxBit(tx_chr.data, tx_chr.parity, idx - 1)
  BY DEF PinInv
<1>4. idx = StopIdx => tx_gpio = parity_even8(tx_chr.data)
  BY <1>1, <1>3 DEF TxBit, PinInv, Idle, StopIdx, ParityIdx
<1>5. idx \in {Idle, Stop2Idx} => tx_gpio = 1
  BY <1>1, <1>3 DEF TxBit, Idle, Stop2Idx, ParityIdx
<1>6. idx = 0 => tx_gpio = 0
  BY <1>3 DEF TxBit, Idle
<1>7. idx - 1 \in Pos => tx_gpio = tx_chr.data[idx - 1]
  BY <1>1, <1>3 DEF TxBit, Idle, Pos, ParityIdx
<1> HIDE DEF idx, ones
<1> QED BY <1>2, <1>4, <1>5, <1>6, <1>7

(***************************************************************************)
(* The pin carries the character taken last, framed and with even parity,  *)
(* unless an open cut it: for characters of one to eight bits.             *)
(***************************************************************************)
THEOREM PinCarriesCharacter == Spec => []PinFollowsIndex
<1>1. ASSUME Init PROVE PinInv
  <2> DEFINE zero == [i \in Pos |-> 0]
  <2>1. zero \in Byte /\ {i \in Pos : zero[i] = 1} = {}
    BY DEF Byte, Bit
  <2>2. Cardinality({i \in Pos : zero[i] = 1}) = 0
    BY <2>1, FS_EmptySet
  <2>3. (0 + parity_even8(zero)) % 2 = 0 /\ parity_even8(zero) \in Bit
    BY <2>1, <2>2, ParityCountsOnes, ParityIsBit
  <2> HIDE DEF zero
  <2>4. parity_even8(zero) = 0
    BY <2>3 DEF Bit
  <2> QED BY <1>1, <2>4 DEF Init, PinInv, zero
<1>2. TypeOK /\ PinInv /\ [Next]_vars => PinInv'
  BY PinStep
<1>3. TypeOK /\ PinInv => PinFollowsIndex
  BY PinShows
<1> QED BY <1>1, <1>2, <1>3, TypeCorrect, PTL DEF Spec

-----------------------------------------------------------------------------
(* The receive side *)

recvVars == <<rx_fifo, received>>

\* What a step may do to the receive FIFO and to the characters received.
LEMMA RecvSteps ==
  ASSUME TypeOK, [Next]_vars
  PROVE  \/ UNCHANGED recvVars
         \/ rx_fifo' = <<>> /\ received' = received
         \/ \E k \in 0 .. Len(rx_fifo) : /\ rx_fifo' = SubSeq(rx_fifo, k + 1, Len(rx_fifo))
                                         /\ received' = received
         \/ \E b \in Byte : PushRx(b) /\ received' = Append(received, b)
<1> DEFINE Copied == \E k \in 0 .. Len(rx_fifo) :
                        /\ rx_fifo' = SubSeq(rx_fifo, k + 1, Len(rx_fifo))
                        /\ received' = received
           Pushed == \E b \in Byte : PushRx(b) /\ received' = Append(received, b)
<1>1. ASSUME NEW p \in Procs, NEW n, NEW s,
             \/ Open(p) \/ Close(p) \/ Interrupted(p) \/ Write(p, n) \/ Read(p, n)
             \/ OpenResetIdx(p) \/ OpenEnableIrq(p) \/ CloseDisableIrq(p)
             \/ TxWait(p) \/ TxCopy(p, s) \/ TxCheckTimer(p) \/ TxStartTimer(p) \/ RxWait(p)
      PROVE  UNCHANGED recvVars
  BY <1>1 DEF recvVars, Open, Close, Interrupted, Write, Read, OpenResetIdx, OpenEnableIrq,
     CloseDisableIrq, TxWait, TxCopy, TxCheckTimer, TxStartTimer, RxWait, rxVars, histVars
<1>2. ASSUME NEW p \in Procs, OpenResetFifo(p) \/ CloseResetFifo(p)
      PROVE  rx_fifo' = <<>> /\ received' = received
  BY <1>2 DEF OpenResetFifo, CloseResetFifo, histVars
<1>3. ASSUME NEW p \in Procs, NEW k \in 0 .. MaxCount, RxCopy(p, k) PROVE Copied
  <2>1. k \in 0 .. Len(rx_fifo)
    BY <1>3, UartAssumption DEF RxCopy, Least, TypeOK, ProcTypeOK, RxTypeOK
  <2> QED BY <1>3, <2>1 DEF RxCopy, histVars
<1>4. ASSUME \/ tx_timer_cb \/ TxReturn \/ rx_irq_handler \/ (\E v \in Bit : LineChange(v))
             \/ UNCHANGED vars
      PROVE  UNCHANGED recvVars
  BY <1>4 DEF recvVars, tx_timer_cb, TxStartBit, TxFifoEmpty, TxNextBit, TxLastStopBit, TxReturn,
     rx_irq_handler, LineChange, vars, rxVars, histVars
<1>5. ASSUME rx_timer_cb PROVE UNCHANGED recvVars \/ Pushed
  <2>1. rx_chr.data \in Byte
    BY DEF TypeOK, RxTypeOK, Chr
  <2> QED
    BY <1>5, <2>1 DEF recvVars, rx_timer_cb, RxStartBit, RxDataBit, RxParityBit, RxStopBit
<1> HIDE DEF Copied, Pushed
<1> QED BY <1>1, <1>2, <1>3, <1>4, <1>5 DEF Next, Syscall, User, Copied, Pushed

\* Every step preserves RxFifoNewest.
LEMMA NewestStep == ASSUME TypeOK, RxFifoNewest, [Next]_vars PROVE RxFifoNewest'
<1> USE DEF RxFifoNewest
<1>0. /\ rx_fifo \in Seq(Byte) /\ received \in Seq(Byte) /\ Len(rx_fifo) <= FifoSize
      /\ Len(rx_fifo) \in Nat /\ Len(received) \in Nat /\ Len(rx_fifo) <= Len(received)
  BY LenProperties DEF TypeOK, RxTypeOK, HistTypeOK
<1>1. CASE UNCHANGED recvVars
  BY <1>1 DEF recvVars
<1>2. CASE rx_fifo' = <<>> /\ received' = received
  BY <1>0, <1>2, EmptySeq
<1>3. ASSUME NEW k \in 0 .. Len(rx_fifo), received' = received,
             rx_fifo' = SubSeq(rx_fifo, k + 1, Len(rx_fifo))
      PROVE  RxFifoNewest'
  <2>1. /\ Len(rx_fifo') = Len(rx_fifo) - k
        /\ \A i \in 1 .. Len(rx_fifo) - k : rx_fifo'[i] = rx_fifo[k + i]
    BY <1>0, <1>3
  <2>2. ASSUME NEW i \in 1 .. Len(rx_fifo')
        PROVE  rx_fifo'[i] = received[Len(received) - Len(rx_fifo') + i]
    <3>1. k + i \in 1 .. Len(rx_fifo)
      BY <2>1, <1>0
    <3>2. Len(received) - Len(rx_fifo) + (k + i) = Len(received) - Len(rx_fifo') + i
      BY <2>1, <1>0
    <3>3. rx_fifo[k + i] = received[Len(received) - Len(rx_fifo) + (k + i)]
      BY <3>1
    <3> QED BY <2>1, <3>2, <3>3
  <2>3. Len(rx_fifo') <= Len(received')
    BY <1>0, <1>3, <2>1
  <2> QED BY <1>3, <2>2, <2>3
<1>4. ASSUME NEW b \in Byte, PushRx(b), received' = Append(received, b) PROVE RxFifoNewest'
  <2>1. /\ Len(received') = Len(received) + 1 /\ received'[Len(received) + 1] = b
        /\ \A i \in 1 .. Len(received) : received'[i] = received[i]
    BY <1>0, <1>4, AppendProperties
  <2>2. CASE Full(rx_fifo)
    <3>1. /\ Len(rx_fifo') = Len(rx_fifo)
          /\ \A i \in 1 .. Len(rx_fifo) :
                rx_fifo'[i] = IF i = Len(rx_fifo) THEN b ELSE rx_fifo[i + 1]
      BY <1>0, <1>4, <2>2, PushRxType
    <3>2. ASSUME NEW i \in 1 .. Len(rx_fifo')
          PROVE  rx_fifo'[i] = received'[Len(received') - Len(rx_fifo') + i]
      <4>1. CASE i = Len(rx_fifo)
        <5>1. Len(received') - Len(rx_fifo') + i = Len(received) + 1
          BY <1>0, <2>1, <3>1, <4>1
        <5> QED BY <2>1, <3>1, <4>1, <5>1
      <4>2. CASE i # Len(rx_fifo)
        <5>1. /\ i + 1 \in 1 .. Len(rx_fifo)
              /\ Len(received') - Len(rx_fifo') + i = Len(received) - Len(rx_fifo) + (i + 1)
              /\ Len(received) - Len(rx_fifo) + (i + 1) \in 1 .. Len(received)
          <6> DEFINE r == Len(received)
                     f == Len(rx_fifo)
          <6>1. r \in Nat /\ f \in Nat /\ f <= r /\ i \in 1 .. f /\ i # f
            BY <1>0, <3>1, <4>2
          <6> HIDE DEF r, f
          <6>2. i + 1 \in 1 .. f /\ (r + 1) - f + i = r - f + (i + 1) /\ r - f + (i + 1) \in 1 .. r
            BY <6>1
          <6> QED BY <2>1, <3>1, <6>2 DEF r, f
        <5>2. rx_fifo[i + 1] = received[Len(received) - Len(rx_fifo) + (i + 1)]
          BY <5>1
        <5> QED BY <2>1, <3>1, <4>2, <5>1, <5>2
      <4> QED BY <4>1, <4>2
    <3> QED BY <1>0, <2>1, <3>1, <3>2
  <2>3. CASE ~Full(rx_fifo)
    <3>1. /\ Len(rx_fifo') = Len(rx_fifo) + 1
          /\ \A i \in 1 .. Len(rx_fifo) + 1 :
                rx_fifo'[i] = IF i = Len(rx_fifo) + 1 THEN b ELSE rx_fifo[i]
      BY <1>0, <1>4, <2>3, PushRxType
    <3>2. ASSUME NEW i \in 1 .. Len(rx_fifo')
          PROVE  rx_fifo'[i] = received'[Len(received') - Len(rx_fifo') + i]
      <4>1. CASE i = Len(rx_fifo) + 1
        <5>1. Len(received') - Len(rx_fifo') + i = Len(received) + 1
          BY <1>0, <2>1, <3>1, <4>1
        <5> QED BY <2>1, <3>1, <4>1, <5>1
      <4>2. CASE i # Len(rx_fifo) + 1
        <5>1. /\ i \in 1 .. Len(rx_fifo)
              /\ Len(received') - Len(rx_fifo') + i = Len(received) - Len(rx_fifo) + i
              /\ Len(received) - Len(rx_fifo) + i \in 1 .. Len(received)
          BY <1>0, <2>1, <3>1, <4>2
        <5>2. rx_fifo[i] = received[Len(received) - Len(rx_fifo) + i]
          BY <5>1
        <5> QED BY <2>1, <3>1, <4>2, <5>1, <5>2
      <4> QED BY <4>1, <4>2
    <3> QED BY <1>0, <2>1, <3>1, <3>2
  <2> QED BY <2>2, <2>3
<1> QED BY <1>1, <1>2, <1>3, <1>4, RecvSteps

(***************************************************************************)
(* The receive FIFO holds the newest characters received, in order: for    *)
(* any FIFO size, and whatever readers, resets and overwriting take.       *)
(***************************************************************************)
THEOREM FifoHoldsNewest == Spec => []RxFifoNewest
<1>1. Init => RxFifoNewest
  BY EmptySeq DEF Init, RxFifoNewest
<1>2. TypeOK /\ RxFifoNewest /\ [Next]_vars => RxFifoNewest'
  BY NewestStep
<1> QED BY <1>1, <1>2, TypeCorrect, PTL DEF Spec

(***************************************************************************)
(* What makes RxNotDeaf inductive.  Either a character in progress has its *)
(* timer, or no open has reset the index yet: then the interrupt is still  *)
(* disabled as probe left it, nobody is about to enable or disable it, and *)
(* the first opener holds the device as long as anybody else does.         *)
(***************************************************************************)
NeverReset ==
    /\ irq_depth = 1
    /\ \A p \in Procs : pc[p] \notin {"open_irq", "close_irq"}
    /\ Holders # {} => \E p \in Procs : pc[p] \in {"open_fifo", "open_idx"}

DeafInv == (rx_chr.idx # Idle => rx_queued) \/ NeverReset

\* A step that leaves the session places and the interrupt alone keeps the
\* index unreset.
LEMMA NeverResetFrame ==
  ASSUME NeverReset, irq_depth' = irq_depth,
         \A q \in Procs : \/ pc'[q] = pc[q]
                          \/ /\ pc[q] \notin OpeningPlaces \cup ReleasedPlaces
                             /\ pc'[q] \notin OpeningPlaces \cup ReleasedPlaces
  PROVE  NeverReset'
BY DEF NeverReset, Holders, OpeningPlaces, ReleasedPlaces

\* Every step preserves DeafInv.
LEMMA DeafStep == ASSUME TypeOK, SessionInv, DeafInv, [Next]_vars PROVE DeafInv'
<1>0. /\ pc \in [Procs -> Places] /\ rx_chr \in Chr(StopIdx) /\ rx_queued \in BOOLEAN
      /\ open_count = Cardinality(Holders)
  BY DEF TypeOK, ProcTypeOK, RxTypeOK, SessionInv
<1>1. ASSUME UNCHANGED <<rx_chr, rx_queued>>, NeverReset => NeverReset' PROVE DeafInv'
  BY <1>1 DEF DeafInv
<1>2. ASSUME NEW p \in Procs, OpenResetIdx(p) PROVE DeafInv'
  BY <1>0, <1>2 DEF OpenResetIdx, DeafInv, Chr
<1>3. ASSUME NEW p \in Procs, Open(p), NeverReset PROVE NeverReset'
  <2>1. /\ pc[p] = "closed" /\ irq_depth' = irq_depth
        /\ pc' = [pc EXCEPT ![p] = IF open_count = 0 THEN "open_fifo" ELSE "opened"]
    BY <1>3 DEF Open, At, Goto
  <2>2. \A q \in Procs : pc'[q] \notin {"open_irq", "close_irq"}
    BY <1>0, <1>3, <2>1 DEF NeverReset
  <2>3. \E q \in Procs : pc'[q] \in {"open_fifo", "open_idx"}
    <3>1. CASE open_count = 0
      BY <1>0, <2>1, <3>1
    <3>2. CASE open_count # 0
      <4>1. PICK q \in Procs : pc[q] \in {"open_fifo", "open_idx"}
        BY <1>0, <1>3, <3>2, HoldersCounted DEF NeverReset
      <4> QED BY <1>0, <2>1, <4>1
    <3> QED BY <3>1, <3>2
  <2> QED BY <1>3, <2>1, <2>2, <2>3 DEF NeverReset
<1>4. ASSUME NEW p \in Procs, Close(p), NeverReset PROVE NeverReset'
  <2>1. /\ pc[p] = "opened" /\ irq_depth' = irq_depth
        /\ pc' = [pc EXCEPT ![p] = IF open_count = 1 THEN "close_irq" ELSE "closed"]
    BY <1>4 DEF Close, At, Goto
  <2>2. p \in Holders
    BY <2>1 DEF Holders, ReleasedPlaces
  <2>3. PICK q \in Procs : pc[q] \in {"open_fifo", "open_idx"}
    BY <1>4, <2>2 DEF NeverReset
  <2>4. q \in Holders /\ q # p
    BY <2>1, <2>3 DEF Holders, ReleasedPlaces
  <2>5. open_count # 1
    BY <1>0, <2>2, <2>4, HoldersCounted
  <2>6. pc'[q] = pc[q] /\ \A r \in Procs : pc'[r] \notin {"open_irq", "close_irq"}
    BY <1>0, <1>4, <2>1, <2>4, <2>5 DEF NeverReset
  <2> QED BY <1>4, <2>1, <2>3, <2>6 DEF NeverReset
<1>5. ASSUME NEW p \in Procs, OpenResetFifo(p), NeverReset PROVE NeverReset'
  <2>1. irq_depth' = irq_depth /\ pc' = [pc EXCEPT ![p] = "open_idx"]
    BY <1>5 DEF OpenResetFifo, openVars, Goto
  <2>2. pc'[p] = "open_idx" /\ \A q \in Procs : pc'[q] \notin {"open_irq", "close_irq"}
    BY <1>0, <1>5, <2>1 DEF NeverReset
  <2> QED BY <1>5, <2>1, <2>2 DEF NeverReset
<1>6. ASSUME NEW p \in Procs, OpenEnableIrq(p) \/ CloseDisableIrq(p) PROVE ~NeverReset
  BY <1>6 DEF OpenEnableIrq, CloseDisableIrq, NeverReset, At
<1>7. ASSUME NEW p \in Procs, CloseResetFifo(p), NeverReset PROVE NeverReset'
  <2>1. pc[p] = "close_fifo" /\ irq_depth' = irq_depth /\ pc' = [pc EXCEPT ![p] = "closed"]
    BY <1>7 DEF CloseResetFifo, openVars, At, Goto
  <2>2. Holders' = Holders
    BY <1>0, <2>1 DEF Holders, ReleasedPlaces
  <2>3. \A q \in Procs : /\ pc'[q] \notin {"open_irq", "close_irq"}
                         /\ pc[q] \in {"open_fifo", "open_idx"} => pc'[q] = pc[q]
    BY <1>0, <1>7, <2>1 DEF NeverReset
  <2> QED BY <1>7, <2>1, <2>2, <2>3 DEF NeverReset
<1>8. ASSUME NEW p \in Procs, NEW n, NEW s, NeverReset,
             \/ TxWait(p) \/ TxCopy(p, s) \/ TxCheckTimer(p) \/ TxStartTimer(p)
             \/ RxWait(p) \/ RxCopy(p, n) \/ Interrupted(p) \/ Write(p, n) \/ Read(p, n)
      PROVE  NeverReset'
  <2>1. irq_depth' = irq_depth
    BY <1>8 DEF TxWait, TxCopy, TxCheckTimer, TxStartTimer, RxWait, RxCopy, Interrupted,
       Write, Read, openVars
  <2>2. /\ pc[p] \notin OpeningPlaces \cup ReleasedPlaces
        /\ \E l : l \notin OpeningPlaces \cup ReleasedPlaces /\ pc' = [pc EXCEPT ![p] = l]
    BY <1>8 DEF TxWait, TxCopy, TxCheckTimer, TxStartTimer, RxWait, RxCopy, Interrupted,
       Write, Read, At, Step, Return, Goto, OpeningPlaces, ReleasedPlaces
  <2>3. \A q \in Procs : \/ pc'[q] = pc[q]
                         \/ /\ pc[q] \notin OpeningPlaces \cup ReleasedPlaces
                            /\ pc'[q] \notin OpeningPlaces \cup ReleasedPlaces
    BY <1>0, <2>2
  <2> QED BY <1>8, <2>1, <2>3, NeverResetFrame
<1>9. ASSUME NEW p \in Procs, Syscall(p) \/ User(p), ~OpenResetIdx(p) PROVE DeafInv'
  <2>1. UNCHANGED <<rx_chr, rx_queued>>
    BY <1>9 DEF Syscall, User, Open, Close, OpenResetFifo, OpenEnableIrq, CloseDisableIrq,
       CloseResetFifo, TxWait, TxCopy, TxCheckTimer, TxStartTimer, RxWait, RxCopy, Interrupted,
       Write, Read, rxVars
  <2>2. NeverReset => NeverReset'
    BY <1>3, <1>4, <1>5, <1>6, <1>7, <1>8, <1>9 DEF Syscall, User
  <2> QED BY <1>1, <2>1, <2>2
<1>10. CASE tx_timer_cb \/ TxReturn \/ (\E v \in Bit : LineChange(v)) \/ UNCHANGED vars
  <2>1. UNCHANGED <<rx_chr, rx_queued, irq_depth>>
    BY <1>10 DEF tx_timer_cb, TxStartBit, TxFifoEmpty, TxNextBit, TxLastStopBit, TxReturn,
       LineChange, vars, rxVars, openVars
  <2>2. UNCHANGED pc \/ Wake("tx_asleep", "tx_wait")
    BY <1>10 DEF tx_timer_cb, TxStartBit, TxFifoEmpty, TxNextBit, TxLastStopBit, TxReturn,
       LineChange, vars, procVars
  <2> QED BY <1>1, <2>1, <2>2, NeverResetFrame DEF Wake, OpeningPlaces, ReleasedPlaces
<1>11. CASE rx_irq_handler
  <2>1. irq_depth = 0 /\ rx_chr' = rx_chr /\ (rx_queued => rx_queued')
    BY <1>11, <1>0 DEF rx_irq_handler
  <2> QED BY <2>1 DEF DeafInv, NeverReset
<1>12. CASE rx_timer_cb
  <2>1. rx_queued
    BY <1>12 DEF rx_timer_cb
  <2>2. rx_queued' \/ rx_chr'.idx = Idle
    BY <1>0, <1>12, <2>1 DEF rx_timer_cb, RxStartBit, RxDataBit, RxParityBit, RxStopBit, Chr
  <2> QED BY <2>2 DEF DeafInv
<1> QED BY <1>2, <1>9, <1>10, <1>11, <1>12 DEF Next

(***************************************************************************)
(* The receiver is never deaf: whenever the interrupt is enabled, an index *)
(* that makes the handler ignore edges has its timer armed, through any    *)
(* number of opens and closes and with characters cut by them.             *)
(***************************************************************************)
THEOREM ReceiverNeverDeaf == Spec => []RxNotDeaf
<1>1. ASSUME Init PROVE SessionInv /\ DeafInv
  <2>1. Holders = {} /\ \A q \in Procs : pc[q] = "closed"
    BY <1>1 DEF Init, Holders, ReleasedPlaces
  <2> QED
    BY <1>1, <2>1, HoldersCounted DEF Init, SessionInv, IrqFollowsOpen, At, OpeningPlaces,
       DeafInv, NeverReset
<1>2. TypeOK /\ SessionInv /\ DeafInv /\ [Next]_vars => (SessionInv /\ DeafInv)'
  BY SessionStep, DeafStep
<1>3. DeafInv => RxNotDeaf
  BY DEF DeafInv, NeverReset, RxNotDeaf
<1> QED BY <1>1, <1>2, <1>3, TypeCorrect, PTL DEF Spec
=============================================================================
