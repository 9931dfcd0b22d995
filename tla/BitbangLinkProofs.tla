-------------------------- MODULE BitbangLinkProofs --------------------------
(***************************************************************************)
(* Two bit-banged UARTs whose clocks and latencies satisfy Margin behave   *)
(* as a byte channel, whatever the number of data bits.                    *)
(***************************************************************************)
EXTENDS BitbangLink, SequenceTheorems, TLAPS

-----------------------------------------------------------------------------
(* The character format *)

\* The parity of a character is a bit.
LEMMA ParityIsBit == \A b \in Byte : parity_even8(b) \in Bit
<1>1. ASSUME NEW x \in Byte, NEW k \in Nat PROVE XorShift(x, k) \in Byte
  <2>1. ASSUME NEW i \in Pos PROVE (x[i] + (IF i + k \in Pos THEN x[i + k] ELSE 0)) % 2 \in Bit
    <3>1. x[i] \in Nat /\ (IF i + k \in Pos THEN x[i + k] ELSE 0) \in Nat
      BY DEF Byte, Bit
    <3> QED BY <3>1 DEF Bit
  <2> QED BY <2>1 DEF XorShift, Byte
<1>2. ASSUME NEW b \in Byte PROVE XorShift(XorShift(XorShift(b, 4), 2), 1) \in Byte
  <2>1. XorShift(b, 4) \in Byte
    BY <1>1
  <2>2. XorShift(XorShift(b, 4), 2) \in Byte
    BY <1>1, <2>1
  <2> QED BY <1>1, <2>2
<1>3. 0 \in Pos
  BY BitsAssumption DEF Pos
<1> QED BY <1>2, <1>3 DEF parity_even8, Byte

\* Inserting a bit into a character gives a character.
LEMMA InsertIsByte ==
  ASSUME NEW b \in Byte, NEW v \in Bit
  PROVE  INSERT_BIT(b, v) \in Byte
BY BitsAssumption DEF INSERT_BIT, Byte, Pos

\* Every bit the transmitter drives is a bit.
LEMMA TxBitIsBit ==
  ASSUME NEW b \in Byte, NEW par \in Bit, NEW i \in Idle .. Stop2Idx
  PROVE  TxBit(b, par, i) \in Bit
BY BitsAssumption DEF TxBit, Byte, Pos, Bit, Idle, Stop2Idx, ParityIdx

\* Moving the index of a character within its range keeps its type.
LEMMA ChrStep ==
  ASSUME NEW last, NEW c \in Chr(last), NEW i \in Idle .. last
  PROVE  [c EXCEPT !.idx = i] \in Chr(last)
BY DEF Chr

-----------------------------------------------------------------------------
(* Arithmetic of the margin *)

\* The lag grows by the difference of the periods with each bit.
LEMMA LagStep ==
  ASSUME NEW r \in Int
  PROVE  /\ Lag(r) \in Int
         /\ Lag(r + 1) = Lag(r) + RxPeriod - Period
         /\ Lag(0) = 0
<1>1. RxPeriod - Period \in Int
  BY LinkAssumption
<1>2. ASSUME NEW d \in Int
      PROVE  r * d \in Int /\ (r + 1) * d = r * d + d /\ 0 * d = 0
  OBVIOUS
<1> QED BY <1>1, <1>2, LinkAssumption DEF Lag

\* Half a receiver's period is a number.
LEMMA HalfInt == half_period \in Nat
BY LinkAssumption DEF half_period

\* Margin at one bit of the frame.
LEMMA MarginAt ==
  ASSUME NEW r \in 0 .. Stop2Idx
  PROVE  /\ half_period + Lag(r) > TxLate
         /\ half_period + Lag(r) + TxLate + IrqLate + RxLate < Period
BY MarginAssumption DEF Margin

\* The lateness of the sender and of the handler together is below a bit.
LEMMA LateBelowPeriod ==
  /\ TxLate + IrqLate < Period
  /\ half_period > TxLate
<1>1. 0 \in 0 .. Stop2Idx
  BY BitsAssumption DEF Stop2Idx
<1> QED BY <1>1, MarginAt, LagStep, HalfInt, LinkAssumption

\* When the sender may move on, the receiver has sampled the bit on the wire
\* and every edge has been handled.
LEMMA TxSlot ==
  ASSUME TypeOK, Synchronised, TxExpired
  PROVE  /\ ~irq_pending
         /\ rx_armed => /\ tx_chr.idx = RxNext - 1 /\ RxNext > 0
                        /\ rx_due - tx_due - half_period - Lag(RxNext) \in 0 .. TxLate + IrqLate
<1>1. tx_due \in Int /\ tx_due <= 0 /\ irq_age \in 0 .. IrqLate
  BY LinkAssumption DEF TypeOK, TxExpired
<1>2. ~irq_pending
  BY <1>1, LateBelowPeriod, LinkAssumption DEF Synchronised
<1>3. ASSUME rx_armed PROVE ~(tx_chr.idx = RxNext /\ rx_due - tx_due - half_period - Lag(RxNext) + Period
                                                     \in 0 .. TxLate + IrqLate)
  <2>1. RxNext \in 0 .. Stop2Idx /\ rx_due \in Int /\ rx_due >= -RxLate
    BY BitsAssumption DEF TypeOK, Chr, RxNext, Idle, StopIdx, Stop2Idx
  <2>2. half_period + Lag(RxNext) + TxLate + IrqLate + RxLate < Period /\ Lag(RxNext) \in Int
    BY <2>1, MarginAt, LagStep
  <2> HIDE DEF Lag, RxNext, half_period
  <2> QED BY <1>1, <2>1, <2>2, HalfInt, LinkAssumption
<1> QED BY <1>2, <1>3 DEF Synchronised, InStep

\* When the receiver samples, the wire carries the bit it samples.
LEMMA RxSlot ==
  ASSUME TypeOK, Synchronised, RxExpired
  PROVE  /\ tx_chr.idx = RxNext
         /\ rx_due - tx_due - half_period - Lag(RxNext) + Period \in 0 .. TxLate + IrqLate
<1>1. rx_armed /\ rx_due \in Int /\ rx_due <= 0
  BY DEF RxExpired, TypeOK
<1>2. ~(rx_due - tx_due - half_period - Lag(RxNext) \in 0 .. TxLate + IrqLate)
  <2>1. RxNext \in 0 .. Stop2Idx /\ tx_due \in Int /\ tx_due >= -TxLate
    BY BitsAssumption, LinkAssumption DEF TypeOK, Chr, RxNext, Idle, StopIdx, Stop2Idx
  <2>2. half_period + Lag(RxNext) > TxLate /\ Lag(RxNext) \in Int
    BY <2>1, MarginAt, LagStep
  <2> HIDE DEF Lag, RxNext, half_period
  <2> QED BY <1>1, <2>1, <2>2, HalfInt, LinkAssumption
<1> QED BY <1>1, <1>2 DEF Synchronised, InStep

-----------------------------------------------------------------------------
(* Sequences *)

\* Queueing a byte appends it to all that was written.
LEMMA QueueOne ==
  \A s, f \in Seq(Byte) : \A b \in Byte : Append(s \o f, b) = s \o Append(f, b)
OBVIOUS

\* Taking the head of the queue onto the wire keeps all that was written.
LEMMA TakeOne ==
  \A s, f \in Seq(Byte) : f # <<>> => s \o f = Append(s, Head(f)) \o Tail(f)
OBVIOUS

-----------------------------------------------------------------------------
(* Types *)

\* Every step keeps the types and the deadlines.
LEMMA TypeStep == ASSUME TypeOK, Synchronised, [Next]_vars PROVE TypeOK'
<1> USE LinkAssumption, BitsAssumption
<1>1. /\ line \in Bit
      /\ tx_fifo \in Seq(Byte) /\ tx_fifo \in Seq(Bytes) /\ sent \in Seq(Bytes) /\ received \in Seq(Byte)
      /\ tx_chr \in Chr(Stop2Idx) /\ rx_chr \in Chr(StopIdx)
      /\ tx_armed \in BOOLEAN /\ tx_due \in -TxLate .. Period
      /\ irq_pending \in BOOLEAN /\ irq_age \in 0 .. IrqLate
      /\ rx_armed \in BOOLEAN /\ rx_due \in Int /\ rx_due >= -RxLate
      /\ rx_errs \in Nat
  BY DEF TypeOK
<1>2. CASE UNCHANGED vars
  BY <1>1, <1>2 DEF TypeOK, vars, txVars, irqVars, rxVars
<1>3. ASSUME NEW b \in Bytes, bitbang_tx(b) PROVE TypeOK'
  <2>1. tx_fifo' \in Seq(Bytes) /\ sent' \in Seq(Bytes)
    BY <1>1, <1>3 DEF bitbang_tx
  <2>2. tx_due' \in -TxLate .. Period
    BY <1>1, <1>3 DEF bitbang_tx
  <2> QED BY <1>1, <1>3, <2>1, <2>2 DEF bitbang_tx, TypeOK, irqVars, rxVars
<1>4. ASSUME NEW v \in Bit, TxExpired, Drive(v)
      PROVE  /\ line' \in Bit /\ tx_due' \in -TxLate .. Period
             /\ irq_pending' \in BOOLEAN /\ irq_age' \in 0 .. IrqLate
  BY <1>1, <1>4 DEF TxExpired, Drive
<1>5. CASE TxStartBit
  <2>1. Drive(0) /\ TxExpired /\ 0 \in Bit
    BY <1>5 DEF TxStartBit, Bit
  <2>2. tx_fifo' \in Seq(Bytes) /\ Head(tx_fifo) \in Byte
    BY <1>1, <1>5 DEF TxStartBit
  <2>3. tx_chr' \in Chr(Stop2Idx)
    BY <1>5, <2>2, ParityIsBit DEF TxStartBit, Chr, Idle, Stop2Idx
  <2> QED BY <1>1, <1>4, <1>5, <2>1, <2>2, <2>3 DEF TxStartBit, TypeOK, rxVars
<1>6. CASE TxFifoEmpty
  <2>1. /\ tx_armed' = FALSE /\ tx_due' = 0
        /\ UNCHANGED <<line, tx_fifo, tx_chr, irq_pending, irq_age, rx_chr, rx_armed,
                       rx_due, rx_errs, sent, received>>
    BY <1>6 DEF TxFifoEmpty, irqVars, rxVars
  <2>2. 0 \in -TxLate .. Period
    OBVIOUS
  <2> QED BY <1>1, <2>1, <2>2 DEF TypeOK
<1>7. CASE TxNextBit
  <2>1. /\ tx_chr.idx \in Idle .. Stop2Idx /\ tx_chr.idx # Idle
        /\ tx_chr.data \in Byte /\ tx_chr.parity \in Bit
    BY <1>1, <1>7 DEF TxNextBit, Chr
  <2>2. TxBit(tx_chr.data, tx_chr.parity, tx_chr.idx) \in Bit
    BY <2>1, TxBitIsBit
  <2>3. (IF tx_chr.idx = Stop2Idx THEN Idle ELSE tx_chr.idx + 1) \in Idle .. Stop2Idx
    BY <2>1 DEF Idle, Stop2Idx
  <2>4. tx_chr' \in Chr(Stop2Idx)
    BY <1>1, <1>7, <2>3, ChrStep DEF TxNextBit
  <2>5. TxExpired /\ Drive(TxBit(tx_chr.data, tx_chr.parity, tx_chr.idx))
    BY <1>7 DEF TxNextBit
  <2>6. /\ line' \in Bit /\ tx_due' \in -TxLate .. Period
        /\ irq_pending' \in BOOLEAN /\ irq_age' \in 0 .. IrqLate
    BY <1>4, <2>2, <2>5
  <2> QED BY <1>1, <1>7, <2>4, <2>6 DEF TxNextBit, TypeOK, rxVars
<1>8. CASE rx_irq_handler
  <2>1. /\ irq_pending' = FALSE /\ irq_age' = 0
        /\ UNCHANGED <<line, tx_fifo, tx_chr, tx_armed, tx_due, rx_chr, rx_errs, sent, received>>
    BY <1>8 DEF rx_irq_handler, txVars
  <2>2. (rx_armed' = TRUE /\ rx_due' = half_period) \/ UNCHANGED <<rx_armed, rx_due>>
    BY <1>8 DEF rx_irq_handler
  <2>3. rx_armed' \in BOOLEAN
    BY <1>1, <2>2
  <2>4. rx_due' \in Int /\ rx_due' >= -RxLate
    <3>1. half_period \in Int /\ half_period >= -RxLate
      BY HalfInt
    <3>2. rx_due \in Int /\ rx_due >= -RxLate
      BY <1>1
    <3>3. rx_due' = half_period \/ rx_due' = rx_due
      BY <2>2
    <3> HIDE DEF half_period
    <3> QED BY <3>1, <3>2, <3>3
  <2>5. irq_age' \in 0 .. IrqLate
    BY <2>1
  <2> QED BY <1>1, <2>1, <2>3, <2>4, <2>5 DEF TypeOK
<1>9. ASSUME RxExpired, RxRestart \/ RxNoRestart
      PROVE  rx_armed' \in BOOLEAN /\ rx_due' \in Int /\ rx_due' >= -RxLate
  <2>1. rx_armed' \in BOOLEAN
    BY <1>1, <1>9 DEF RxRestart, RxNoRestart
  <2>2. rx_due' = rx_due + RxPeriod \/ rx_due' = 0
    BY <1>9 DEF RxRestart, RxNoRestart
  <2>3. rx_due \in Int /\ rx_due >= -RxLate
    BY <1>1
  <2> QED BY <2>1, <2>2, <2>3
<1>10. CASE RxStartBit
  <2>1. rx_armed' \in BOOLEAN /\ rx_due' \in Int /\ rx_due' >= -RxLate
    BY <1>9, <1>10 DEF RxStartBit
  <2>2. rx_chr' \in Chr(StopIdx)
    <3>1. rx_chr' = rx_chr \/ rx_chr' = [rx_chr EXCEPT !.idx = 0]
      BY <1>10 DEF RxStartBit
    <3>2. 0 \in Idle .. StopIdx
      BY DEF Idle, StopIdx
    <3>3. rx_chr \in Chr(StopIdx)
      BY <1>1
    <3>4. [rx_chr EXCEPT !.idx = 0] \in Chr(StopIdx)
      BY <3>2, <3>3, ChrStep
    <3> QED BY <3>1, <3>3, <3>4
  <2>3. rx_errs' \in Nat
    <3>1. rx_errs' = rx_errs + 1 \/ rx_errs' = rx_errs
      BY <1>10 DEF RxStartBit
    <3>2. rx_errs \in Nat
      BY <1>1
    <3> QED BY ONLY <3>1, <3>2
  <2> QED BY <1>1, <1>10, <2>1, <2>2, <2>3 DEF RxStartBit, TypeOK, txVars, irqVars
<1>11. CASE RxDataBit
  <2>1. rx_armed' \in BOOLEAN /\ rx_due' \in Int /\ rx_due' >= -RxLate
    BY <1>9, <1>11 DEF RxDataBit
  <2>2. INSERT_BIT(rx_chr.data, line) \in Byte /\ rx_chr.idx + 1 \in Idle .. StopIdx
    <3>1. rx_chr.idx \in Pos /\ rx_chr.data \in Byte /\ line \in Bit
      BY <1>1, <1>11 DEF RxDataBit, Chr
    <3>2. INSERT_BIT(rx_chr.data, line) \in Byte
      BY <3>1, InsertIsByte
    <3> QED BY <3>1, <3>2 DEF Pos, Idle, StopIdx
  <2>3. rx_chr' \in Chr(StopIdx)
    BY <1>1, <1>11, <2>2 DEF RxDataBit, Chr
  <2> QED BY <1>1, <1>11, <2>1, <2>3 DEF RxDataBit, TypeOK, txVars, irqVars
<1>12. CASE RxParityBit
  <2>1. rx_armed' \in BOOLEAN /\ rx_due' \in Int /\ rx_due' >= -RxLate
    BY <1>9, <1>12 DEF RxParityBit
  <2>2. rx_chr' \in Chr(StopIdx)
    <3>1. rx_chr' = [rx_chr EXCEPT !.parity = line, !.idx = rx_chr.idx + 1]
      BY <1>12 DEF RxParityBit
    <3>2. rx_chr.idx + 1 \in Idle .. StopIdx
      BY <1>12 DEF RxParityBit, Idle, ParityIdx, StopIdx
    <3>3. rx_chr \in Chr(StopIdx) /\ line \in Bit
      BY <1>1
    <3> QED BY <3>1, <3>2, <3>3 DEF Chr
  <2> QED BY <1>1, <1>12, <2>1, <2>2 DEF RxParityBit, TypeOK, txVars, irqVars
<1>13. CASE RxStopBit
  <2>1. rx_armed' \in BOOLEAN /\ rx_due' \in Int /\ rx_due' >= -RxLate
    BY <1>9, <1>13 DEF RxStopBit
  <2>2. rx_chr' \in Chr(StopIdx)
    <3>1. rx_chr' = [rx_chr EXCEPT !.idx = Idle]
      BY <1>13 DEF RxStopBit
    <3>2. Idle \in Idle .. StopIdx
      BY DEF Idle, StopIdx
    <3> QED BY <1>1, <3>1, <3>2, ChrStep
  <2>3. rx_errs' \in Nat /\ received' \in Seq(Byte)
    <3>1. \/ received' = Append(received, rx_chr.data) /\ rx_errs' = rx_errs
          \/ rx_errs' = rx_errs + 1 /\ received' = received
      BY <1>13 DEF RxStopBit
    <3>2. rx_chr.data \in Byte
      BY <1>1 DEF Chr
    <3>3. received \in Seq(Byte) /\ rx_errs \in Nat
      BY <1>1
    <3>4. Append(received, rx_chr.data) \in Seq(Byte) /\ rx_errs + 1 \in Nat
      BY ONLY <3>2, <3>3
    <3> QED BY ONLY <3>1, <3>3, <3>4
  <2> QED BY <1>1, <1>13, <2>1, <2>2, <2>3 DEF RxStopBit, TypeOK, txVars, irqVars
<1>14. CASE Tick
  BY <1>1, <1>14 DEF Tick, TypeOK
<1> QED BY <1>2, <1>3, <1>5, <1>6, <1>7, <1>8, <1>10, <1>11, <1>12, <1>13, <1>14
        DEF Next, tx_timer_cb, rx_timer_cb

-----------------------------------------------------------------------------
(* The two ends stay in step *)

\* The numbers of a state.
LEMMA Numbers ==
  ASSUME TypeOK
  PROVE  /\ tx_due \in Int /\ tx_due >= -TxLate /\ tx_due <= Period
         /\ rx_due \in Int /\ rx_due >= -RxLate
         /\ irq_age \in Int /\ irq_age >= 0 /\ irq_age <= IrqLate
         /\ tx_chr.idx \in Int /\ Idle <= tx_chr.idx /\ tx_chr.idx <= Stop2Idx
         /\ rx_chr.idx \in Int /\ Idle <= rx_chr.idx /\ rx_chr.idx <= StopIdx
         /\ RxNext \in Int /\ RxNext \in 0 .. Stop2Idx
         /\ Lag(RxNext) \in Int
         /\ tx_chr.data \in Byte /\ rx_chr.data \in Byte
         /\ tx_chr.parity \in Bit /\ rx_chr.parity \in Bit
<1>1. /\ tx_due \in Int /\ tx_due >= -TxLate /\ tx_due <= Period
      /\ rx_due \in Int /\ rx_due >= -RxLate
      /\ irq_age \in Int /\ irq_age >= 0 /\ irq_age <= IrqLate
  BY LinkAssumption DEF TypeOK
<1>2. /\ tx_chr.idx \in Int /\ Idle <= tx_chr.idx /\ tx_chr.idx <= Stop2Idx
      /\ rx_chr.idx \in Int /\ Idle <= rx_chr.idx /\ rx_chr.idx <= StopIdx
      /\ RxNext \in Int /\ RxNext \in 0 .. Stop2Idx
  BY BitsAssumption DEF TypeOK, Chr, RxNext, Idle, StopIdx, Stop2Idx
<1>3. /\ tx_chr.data \in Byte /\ rx_chr.data \in Byte
      /\ tx_chr.parity \in Bit /\ rx_chr.parity \in Bit
  BY DEF TypeOK, Chr
<1> QED BY <1>1, <1>2, <1>3, LagStep

\* A write changes nothing of the two ends but, when nothing is going on, the timer.
LEMMA SyncWrite ==
  ASSUME TypeOK, Synchronised, WireCarries, NEW b \in Bytes, bitbang_tx(b)
  PROVE  Synchronised' /\ WireCarries'
<1>1. /\ tx_armed' = TRUE /\ (tx_armed => tx_due' = tx_due)
      /\ UNCHANGED <<line, tx_chr, irq_pending, irq_age, rx_chr, rx_armed, rx_due>>
  BY DEF bitbang_tx, irqVars, rxVars
<1>2. WireCarries'
  BY <1>1 DEF WireCarries
<1>3. CASE tx_armed
  <2>1. RxNext' = RxNext /\ tx_due' = tx_due /\ tx_armed'
    BY <1>1, <1>3 DEF RxNext
  <2>2. InStep' = InStep /\ InFlight' = InFlight
    BY <1>1, <2>1 DEF InStep, InFlight
  <2> QED BY <1>1, <1>2, <2>1, <2>2 DEF Synchronised
<1>4. CASE ~tx_armed
  <2>1. ~rx_armed /\ ~irq_pending
    BY <1>4 DEF Synchronised
  <2>2. ~rx_armed' /\ ~irq_pending' /\ ~InFlight /\ ~InFlight'
    BY <1>1, <2>1 DEF InFlight
  <2> QED BY <1>1, <1>2, <2>2 DEF Synchronised
<1> QED BY <1>2, <1>3, <1>4

\* A start bit begins only when the receiver is idle, and raises the interrupt.
LEMMA SyncStart ==
  ASSUME TypeOK, Synchronised, WireCarries, TxStartBit
  PROVE  /\ Synchronised' /\ WireCarries'
         /\ ~InFlight /\ InFlight' /\ ~rx_armed /\ ~rx_armed'
<1>1. /\ TxExpired /\ tx_chr.idx = Idle /\ tx_chr'.idx = 0
      /\ tx_chr'.parity = parity_even8(tx_chr'.data)
      /\ tx_due' = tx_due + Period /\ line' = 0
      /\ irq_pending' = (irq_pending \/ (line = 1 /\ 0 = 0))
      /\ irq_age' = IF line = 1 THEN 0 ELSE irq_age
      /\ UNCHANGED <<tx_armed, rx_chr, rx_armed, rx_due>>
  BY DEF TxStartBit, Drive, rxVars
<1>2. line = 1 /\ irq_pending' /\ irq_age' = 0
  BY <1>1 DEF WireCarries
<1>3. ~irq_pending /\ ~rx_armed
  <2>1. rx_armed => tx_chr.idx = RxNext - 1 /\ RxNext > 0
    BY <1>1, TxSlot
  <2>2. RxNext \in Int
    BY Numbers
  <2> HIDE DEF RxNext
  <2> QED BY <1>1, <2>1, <2>2, TxSlot DEF Idle
<1>4. ~InFlight /\ InFlight' /\ ~rx_armed'
  BY <1>1, <1>2, <1>3 DEF InFlight
<1>5. tx_due' + irq_age' \in Period - TxLate .. Period /\ tx_armed'
  <2>1. tx_due \in Int /\ tx_due <= 0 /\ tx_due >= -TxLate /\ tx_armed
    BY <1>1, Numbers DEF TxExpired
  <2> QED BY <1>1, <1>2, <2>1, LinkAssumption
<1>6. Synchronised'
  BY <1>1, <1>4, <1>5 DEF Synchronised
<1>7. WireCarries'
  BY <1>1, <1>5, BitsAssumption DEF WireCarries, TxBit, Idle
<1> QED BY <1>3, <1>4, <1>6, <1>7

\* The callback that finds nothing to send stops a timer nobody depends on.
LEMMA SyncEmpty ==
  ASSUME TypeOK, Synchronised, WireCarries, TxFifoEmpty
  PROVE  Synchronised' /\ WireCarries' /\ ~InFlight /\ ~InFlight'
<1>1. /\ TxExpired /\ tx_chr.idx = Idle
      /\ UNCHANGED <<line, tx_chr, irq_pending, irq_age, rx_chr, rx_armed, rx_due>>
  BY DEF TxFifoEmpty, irqVars, rxVars
<1>2. ~irq_pending /\ ~rx_armed
  <2>1. rx_armed => tx_chr.idx = RxNext - 1 /\ RxNext > 0
    BY <1>1, TxSlot
  <2>2. RxNext \in Int
    BY Numbers
  <2> HIDE DEF RxNext
  <2> QED BY <1>1, <2>1, <2>2, TxSlot DEF Idle
<1>3. ~InFlight /\ ~InFlight'
  BY <1>1, <1>2 DEF InFlight
<1>4. Synchronised'
  BY <1>1, <1>2, <1>3 DEF Synchronised
<1> QED BY <1>1, <1>3, <1>4 DEF WireCarries

\* The next bit begins only when the receiver waits for it, or is done.
LEMMA SyncNext ==
  ASSUME TypeOK, Synchronised, WireCarries, TxNextBit
  PROVE  Synchronised' /\ WireCarries' /\ InFlight' = InFlight
<1> DEFINE v == TxBit(tx_chr.data, tx_chr.parity, tx_chr.idx)
<1>1. /\ TxExpired /\ tx_chr.idx # Idle
      /\ tx_due' = tx_due + Period /\ line' = v
      /\ irq_pending' = (irq_pending \/ (line = 1 /\ v = 0))
      /\ irq_age' = IF line = 1 /\ v = 0 THEN 0 ELSE irq_age
      /\ UNCHANGED <<tx_armed, rx_chr, rx_armed, rx_due>>
  BY DEF TxNextBit, Drive, rxVars
<1>2. /\ tx_chr'.idx = IF tx_chr.idx = Stop2Idx THEN Idle ELSE tx_chr.idx + 1
      /\ tx_chr'.data = tx_chr.data /\ tx_chr'.parity = tx_chr.parity
  BY DEF TxNextBit, TypeOK, Chr
<1>3. /\ ~irq_pending
      /\ rx_armed => /\ tx_chr.idx = RxNext - 1 /\ RxNext > 0
                     /\ rx_due - tx_due - half_period - Lag(RxNext) \in 0 .. TxLate + IrqLate
  BY <1>1, TxSlot
<1>4. tx_armed /\ tx_due \in Int /\ tx_due <= 0 /\ tx_due >= -TxLate
  BY <1>1, Numbers DEF TxExpired
<1>5. WireCarries'
  <2>1. tx_armed' /\ tx_chr'.parity = parity_even8(tx_chr'.data)
    BY <1>1, <1>2, <1>4 DEF WireCarries
  <2>2. CASE tx_chr.idx = Stop2Idx
    BY <1>1, <1>2, <2>1, <2>2, BitsAssumption DEF WireCarries, TxBit, Idle, Stop2Idx, ParityIdx
  <2>3. CASE tx_chr.idx # Stop2Idx
    <3>1. tx_chr'.idx = tx_chr.idx + 1 /\ tx_chr.idx \in Int /\ tx_chr.idx >= 0
      BY <1>1, <1>2, <2>3, Numbers DEF Idle
    <3>2. tx_chr'.idx # Idle /\ tx_chr'.idx - 1 = tx_chr.idx
      BY <3>1 DEF Idle
    <3> QED BY <1>1, <1>2, <2>1, <3>2 DEF WireCarries
  <2> QED BY <2>2, <2>3
<1>6. irq_pending' => /\ line' = 0 /\ tx_armed'
                      /\ tx_due' + irq_age' \in Period - TxLate .. Period
  <2>1. ASSUME irq_pending' PROVE line' = 0 /\ irq_age' = 0
    <3>1. line = 1 /\ v = 0
      <4> HIDE DEF v
      <4>1. irq_pending' = (irq_pending \/ (line = 1 /\ v = 0))
        BY <1>1
      <4> QED BY <1>3, <2>1, <4>1, Zenon
    <3> QED BY <1>1, <3>1
  <2>2. tx_due' + 0 \in Period - TxLate .. Period
    <3>1. tx_due' = tx_due + Period
      BY <1>1
    <3> QED BY <1>4, <3>1, LinkAssumption
  <2> QED BY <1>1, <1>4, <2>1, <2>2
<1>7. CASE rx_armed
  <2>1. /\ RxNext \in Int /\ RxNext \in 0 .. Stop2Idx /\ Lag(RxNext) \in Int
        /\ rx_due \in Int /\ half_period \in Int
    BY Numbers, HalfInt
  <2>2. tx_chr.idx = RxNext - 1 /\ RxNext > 0 /\ RxNext' = RxNext
    BY <1>1, <1>3, <1>7 DEF RxNext
  <2>3. tx_chr'.idx = RxNext'
    <3> HIDE DEF RxNext
    <3> QED BY <1>2, <2>1, <2>2, BitsAssumption DEF Stop2Idx
  <2>4. rx_due' - tx_due' - half_period - Lag(RxNext') + Period \in 0 .. TxLate + IrqLate
    <3>1. rx_due' = rx_due /\ tx_due' = tx_due + Period /\ Lag(RxNext') = Lag(RxNext)
      BY <1>1, <2>2
    <3>2. rx_due - tx_due - half_period - Lag(RxNext) \in 0 .. TxLate + IrqLate
      BY <1>3, <1>7
    <3> HIDE DEF RxNext, Lag, half_period
    <3> QED BY <1>4, <2>1, <3>1, <3>2, LinkAssumption
  <2>5. InStep'
    BY <2>3, <2>4 DEF InStep
  <2>6. InFlight' /\ InFlight /\ tx_chr'.idx > 0 /\ tx_armed' /\ rx_armed'
    BY <1>1, <1>4, <1>7, <2>2, <2>3 DEF InFlight
  <2> QED BY <1>5, <1>6, <2>5, <2>6 DEF Synchronised, InFlight
<1>8. CASE ~rx_armed
  <2>1. ~InFlight
    BY <1>3, <1>8 DEF InFlight
  <2>2. tx_chr.idx = Stop2Idx /\ rx_chr.idx = Idle
    BY <1>1, <1>8, <2>1 DEF Synchronised
  <2>3. tx_chr'.idx = Idle /\ v = 1
    BY <1>2, <2>2, BitsAssumption DEF TxBit, Idle, Stop2Idx, ParityIdx
  <2>4. ~irq_pending' /\ ~rx_armed'
    <3>1. ~(line = 1 /\ v = 0)
      BY <2>3
    <3> HIDE DEF v
    <3> QED BY <1>1, <1>3, <1>8, <3>1, Zenon
  <2>5. ~InFlight'
    BY <2>4 DEF InFlight
  <2>6. rx_chr'.idx = Idle
    BY <1>1, <2>2
  <2>7. Synchronised'
    BY <2>3, <2>4, <2>6 DEF Synchronised
  <2>8. InFlight \in BOOLEAN /\ InFlight' \in BOOLEAN
    BY DEF InFlight
  <2> QED BY <1>5, <2>1, <2>5, <2>7, <2>8
<1> QED BY <1>7, <1>8

\* The handler starts the receive timer for a start bit, and for nothing else.
LEMMA SyncIrq ==
  ASSUME TypeOK, Synchronised, WireCarries, rx_irq_handler
  PROVE  /\ Synchronised' /\ WireCarries' /\ InFlight /\ InFlight'
         /\ rx_armed \/ rx_chr.idx = Idle
<1>1. /\ irq_pending /\ irq_pending' = FALSE
      /\ UNCHANGED <<line, tx_fifo, tx_chr, tx_armed, tx_due, rx_chr>>
  BY DEF rx_irq_handler, txVars
<1>2. line = 0 /\ tx_armed /\ tx_due + irq_age \in Period - TxLate .. Period
  BY <1>1 DEF Synchronised
<1>3. WireCarries'
  BY <1>1 DEF WireCarries
<1>4. tx_chr.idx # Idle /\ tx_chr.idx # Stop2Idx
  BY <1>2, BitsAssumption DEF WireCarries, TxBit, Idle, Stop2Idx, ParityIdx
<1>5. InFlight
  BY <1>4 DEF Synchronised
<1>6. CASE rx_armed
  <2>1. tx_chr.idx > 0 /\ InStep /\ RxNext \in Int /\ tx_chr.idx \in Int
    BY <1>1, <1>6, Numbers DEF Synchronised
  <2>2. rx_chr.idx # Idle
    <3>1. tx_chr.idx = RxNext \/ tx_chr.idx = RxNext - 1
      BY <2>1 DEF InStep
    <3>2. RxNext > 0
      <4> HIDE DEF RxNext
      <4> QED BY <2>1, <3>1
    <3> QED BY <3>2 DEF RxNext, Idle
  <2>3. UNCHANGED <<rx_armed, rx_due>>
    BY <2>2 DEF rx_irq_handler
  <2>4. RxNext' = RxNext
    BY <1>1 DEF RxNext
  <2>5. InStep'
    BY <1>1, <2>1, <2>3, <2>4 DEF InStep
  <2> QED BY <1>1, <1>2, <1>3, <1>5, <1>6, <2>3, <2>5 DEF Synchronised, InFlight
<1>7. CASE ~rx_armed
  <2>1. tx_chr.idx = 0
    BY <1>5, <1>7 DEF InFlight
  <2>2. rx_chr.idx = Idle
    BY <1>7 DEF Synchronised
  <2>3. rx_armed' = TRUE /\ rx_due' = half_period
    BY <1>2, <2>2 DEF rx_irq_handler
  <2>4. RxNext' = 0 /\ Lag(RxNext') = 0
    <3>1. RxNext' = 0
      BY <1>1, <2>2 DEF RxNext, Idle
    <3> QED BY <3>1, LagStep
  <2>5. rx_due' - tx_due' - half_period - Lag(RxNext') + Period \in 0 .. TxLate + IrqLate
    <3>1. rx_due' = half_period /\ tx_due' = tx_due /\ Lag(RxNext') = 0
      BY <1>1, <2>3, <2>4
    <3>2. tx_due \in Int /\ irq_age \in Int /\ irq_age >= 0 /\ irq_age <= IrqLate
      BY Numbers
    <3> HIDE DEF half_period, Lag, RxNext
    <3> QED BY <1>2, <3>1, <3>2, HalfInt, LinkAssumption
  <2>6. InStep'
    BY <1>1, <2>1, <2>4, <2>5 DEF InStep
  <2> QED BY <1>1, <1>2, <1>3, <1>5, <2>2, <2>3, <2>6 DEF Synchronised, InFlight
<1> QED BY <1>6, <1>7

\* After a sample the receiver waits for the next bit.
LEMMA SyncSample ==
  ASSUME TypeOK, Synchronised, WireCarries, RxExpired, RxRestart,
         rx_chr'.idx = rx_chr.idx + 1, rx_chr.idx # StopIdx,
         UNCHANGED <<line, tx_chr, tx_armed, tx_due, irq_pending, irq_age>>
  PROVE  Synchronised' /\ WireCarries' /\ InFlight /\ InFlight'
<1>1. /\ tx_chr.idx = RxNext /\ rx_armed /\ rx_armed' = rx_armed
      /\ rx_due - tx_due - half_period - Lag(RxNext) + Period \in 0 .. TxLate + IrqLate
      /\ rx_due' = rx_due + RxPeriod
  BY RxSlot DEF RxExpired, RxRestart
<1>2. RxNext' = RxNext + 1 /\ RxNext \in Int /\ RxNext >= 0
  <2>1. RxNext \in 0 .. Stop2Idx
    BY Numbers
  <2>2. RxNext' = rx_chr'.idx + 1 /\ RxNext = rx_chr.idx + 1
    BY DEF RxNext
  <2>3. RxNext \in Int /\ RxNext >= 0
    BY <2>1
  <2> QED BY <2>2, <2>3
<1>3. /\ Lag(RxNext) \in Int /\ Lag(RxNext') = Lag(RxNext) + RxPeriod - Period
      /\ rx_due \in Int /\ tx_due \in Int /\ half_period \in Int
  BY <1>2, LagStep, Numbers, HalfInt
<1>4. tx_chr'.idx = RxNext' - 1 /\ RxNext' > 0
  <2>1. tx_chr'.idx = tx_chr.idx
    OBVIOUS
  <2> HIDE DEF RxNext
  <2> QED BY <1>1, <1>2, <2>1
<1>5. rx_due' - tx_due' - half_period - Lag(RxNext') \in 0 .. TxLate + IrqLate
  <2>1. tx_due' = tx_due
    OBVIOUS
  <2> HIDE DEF Lag, RxNext, half_period
  <2> QED BY <1>1, <1>3, <2>1, LinkAssumption
<1>6. InStep'
  BY <1>4, <1>5 DEF InStep
<1>7. WireCarries'
  BY DEF WireCarries
<1> QED BY <1>1, <1>6, <1>7 DEF Synchronised, InFlight

\* The bit a sample finds on the wire.
LEMMA Sampled ==
  ASSUME TypeOK, Synchronised, WireCarries, RxExpired
  PROVE  /\ line = TxBit(tx_chr.data, tx_chr.parity, rx_chr.idx)
         /\ tx_chr.parity = parity_even8(tx_chr.data)
<1>1. tx_chr.idx = rx_chr.idx + 1 /\ rx_chr.idx \in Int /\ rx_chr.idx >= Idle
  BY RxSlot, Numbers DEF RxNext
<1>2. tx_chr.idx # Idle /\ tx_chr.idx - 1 = rx_chr.idx
  BY <1>1 DEF Idle
<1> QED BY <1>2 DEF WireCarries

\* The sample of the stop bit ends the character on both sides.
LEMMA SyncStop ==
  ASSUME TypeOK, Synchronised, WireCarries, RxStopBit
  PROVE  Synchronised' /\ WireCarries' /\ InFlight /\ ~InFlight' /\ ~rx_armed'
<1>1. /\ RxExpired /\ rx_armed /\ rx_armed' = FALSE
      /\ rx_chr.idx = StopIdx /\ rx_chr' = [rx_chr EXCEPT !.idx = Idle]
      /\ UNCHANGED <<line, tx_chr, tx_armed, tx_due, irq_pending, irq_age>>
  BY DEF RxStopBit, RxExpired, RxNoRestart, txVars, irqVars
<1>2. tx_chr.idx = Stop2Idx
  BY <1>1, RxSlot, BitsAssumption DEF RxNext, StopIdx, Stop2Idx
<1>3. rx_chr'.idx = Idle
  BY <1>1 DEF TypeOK, Chr
<1>4. InFlight /\ ~InFlight'
  BY <1>1, <1>2, BitsAssumption DEF InFlight, Stop2Idx
<1>5. Synchronised'
  BY <1>1, <1>2, <1>3, <1>4 DEF Synchronised
<1>6. WireCarries'
  BY <1>1 DEF WireCarries
<1> QED BY <1>1, <1>4, <1>5, <1>6

\* Time moves both timers alike.
LEMMA SyncTick ==
  ASSUME TypeOK, Synchronised, WireCarries, Tick
  PROVE  Synchronised' /\ WireCarries' /\ InFlight' = InFlight
<1>1. /\ UNCHANGED <<line, tx_chr, tx_armed, irq_pending, rx_chr, rx_armed>>
      /\ tx_armed => tx_due' = tx_due - 1
      /\ rx_armed => rx_due' = rx_due - 1
      /\ irq_pending => irq_age' = irq_age + 1
  BY DEF Tick
<1>2. InFlight' = InFlight /\ RxNext' = RxNext
  BY <1>1 DEF InFlight, RxNext
<1>3. /\ tx_due \in Int /\ rx_due \in Int /\ irq_age \in Int
      /\ half_period \in Int /\ Lag(RxNext) \in Int
  BY Numbers, HalfInt
<1>4. ASSUME rx_armed PROVE tx_armed /\ InStep'
  <2>1. tx_armed /\ InStep
    BY <1>4 DEF Synchronised
  <2>2. rx_due' - tx_due' - half_period - Lag(RxNext') = rx_due - tx_due - half_period - Lag(RxNext)
    <3>1. rx_due' = rx_due - 1 /\ tx_due' = tx_due - 1 /\ Lag(RxNext') = Lag(RxNext)
      BY <1>1, <1>2, <1>4, <2>1
    <3> HIDE DEF Lag, RxNext, half_period
    <3> QED BY <1>3, <3>1
  <2> HIDE DEF Lag, RxNext, half_period
  <2> QED BY <1>1, <1>2, <2>1, <2>2 DEF InStep
<1>5. ASSUME irq_pending PROVE tx_due' + irq_age' \in Period - TxLate .. Period
  <2>1. tx_armed /\ tx_due + irq_age \in Period - TxLate .. Period
    BY <1>5 DEF Synchronised
  <2>2. tx_due' = tx_due - 1 /\ irq_age' = irq_age + 1
    BY <1>1, <1>5, <2>1
  <2>3. tx_due' + irq_age' = tx_due + irq_age
    BY <1>3, <2>2
  <2> QED BY <2>1, <2>3
<1>6. Synchronised'
  BY <1>1, <1>2, <1>4, <1>5 DEF Synchronised
<1> QED BY <1>1, <1>2, <1>6 DEF WireCarries

-----------------------------------------------------------------------------
(* The data *)

\* The bits sampled before a data bit and the bit itself are the bits sampled
\* after it.
LEMMA InsertSampled ==
  ASSUME NEW b \in Byte, NEW d \in Byte, NEW k \in Pos,
         \A i \in Pos : i + k >= Bits => d[i] = b[i + k - Bits]
  PROVE  \A i \in Pos : i + (k + 1) >= Bits =>
             INSERT_BIT(d, b[k])[i] = b[i + (k + 1) - Bits]
<1> SUFFICES ASSUME NEW i \in Pos, i + (k + 1) >= Bits
             PROVE  INSERT_BIT(d, b[k])[i] = b[i + (k + 1) - Bits]
  OBVIOUS
<1>1. CASE i = Bits - 1
  BY <1>1, BitsAssumption DEF INSERT_BIT, Pos
<1>2. CASE i # Bits - 1
  <2>1. i + 1 \in Pos /\ (i + 1) + k >= Bits
    BY <1>2, BitsAssumption DEF Pos
  <2>2. INSERT_BIT(d, b[k])[i] = d[i + 1]
    BY <1>2 DEF INSERT_BIT
  <2>3. d[i + 1] = b[(i + 1) + k - Bits] /\ (i + 1) + k - Bits = i + (k + 1) - Bits
    BY <2>1, BitsAssumption DEF Pos
  <2> QED BY <2>2, <2>3
<1> QED BY <1>1, <1>2

\* Two characters that agree in every position are equal.
LEMMA SameByte ==
  ASSUME NEW b \in Byte, NEW d \in Byte, \A i \in Pos : d[i] = b[i]
  PROVE  d = b
BY DEF Byte

\* What a step means for the data: a byte is queued, taken onto the wire or
\* received, and every sample agrees with the wire.
LEMMA DataStep ==
  ASSUME LinkInv, [Next]_vars
  PROVE  /\ Synchronised' /\ WireCarries' /\ DataInTransit' /\ NoFramingErrors'
         /\ \/ UNCHANGED <<sent, received>>
            \/ \E b \in Bytes : sent' = Append(sent, b) /\ received' = received
            \/ /\ sent' = sent /\ InFlight
               /\ received' = Append(received, tx_chr.data)
<1> USE LinkAssumption, BitsAssumption
<1>1. /\ TypeOK /\ Synchronised /\ WireCarries /\ PartlyReceived /\ rx_errs = 0
      /\ sent = Begun \o tx_fifo
  BY DEF LinkInv, DataInTransit, NoFramingErrors
<1>2. /\ tx_fifo \in Seq(Byte) /\ received \in Seq(Byte) /\ tx_chr.data \in Byte
      /\ rx_chr.data \in Byte /\ Begun \in Seq(Byte)
  <2>1. tx_fifo \in Seq(Byte) /\ received \in Seq(Byte)
    BY <1>1 DEF TypeOK
  <2>2. tx_chr.data \in Byte /\ rx_chr.data \in Byte
    BY <1>1, Numbers
  <2> QED BY <2>1, <2>2 DEF Begun
<1>3. CASE UNCHANGED vars
  <2>1. /\ UNCHANGED <<line, tx_fifo, tx_chr, tx_armed, tx_due, irq_pending, irq_age>>
        /\ UNCHANGED <<rx_chr, rx_armed, rx_due, rx_errs, sent, received>>
    BY <1>3 DEF vars, txVars, irqVars, rxVars
  <2>2. InFlight' = InFlight /\ RxNext' = RxNext
    BY <2>1 DEF InFlight, RxNext
  <2>3. Synchronised'
    BY <1>1, <2>1, <2>2 DEF Synchronised, InStep
  <2>4. WireCarries' /\ PartlyReceived' /\ rx_errs' = 0 /\ Begun' = Begun
    BY <1>1, <2>1, <2>2 DEF WireCarries, PartlyReceived, Begun
  <2> QED BY <1>1, <2>1, <2>3, <2>4 DEF DataInTransit, NoFramingErrors
<1>4. ASSUME NEW b \in Bytes, bitbang_tx(b)
      PROVE  /\ Synchronised' /\ WireCarries' /\ DataInTransit' /\ NoFramingErrors'
             /\ sent' = Append(sent, b) /\ received' = received
  <2>1. /\ sent' = Append(sent, b) /\ tx_fifo' = Append(tx_fifo, b)
        /\ UNCHANGED <<line, tx_chr, irq_pending, rx_chr, rx_armed, rx_errs, received>>
    BY <1>4 DEF bitbang_tx, irqVars, rxVars
  <2>2. Begun' = Begun /\ PartlyReceived' /\ NoFramingErrors'
    BY <1>1, <2>1 DEF Begun, InFlight, PartlyReceived, NoFramingErrors
  <2>3. sent' = Begun' \o tx_fifo'
    <3>1. b \in Byte
      OBVIOUS
    <3>2. Append(Begun \o tx_fifo, b) = Begun \o Append(tx_fifo, b)
      <4>1. Begun \in Seq(Byte) /\ tx_fifo \in Seq(Byte)
        BY <1>2
      <4> HIDE DEF Begun
      <4> QED BY <3>1, <4>1, QueueOne, Zenon
    <3> QED BY <1>1, <2>1, <2>2, <3>2
  <2>4. Synchronised' /\ WireCarries'
    BY <1>1, <1>4, SyncWrite
  <2> QED BY <2>1, <2>2, <2>3, <2>4 DEF DataInTransit
<1>5. CASE TxStartBit
  <2>1. /\ tx_fifo # <<>> /\ tx_fifo' = Tail(tx_fifo) /\ tx_chr'.data = Head(tx_fifo)
        /\ UNCHANGED <<rx_chr, rx_armed, rx_errs, sent, received>>
    BY <1>5 DEF TxStartBit, rxVars
  <2>2. /\ Synchronised' /\ WireCarries' /\ ~InFlight /\ InFlight' /\ ~rx_armed'
    BY <1>1, <1>5, SyncStart
  <2>3. Begun = received /\ Begun' = Append(received, Head(tx_fifo))
    BY <2>1, <2>2 DEF Begun
  <2>4. sent' = Begun' \o tx_fifo'
    BY <1>1, <1>2, <2>1, <2>3, TakeOne
  <2>5. PartlyReceived' /\ NoFramingErrors'
    BY <1>1, <2>1, <2>2 DEF PartlyReceived, NoFramingErrors
  <2> QED BY <2>1, <2>2, <2>4, <2>5 DEF DataInTransit
<1>6. CASE TxFifoEmpty
  <2>1. UNCHANGED <<tx_fifo, tx_chr, rx_chr, rx_armed, rx_errs, sent, received>>
    BY <1>6 DEF TxFifoEmpty, rxVars
  <2>2. Synchronised' /\ WireCarries' /\ ~InFlight /\ ~InFlight'
    BY <1>1, <1>6, SyncEmpty
  <2>3. Begun' = Begun /\ PartlyReceived' /\ NoFramingErrors'
    BY <1>1, <2>1, <2>2 DEF Begun, PartlyReceived, NoFramingErrors
  <2> QED BY <1>1, <2>1, <2>2, <2>3 DEF DataInTransit
<1>7. CASE TxNextBit
  <2>1. /\ tx_chr'.data = tx_chr.data /\ tx_chr'.parity = tx_chr.parity
        /\ UNCHANGED <<tx_fifo, rx_chr, rx_armed, rx_errs, sent, received>>
    BY <1>1, <1>7 DEF TxNextBit, rxVars, TypeOK, Chr
  <2>2. Synchronised' /\ WireCarries' /\ InFlight' = InFlight
    BY <1>1, <1>7, SyncNext
  <2>3. Begun' = Begun /\ PartlyReceived' /\ NoFramingErrors'
    BY <1>1, <2>1, <2>2 DEF Begun, PartlyReceived, NoFramingErrors
  <2> QED BY <1>1, <2>1, <2>2, <2>3 DEF DataInTransit
<1>8. CASE rx_irq_handler
  <2>1. UNCHANGED <<tx_fifo, tx_chr, rx_chr, rx_errs, sent, received>>
    BY <1>8 DEF rx_irq_handler, txVars
  <2>2. /\ Synchronised' /\ WireCarries' /\ InFlight /\ InFlight'
        /\ rx_armed \/ rx_chr.idx = Idle
    BY <1>1, <1>8, SyncIrq
  <2>3. Begun' = Begun /\ NoFramingErrors'
    BY <1>1, <2>1, <2>2 DEF Begun, NoFramingErrors
  <2>4. PartlyReceived'
    BY <1>1, <2>1, <2>2 DEF PartlyReceived, Idle, StopIdx, Pos
  <2> QED BY <1>1, <2>1, <2>2, <2>3, <2>4 DEF DataInTransit
<1>9. ASSUME RxExpired, RxRestart, rx_chr'.idx = rx_chr.idx + 1, rx_chr.idx # StopIdx,
             UNCHANGED <<line, txVars, irqVars, rx_errs, sent, received>>, PartlyReceived'
      PROVE  /\ Synchronised' /\ WireCarries' /\ DataInTransit' /\ NoFramingErrors'
             /\ UNCHANGED <<sent, received>>
  <2>1. UNCHANGED <<line, tx_fifo, tx_chr, tx_armed, tx_due, irq_pending, irq_age,
                    rx_errs, sent, received>>
    BY <1>9 DEF txVars, irqVars
  <2>2. Synchronised' /\ WireCarries' /\ InFlight /\ InFlight'
    BY <1>1, <1>9, <2>1, SyncSample
  <2>3. Begun' = Begun /\ NoFramingErrors'
    BY <1>1, <2>1, <2>2 DEF Begun, NoFramingErrors
  <2> QED BY <1>1, <1>9, <2>1, <2>2, <2>3 DEF DataInTransit
<1>10. CASE RxStartBit
  <2>1. RxExpired /\ rx_chr.idx = Idle /\ rx_armed
    BY <1>10 DEF RxStartBit, RxExpired
  <2>2. line = 0
    BY <1>1, <2>1, Sampled DEF TxBit
  <2>3. /\ RxRestart /\ rx_chr' = [rx_chr EXCEPT !.idx = 0] /\ rx_errs' = rx_errs
        /\ UNCHANGED <<line, txVars, irqVars, sent, received>>
    BY <1>10, <2>2 DEF RxStartBit
  <2>4. rx_chr'.idx = 0
    BY <1>1, <2>3 DEF TypeOK, Chr
  <2>5. rx_chr'.idx = rx_chr.idx + 1 /\ rx_chr.idx # StopIdx
    BY <2>1, <2>4 DEF Idle, StopIdx
  <2>6. PartlyReceived'
    BY <2>4 DEF PartlyReceived, Pos, StopIdx
  <2> QED BY <1>9, <2>1, <2>3, <2>5, <2>6
<1>11. CASE RxDataBit
  <2>1. /\ RxExpired /\ rx_chr.idx \in Pos /\ rx_armed /\ RxRestart
        /\ UNCHANGED <<line, txVars, irqVars, rx_errs, sent, received>>
    BY <1>11 DEF RxDataBit, RxExpired
  <2>2. line = tx_chr.data[rx_chr.idx]
    BY <1>1, <2>1, Sampled DEF TxBit, Pos, Idle, ParityIdx
  <2>3. /\ rx_chr'.idx = rx_chr.idx + 1
        /\ rx_chr'.data = INSERT_BIT(rx_chr.data, line)
    BY <1>1, <1>11 DEF RxDataBit, TypeOK, Chr
  <2>4. \A i \in Pos : i + rx_chr.idx >= Bits => rx_chr.data[i] = tx_chr.data[i + rx_chr.idx - Bits]
    BY <1>1, <2>1 DEF PartlyReceived, Pos
  <2>5. \A i \in Pos : i + (rx_chr.idx + 1) >= Bits =>
            INSERT_BIT(rx_chr.data, tx_chr.data[rx_chr.idx])[i]
            = tx_chr.data[i + (rx_chr.idx + 1) - Bits]
    BY <1>2, <2>1, <2>4, InsertSampled
  <2>6. tx_chr' = tx_chr
    BY <2>1 DEF txVars
  <2>7. \A i \in Pos : i + rx_chr'.idx >= Bits => rx_chr'.data[i] = tx_chr'.data[i + rx_chr'.idx - Bits]
    BY <2>2, <2>3, <2>5, <2>6
  <2>8. rx_chr.idx # StopIdx /\ rx_chr'.idx # StopIdx
    BY <2>1, <2>3 DEF Pos, StopIdx
  <2>9. PartlyReceived'
    BY <2>7, <2>8 DEF PartlyReceived
  <2> QED BY <1>9, <2>1, <2>3, <2>8, <2>9
<1>12. CASE RxParityBit
  <2>1. /\ RxExpired /\ rx_chr.idx = ParityIdx /\ rx_armed /\ RxRestart
        /\ UNCHANGED <<line, txVars, irqVars, rx_errs, sent, received>>
    BY <1>12 DEF RxParityBit, RxExpired
  <2>2. line = tx_chr.parity
    BY <1>1, <2>1, Sampled DEF TxBit, Idle, ParityIdx
  <2>3. /\ rx_chr'.idx = rx_chr.idx + 1 /\ rx_chr'.parity = line
        /\ rx_chr'.data = rx_chr.data
    BY <1>1, <1>12 DEF RxParityBit, TypeOK, Chr
  <2>4. \A i \in Pos : rx_chr.data[i] = tx_chr.data[i]
    BY <1>1, <2>1 DEF PartlyReceived, Pos, ParityIdx
  <2>5. rx_chr.data = tx_chr.data
    BY <1>2, <2>4, SameByte
  <2>6. tx_chr' = tx_chr
    BY <2>1 DEF txVars
  <2>7. rx_chr.idx # StopIdx /\ ~(rx_chr'.idx <= Bits)
    BY <2>1, <2>3 DEF ParityIdx, StopIdx
  <2>8. PartlyReceived'
    BY <2>2, <2>3, <2>5, <2>6, <2>7 DEF PartlyReceived
  <2> QED BY <1>9, <2>1, <2>3, <2>7, <2>8
<1>13. CASE RxStopBit
  <2>1. /\ RxExpired /\ rx_chr.idx = StopIdx /\ rx_armed
        /\ UNCHANGED <<tx_fifo, tx_chr, sent>>
    BY <1>13 DEF RxStopBit, RxExpired, txVars
  <2>2. line = 1 /\ tx_chr.parity = parity_even8(tx_chr.data)
    BY <1>1, <2>1, Sampled DEF TxBit, Idle, ParityIdx, StopIdx
  <2>3. rx_chr.data = tx_chr.data /\ rx_chr.parity = tx_chr.parity
    BY <1>1, <2>1 DEF PartlyReceived
  <2>4. received' = Append(received, tx_chr.data) /\ rx_errs' = rx_errs
    BY <1>13, <2>2, <2>3 DEF RxStopBit
  <2>5. Synchronised' /\ WireCarries' /\ InFlight /\ ~InFlight' /\ ~rx_armed'
    BY <1>1, <1>13, SyncStop
  <2>6. Begun' = Begun /\ PartlyReceived' /\ NoFramingErrors'
    BY <1>1, <2>4, <2>5 DEF Begun, PartlyReceived, NoFramingErrors
  <2> QED BY <1>1, <2>1, <2>4, <2>5, <2>6 DEF DataInTransit
<1>14. CASE Tick
  <2>1. UNCHANGED <<tx_fifo, tx_chr, rx_chr, rx_armed, rx_errs, sent, received>>
    BY <1>14 DEF Tick
  <2>2. Synchronised' /\ WireCarries' /\ InFlight' = InFlight
    BY <1>1, <1>14, SyncTick
  <2>3. Begun' = Begun /\ PartlyReceived' /\ NoFramingErrors'
    BY <1>1, <2>1, <2>2 DEF Begun, PartlyReceived, NoFramingErrors
  <2> QED BY <1>1, <2>1, <2>2, <2>3 DEF DataInTransit
<1> QED BY <1>3, <1>4, <1>5, <1>6, <1>7, <1>8, <1>10, <1>11, <1>12, <1>13, <1>14
        DEF Next, tx_timer_cb, rx_timer_cb

-----------------------------------------------------------------------------
(* The theorems *)

\* The initial state satisfies the invariant.
LEMMA LinkInit == Init => LinkInv
<1> SUFFICES ASSUME Init PROVE LinkInv
  OBVIOUS
<1> USE LinkAssumption, BitsAssumption DEF Init
<1>1. [i \in Pos |-> 0] \in Byte
  BY DEF Byte, Bit
<1>2. TypeOK
  <2>1. tx_chr \in Chr(Stop2Idx) /\ rx_chr \in Chr(StopIdx)
    BY <1>1 DEF Chr, Idle, Stop2Idx, StopIdx, Bit
  <2>2. 0 \in -TxLate .. Period /\ 0 \in 0 .. IrqLate /\ 0 >= -RxLate /\ 1 \in Bit
    BY DEF Bit
  <2>3. /\ line = 1 /\ tx_armed = FALSE /\ tx_due = 0 /\ irq_pending = FALSE /\ irq_age = 0
        /\ rx_armed = FALSE /\ rx_due = 0 /\ rx_errs = 0
    OBVIOUS
  <2>4. tx_fifo \in Seq(Bytes) /\ sent \in Seq(Bytes) /\ received \in Seq(Byte)
    OBVIOUS
  <2>5. rx_due \in Int /\ rx_errs \in Nat
    BY <2>3
  <2> HIDE DEF Init
  <2> QED BY <2>1, <2>2, <2>3, <2>4, <2>5 DEF TypeOK
<1>3. ~InFlight /\ tx_chr.idx = Idle /\ rx_chr.idx = Idle
  BY DEF InFlight
<1>4. Synchronised /\ WireCarries
  BY <1>3 DEF Synchronised, WireCarries
<1>5. DataInTransit /\ NoFramingErrors
  <2>1. sent = Begun \o tx_fifo
    BY <1>3 DEF Begun
  <2> QED BY <2>1 DEF DataInTransit, PartlyReceived, NoFramingErrors
<1> QED BY <1>2, <1>4, <1>5 DEF LinkInv

\* Every step keeps the invariant.
LEMMA LinkStep == LinkInv /\ [Next]_vars => LinkInv'
BY TypeStep, DataStep DEF LinkInv

\* Within the margin, for any clocks and latencies: the receiver samples every
\* bit while it is on the wire, no start, parity or stop bit is found wrong, and
\* every byte written is received, on the wire or queued, in order.
THEOREM LinkCorrect == Spec => []LinkInv
BY LinkInit, LinkStep, PTL DEF Spec

\* The error counters of rx_timer_cb stay 0.
THEOREM NoErrorsCounted == Spec => []NoFramingErrors
<1>1. LinkInv => NoFramingErrors
  BY DEF LinkInv
<1> QED BY <1>1, LinkCorrect, PTL

\* A step of the link is a step of the channel or invisible to it.
LEMMA ChannelStep == LinkInv /\ [Next]_vars => [Channel!Next]_<<sent, received>>
<1> SUFFICES ASSUME LinkInv, [Next]_vars PROVE [Channel!Next]_<<sent, received>>
  OBVIOUS
<1>1. CASE UNCHANGED <<sent, received>>
  BY <1>1
<1>2. CASE \E b \in Bytes : sent' = Append(sent, b) /\ received' = received
  BY <1>2 DEF Channel!Next, Channel!Send
<1>3. CASE sent' = sent /\ InFlight /\ received' = Append(received, tx_chr.data)
  <2>1. /\ sent = Append(received, tx_chr.data) \o tx_fifo
        /\ received \in Seq(Byte) /\ tx_fifo \in Seq(Byte) /\ tx_chr.data \in Byte
    BY <1>3, Numbers, LinkAssumption DEF LinkInv, DataInTransit, Begun, TypeOK
  <2>2. Len(received) < Len(sent) /\ sent[Len(received) + 1] = tx_chr.data
    BY <2>1
  <2> QED BY <1>3, <2>2 DEF Channel!Next, Channel!Deliver
<1> QED BY <1>1, <1>2, <1>3, DataStep

\* Two bit-banged UARTs within the margin implement the byte channel.
THEOREM ImplementsChannel == Spec => IsByteChannelSafe
<1>1. Init => Channel!Init
  BY DEF Init, Channel!Init
<1> QED BY <1>1, LinkInit, LinkStep, ChannelStep, PTL DEF Spec, IsByteChannelSafe, Channel!Safe
=============================================================================
