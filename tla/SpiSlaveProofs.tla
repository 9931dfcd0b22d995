--------------------------- MODULE SpiSlaveProofs ---------------------------
(***************************************************************************)
(* Proofs about SpiSlave, for a ring of any size and any number of packets *)
(* and messages.                                                           *)
(***************************************************************************)
EXTENDS SpiSlave, FiniteSetTheorems, WellFoundedInduction, TLAPS

-----------------------------------------------------------------------------
(* The ring *)

(***************************************************************************)
(* Used counts between 0 and one less than the size, is 0 exactly when     *)
(* head and tail meet, and the place at head is never in use.              *)
(***************************************************************************)
LEMMA UsedRange ==
    ASSUME RingTypeOK
    PROVE  /\ Used \in 0 .. RX_RING_PACKETS - 1
           /\ Used = 0 <=> head = tail
           /\ UsedSlots \subseteq Idx
           /\ head \notin UsedSlots
           /\ Used > 0 => tail \in UsedSlots
    BY SpiAssumption DEF RingTypeOK, Idx, Used, UsedSlots

(***************************************************************************)
(* Advance stays inside the ring.                                          *)
(***************************************************************************)
LEMMA AdvanceIdx == \A i \in Idx : Advance(i) \in Idx
    BY SpiAssumption DEF Advance, Idx

(***************************************************************************)
(* rxring_get_free_idx finds a buffer in every sound ring: at most all but *)
(* one of the buffers are flagged.                                         *)
(***************************************************************************)
LEMMA FreeBuffer ==
    ASSUME RingTypeOK, RingSound
    PROVE  \E k \in Idx : flag[k] = 0
<1> SUFFICES ASSUME \A k \in Idx : flag[k] = 1 PROVE FALSE
    BY DEF RingTypeOK
<1> DEFINE back == [i \in UsedSlots |-> slot[i]]
<1>1. IsFiniteSet(Idx) /\ Cardinality(Idx) = RX_RING_PACKETS
    BY FS_Interval, SpiAssumption DEF Idx
<1>2. UsedSlots \subseteq Idx /\ UsedSlots # Idx
    BY UsedRange DEF RingTypeOK
<1>3. IsFiniteSet(UsedSlots) /\ Cardinality(UsedSlots) < Cardinality(Idx)
    BY <1>1, <1>2, FS_Subset, FS_CardinalityType
<1>4. back \in [UsedSlots -> Idx]
    BY DEF RingSound
<1>5. \A k \in Idx : \E i \in UsedSlots : back[i] = k
    BY DEF RingSound
<1>6. back \in Surjection(UsedSlots, Idx)
    BY <1>4, <1>5 DEF Surjection
<1>7. Cardinality(Idx) <= Cardinality(UsedSlots)
    BY <1>3, <1>6, FS_Surjection
<1>8. Cardinality(Idx) \in Nat /\ Cardinality(UsedSlots) \in Nat
    BY <1>1, <1>3, FS_CardinalityType
<1> QED
    BY <1>3, <1>7, <1>8

(***************************************************************************)
(* RXRING_REMOVE of a ring that is not empty.                              *)
(***************************************************************************)
LEMMA RemoveSound ==
    ASSUME RingTypeOK, RingSound, Used > 0, RXRING_REMOVE
    PROVE  /\ RingTypeOK' /\ RingSound'
           /\ Vacant' = Vacant + 1
           /\ \A k \in Idx : flag[k] = 0 => flag'[k] = 0
<1>1. tail \in UsedSlots /\ slot[tail] \in Idx /\ tail \in Idx
    BY UsedRange DEF RingSound, RingTypeOK
<1>2. RingTypeOK'
    BY <1>1, AdvanceIdx DEF RingTypeOK, RXRING_REMOVE
<1>3. UsedSlots' = UsedSlots \ {tail} /\ Used' = Used - 1
    BY <1>1, UsedRange, SpiAssumption DEF RingTypeOK, RXRING_REMOVE, UsedSlots, Used, Advance, Idx
<1>4. \A i \in UsedSlots' : slot'[i] = slot[i]
    BY <1>3, UsedRange DEF RingTypeOK, RXRING_REMOVE
<1>5. \A k \in Idx : flag'[k] = IF k = slot[tail] THEN 0 ELSE flag[k]
    BY <1>1 DEF RingTypeOK, RXRING_REMOVE
<1>6. RingSound'
  <2>1. \A i \in UsedSlots' : slot'[i] \in Idx /\ flag'[slot'[i]] = 1
      BY <1>1, <1>3, <1>4, <1>5 DEF RingSound
  <2>2. \A i, j \in UsedSlots' : slot'[i] = slot'[j] => i = j
      BY <1>3, <1>4 DEF RingSound
  <2>3. \A k \in Idx : flag'[k] = 1 => \E i \in UsedSlots' : slot'[i] = k
      BY <1>3, <1>4, <1>5 DEF RingSound
  <2> QED
      BY <2>1, <2>2, <2>3 DEF RingSound, Idx
<1> QED
    BY <1>2, <1>3, <1>5, <1>6, UsedRange, SpiAssumption DEF Vacant

(***************************************************************************)
(* RXRING_INSERT of a buffer that is not in the ring, where there is room. *)
(***************************************************************************)
LEMMA InsertSound ==
    ASSUME RingTypeOK, RingSound, Vacant > 0,
           NEW idx \in Idx, flag[idx] = 0, RXRING_INSERT(idx)
    PROVE  RingTypeOK' /\ RingSound'
<1>1. RingTypeOK'
    BY AdvanceIdx DEF RingTypeOK, RXRING_INSERT
<1>2. UsedSlots' = UsedSlots \union {head} /\ head \notin UsedSlots
    BY UsedRange, SpiAssumption
    DEF RingTypeOK, RXRING_INSERT, UsedSlots, Used, Vacant, Advance, Idx
<1>3. slot'[head] = idx /\ \A i \in UsedSlots : slot'[i] = slot[i]
    BY <1>2, UsedRange DEF RingTypeOK, RXRING_INSERT
<1>4. \A k \in Idx : flag'[k] = IF k = idx THEN 1 ELSE flag[k]
    BY DEF RingTypeOK, RXRING_INSERT
<1>5. \A i \in UsedSlots : slot[i] \in Idx /\ slot[i] # idx
    BY DEF RingSound
<1>6. RingSound'
  <2>1. \A i \in UsedSlots' : slot'[i] \in Idx /\ flag'[slot'[i]] = 1
      BY <1>2, <1>3, <1>4, <1>5 DEF RingSound
  <2>2. \A i, j \in UsedSlots' : slot'[i] = slot'[j] => i = j
      BY <1>2, <1>3, <1>5 DEF RingSound
  <2>3. \A k \in Idx : flag'[k] = 1 => \E i \in UsedSlots' : slot'[i] = k
      BY <1>2, <1>3, <1>4 DEF RingSound
  <2> QED
      BY <2>1, <2>2, <2>3 DEF RingSound, Idx
<1> QED
    BY <1>1, <1>6

(***************************************************************************)
(* RXRING_CLEAR, whatever the ring was.                                    *)
(***************************************************************************)
LEMMA ClearSound ==
    ASSUME RXRING_CLEAR
    PROVE  RingTypeOK' /\ RingSound' /\ Vacant' > 0 /\ \A k \in Idx : flag'[k] = 0
<1>1. RingTypeOK' /\ \A k \in Idx : flag'[k] = 0
    BY SpiAssumption DEF RXRING_CLEAR, RingTypeOK, Idx
<1>2. UsedSlots' = {} /\ Used' = 0
    BY DEF RXRING_CLEAR, UsedSlots, Used
<1> QED
    BY <1>1, <1>2, SpiAssumption DEF RingSound, Vacant, Idx

-----------------------------------------------------------------------------
(* The ring stays sound whoever works on it *)

(***************************************************************************)
(* rxring_get_free_idx answers with a buffer whose flag is clear.          *)
(***************************************************************************)
LEMMA FreeIdxFound ==
    ASSUME NEW f \in [Idx -> {0, 1}], \E k \in Idx : f[k] = 0
    PROVE  rxring_get_free_idx(f) \in Idx /\ f[rxring_get_free_idx(f)] = 0
<1> DEFINE Free == {i \in Idx : f[i] = 0}
           Less == {ss \in Nat \X Nat : ss[1] < ss[2]}
<1>1. Free \subseteq Nat /\ Free # {}
    BY SpiAssumption DEF Idx
<1>2. PICK i \in Free : \A j \in Free : ~(<<j, i>> \in Less)
  <2> HIDE DEF Less, Free
  <2>1. IsWellFoundedOn(Less, Nat)
      BY NatLessThanWellFounded DEF Less, OpToRel
  <2> QED
      BY <1>1, <2>1, WFMin
<1>3. \A j \in Free : i <= j
  <2>1. SUFFICES ASSUME NEW j \in Free PROVE i <= j
      OBVIOUS
  <2>2. i \in Nat /\ j \in Nat
      BY <1>1
  <2>3. ~(<<j, i>> \in Less)
      BY <1>2
  <2>4. ~(j < i)
      BY <2>2, <2>3
  <2> QED
      BY <2>2, <2>4
<1> QED
    BY <1>3 DEF rxring_get_free_idx

(***************************************************************************)
(* Steps that do not touch the ring.                                       *)
(***************************************************************************)
LEMMA SameRing ==
    ASSUME RingTypeOK, RingSound, UNCHANGED ringVars
    PROVE  RingTypeOK' /\ RingSound' /\ Vacant' = Vacant /\ flag' = flag
    BY DEF ringVars, RingTypeOK, RingSound, UsedSlots, Used, Vacant

(***************************************************************************)
(* The initial ring is that of RXRING_CLEAR.                               *)
(***************************************************************************)
LEMMA RingInit == Init => RingInv
<1> SUFFICES ASSUME Init PROVE RingInv
    OBVIOUS
<1>0. BoolTypeOK
    BY DEF Init, BoolTypeOK
<1>1. TypeOK
    BY <1>0, SpiAssumption DEF Init, TypeOK, RingTypeOK, Idx
<1>2. UsedSlots = {}
    BY DEF Init, UsedSlots
<1>3. RingSound
    BY <1>2 DEF Init, RingSound, Idx
<1> QED
    BY <1>1, <1>3 DEF Init, RingInv, BufferReserved, NoImpossibleBranch

(***************************************************************************)
(* The Boolean variables keep their type.                                  *)
(***************************************************************************)
LEMMA BoolStep == BoolTypeOK /\ [Next]_vars => BoolTypeOK'
<1> SUFFICES ASSUME BoolTypeOK, [Next]_vars PROVE BoolTypeOK'
    OBVIOUS
<1> USE DEF BoolTypeOK, thrdVars, histVars
<1>1. CASE ThrdStart
    BY <1>1 DEF ThrdStart, ResetStats
<1>2. CASE ThrdNeverRuns
    BY <1>2 DEF ThrdNeverRuns
<1>3. CASE ThrdClear
    BY <1>3 DEF ThrdClear
<1>4. CASE TakeBuffer
    BY <1>4 DEF TakeBuffer
<1>5. CASE CheckLost
    BY <1>5 DEF CheckLost
<1>6. ASSUME NEW sync \in BOOLEAN, paketizer(sync) PROVE BoolTypeOK'
    BY <1>6 DEF paketizer
<1>7. CASE StopFilling
    BY <1>7 DEF StopFilling
<1>8. CASE InsertPacket
    BY <1>8 DEF InsertPacket
<1>9. CASE ThrdExit
    BY <1>9 DEF ThrdExit
<1>10. CASE PrepareMessage
    BY <1>10 DEF PrepareMessage
<1>11. CASE PrepareReset
    BY <1>11 DEF PrepareReset, ResetStats
<1>12. CASE PrepareClear
    BY <1>12 DEF PrepareClear
<1>13. CASE PrepareStamp
    BY <1>13 DEF PrepareStamp
<1>14. CASE CreateThread
    BY <1>14 DEF CreateThread
<1>15. CASE CreateFails
    BY <1>15 DEF CreateFails
<1>16. CASE AssignThread
    BY <1>16 DEF AssignThread
<1>17. CASE FindEmpty
    BY <1>17 DEF FindEmpty
<1>18. CASE PrepareToWait
    BY <1>18 DEF PrepareToWait
<1>19. CASE Interrupted
    BY <1>19 DEF Interrupted
<1>20. CASE TransferPacket
    BY <1>20 DEF TransferPacket
<1>21. CASE Pause
    BY <1>21 DEF Pause
<1>22. CASE RemoveStop
    BY <1>22 DEF RemoveStop
<1>26. CASE RemoveTest
    BY <1>26 DEF RemoveTest
<1>23. CASE RemoveJoined
    BY <1>23 DEF RemoveJoined
<1>24. CASE RemoveFree
    BY <1>24 DEF RemoveFree
<1>25. CASE UNCHANGED vars
    BY <1>25 DEF vars, remVars
<1> QED
    BY <1>1, <1>2, <1>3, <1>4, <1>5, <1>6, <1>7, <1>8, <1>9, <1>10, <1>11, <1>12, <1>13, <1>14, <1>15, <1>16, <1>17, <1>18, <1>19, <1>20, <1>21, <1>22, <1>23, <1>24, <1>25, <1>26
    DEF Next, rx_thrd_fn, spi_imx_prepare_message, spi_imx_transfer, spi_imx_remove

(***************************************************************************)
(* Every step keeps the ring sound and the thread's buffer reserved.       *)
(***************************************************************************)
LEMMA RingStep == RingInv /\ [Next]_vars => RingInv'
<1> SUFFICES ASSUME RingInv, [Next]_vars PROVE RingInv'
    OBVIOUS
<1> USE DEF RingInv, remVars
<1>0. RingTypeOK /\ RingSound /\ TypeOK /\ BufferReserved /\ NoImpossibleBranch
    BY DEF TypeOK
<1>bool. BoolTypeOK'
    BY <1>0, BoolStep DEF TypeOK
<1>same. UNCHANGED ringVars => RingTypeOK' /\ RingSound' /\ Vacant' = Vacant /\ flag' = flag
    BY <1>0, SameRing
<1>1. CASE ThrdStart
    BY <1>0, <1>1, <1>same, <1>bool DEF ThrdStart, ResetStats, histVars, TypeOK,
       BufferReserved, NoImpossibleBranch
<1>2. CASE ThrdNeverRuns
    BY <1>0, <1>2, <1>same, <1>bool DEF ThrdNeverRuns, histVars, TypeOK,
       BufferReserved, NoImpossibleBranch
<1>3. CASE ThrdClear
  <2>1. RingTypeOK' /\ RingSound'
      BY <1>3, ClearSound DEF ThrdClear
  <2> QED
      BY <1>0, <1>3, <1>bool, <2>1 DEF ThrdClear, histVars, TypeOK,
       BufferReserved, NoImpossibleBranch
<1>4. CASE TakeBuffer
  <2>1. RingTypeOK' /\ RingSound' /\ Vacant' > 0 /\ pkt_lost' \in Nat
    <3>1. CASE Vacant = 0
      <4>1. Used > 0 /\ RXRING_REMOVE /\ pkt_lost' = pkt_lost + 1
          BY <1>0, <1>4, <3>1, UsedRange, SpiAssumption DEF TakeBuffer, Vacant
      <4> QED
          BY <1>0, <3>1, <4>1, RemoveSound DEF TypeOK
    <3>2. CASE Vacant # 0
      <4>1. UNCHANGED <<ringVars, pkt_lost>>
          BY <1>4, <3>2 DEF TakeBuffer
      <4>2. Vacant \in Nat
          BY <1>0, UsedRange, SpiAssumption DEF Vacant
      <4> QED
          BY <1>0, <1>same, <3>2, <4>1, <4>2 DEF TypeOK
    <3> QED
        BY <3>1, <3>2
  <2>2. \E k \in Idx : flag'[k] = 0
    <3>1. PICK k \in Idx : flag[k] = 0
        BY <1>0, FreeBuffer
    <3>2. CASE Vacant = 0
      <4>1. Used > 0 /\ RXRING_REMOVE
          BY <1>0, <1>4, <3>2, UsedRange, SpiAssumption DEF TakeBuffer, Vacant
      <4> QED
          BY <1>0, <3>1, <4>1, RemoveSound
    <3>3. CASE Vacant # 0
        BY <1>4, <1>same, <3>1, <3>3 DEF TakeBuffer
    <3> QED
        BY <3>2, <3>3
  <2>3. t_idx' \in Idx /\ flag'[t_idx'] = 0
      BY <1>4, <2>1, <2>2, FreeIdxFound DEF TakeBuffer, RingTypeOK
  <2>4. t_pc' = "check"
      BY <1>4, <2>3, SpiAssumption DEF TakeBuffer, Idx
  <2> QED
      BY <1>0, <1>4, <1>bool, <2>1, <2>3, <2>4
      DEF TakeBuffer, histVars, TypeOK,
       BufferReserved, NoImpossibleBranch
<1>5. CASE CheckLost
    BY <1>0, <1>5, <1>same, <1>bool, SpiAssumption DEF CheckLost, TypeOK, BufferReserved, NoImpossibleBranch
<1>6. ASSUME NEW sync \in BOOLEAN, paketizer(sync) PROVE RingInv'
  <2>1. t_cnt' \in 0 .. PACKET_SIZE_DWORD - 1 /\ count' \in Nat /\ packets' \in [Idx -> Nat]
      BY <1>0, <1>6, SpiAssumption DEF paketizer, TypeOK
  <2>2. t_pc' \in {"fill", "insert"}
      BY <1>0, <1>6 DEF paketizer, TypeOK
  <2> QED
      BY <1>0, <1>6, <1>same, <1>bool, <2>1, <2>2
      DEF paketizer, TypeOK, BufferReserved, NoImpossibleBranch
<1>7. CASE StopFilling
    BY <1>0, <1>7, <1>same, <1>bool DEF StopFilling, histVars, TypeOK,
       BufferReserved, NoImpossibleBranch
<1>8. CASE InsertPacket
  <2>1. RingTypeOK' /\ RingSound'
      BY <1>0, <1>8, InsertSound DEF InsertPacket, BufferReserved
  <2>2. t_pc' \in {"take", "exit"}
      BY <1>8 DEF InsertPacket
  <2> QED
      BY <1>0, <1>8, <1>bool, <2>1, <2>2 DEF InsertPacket, histVars, TypeOK,
       BufferReserved, NoImpossibleBranch
<1>9. CASE ThrdExit
    BY <1>0, <1>9, <1>same, <1>bool DEF ThrdExit, histVars, TypeOK,
       BufferReserved, NoImpossibleBranch
<1>10. CASE PrepareMessage
    BY <1>0, <1>10, <1>same, <1>bool DEF PrepareMessage, thrdVars, TypeOK, BufferReserved, NoImpossibleBranch
<1>11. CASE PrepareReset
    BY <1>0, <1>11, <1>same, <1>bool
    DEF PrepareReset, ResetStats, thrdVars, histVars, TypeOK, BufferReserved, NoImpossibleBranch
<1>12. CASE PrepareClear
  <2>1. RingTypeOK' /\ RingSound' /\ Vacant' > 0 /\ \A k \in Idx : flag'[k] = 0
      BY <1>12, ClearSound DEF PrepareClear
  <2> QED
      BY <1>0, <1>12, <1>bool, <2>1
      DEF PrepareClear, thrdVars, histVars, TypeOK, BufferReserved, NoImpossibleBranch
<1>13. CASE PrepareStamp
    BY <1>0, <1>13, <1>same, <1>bool DEF PrepareStamp, thrdVars, TypeOK, BufferReserved, NoImpossibleBranch
<1>14. CASE CreateThread \/ CreateFails \/ AssignThread
    BY <1>0, <1>14, <1>same, <1>bool DEF CreateThread, CreateFails, AssignThread, thrdVars, histVars,
       TypeOK, BufferReserved, NoImpossibleBranch
<1>15. CASE FindEmpty \/ PrepareToWait \/ Interrupted
    BY <1>0, <1>15, <1>same, <1>bool DEF FindEmpty, PrepareToWait, Interrupted, thrdVars, histVars,
       TypeOK, BufferReserved, NoImpossibleBranch
<1>16. CASE TransferPacket
  <2>1. slot[tail] \in Idx
      BY <1>0, <1>16, UsedRange DEF TransferPacket, RingSound
  <2>2. RXRING_REMOVE /\ last' = packets[slot[tail]] /\ m_pc' \in {"transfer", "idle"}
      BY <1>16, <2>1, SpiAssumption DEF TransferPacket, Idx
  <2>3. /\ RingTypeOK' /\ RingSound' /\ Vacant' = Vacant + 1
        /\ \A k \in Idx : flag[k] = 0 => flag'[k] = 0
      BY <1>0, <1>16, <2>2, RemoveSound DEF TransferPacket
  <2>4. Vacant \in Nat
      BY <1>0, UsedRange, SpiAssumption DEF Vacant
  <2>5. BufferReserved'
      BY <1>0, <1>16, <2>3, <2>4 DEF TransferPacket, thrdVars, BufferReserved
  <2> QED
      BY <1>0, <1>16, <1>bool, <2>1, <2>2, <2>3, <2>5
      DEF TransferPacket, thrdVars, TypeOK, NoImpossibleBranch
<1>17. CASE Pause
    BY <1>0, <1>17, <1>same, <1>bool DEF Pause, thrdVars, TypeOK, BufferReserved, NoImpossibleBranch
<1>18. CASE RemoveTest \/ RemoveStop
    BY <1>0, <1>18, <1>same, <1>bool DEF RemoveTest, RemoveStop, thrdVars, TypeOK, BufferReserved,
       NoImpossibleBranch
<1>19. CASE RemoveJoined \/ RemoveFree
    BY <1>0, <1>19, <1>same, <1>bool DEF RemoveJoined, RemoveFree, thrdVars, histVars,
       TypeOK, BufferReserved, NoImpossibleBranch
<1>20. CASE UNCHANGED vars
    BY <1>0, <1>20, <1>same, <1>bool DEF vars, thrdVars, histVars, TypeOK, BufferReserved,
       NoImpossibleBranch
<1> QED
    BY <1>1, <1>2, <1>3, <1>4, <1>5, <1>6, <1>7, <1>8, <1>9, <1>10, <1>11, <1>12, <1>13,
       <1>14, <1>15, <1>16, <1>17, <1>18, <1>19, <1>20
    DEF Next, rx_thrd_fn, spi_imx_prepare_message, spi_imx_transfer, spi_imx_remove

(***************************************************************************)
(* The invariant of the ring.                                              *)
(***************************************************************************)
THEOREM RingCorrect == Spec => []RingInv
    BY RingInit, RingStep, PTL DEF Spec

(***************************************************************************)
(* The places in use always name different buffers and exactly those are   *)
(* flagged, for every size of the ring (RXRING_INSERT, _REMOVE, _CLEAR).   *)
(***************************************************************************)
THEOREM RingStaysSound == Spec => []RingSound
<1>1. RingInv => RingSound
    BY DEF RingInv
<1> QED
    BY <1>1, RingCorrect, PTL

(***************************************************************************)
(* "Can not be here, but...": neither "No free space for packets!" nor     *)
(* "Bad RX ring" is ever reached.                                          *)
(***************************************************************************)
THEOREM CanNotBeHere == Spec => []NoImpossibleBranch
<1>1. RingInv => NoImpossibleBranch
    BY DEF RingInv
<1> QED
    BY <1>1, RingCorrect, PTL

-----------------------------------------------------------------------------
(* The receive thread, its pointer and its end *)

\* The thread ends only because it gave up or was told to.
EndsForReason ==
    /\ should_stop => stopped
    /\ t_pc = "insert" /\ ~t_whole => stopped
    /\ t_pc = "exit" => gave_up \/ stopped

\* The pointer of a message that is creating its thread is NULL; where a
\* message goes on to the transfer, it has a thread.
PumpHasThread ==
    /\ rx_thrd \in {0, threads}
    /\ Alive => threads > 0
    /\ m_pc \in {"create", "assign"} => rx_thrd = 0
    /\ m_pc \in {"assign", "transfer", "wait", "asleep"} => Alive \/ ended \/ overtaken
    /\ m_pc = "assign" => threads > 0 /\ (Alive \/ gave_up \/ stopped)

\* Between remove's two reads of the pointer its thread ends only by giving
\* up; a thread that is not told to stop is one the test did not see.
RemoveStops ==
    /\ r_pc \in {"bound", "stop"} => ~stopped
    /\ overtaken => gave_up \/ stopped
    /\ r_pc = "stop" => \/ Alive /\ r_ptr = threads /\ rx_thrd = threads
                        \/ gave_up /\ r_ptr # 0 /\ (Alive /\ r_ptr # threads => unseen)
    /\ r_pc = "joining" /\ Alive => should_stop \/ unseen
    /\ r_pc \in {"unregister", "freed"} /\ Alive => unseen
    /\ r_pc = "oops" => gave_up

ThreadInv == OneThread /\ EndsForReason /\ PumpHasThread /\ RemoveStops

(***************************************************************************)
(* Every step of the thread, of the message pump and of remove keeps it;   *)
(* the thread never leaves through "No free space for packets!".           *)
(***************************************************************************)
LEMMA ThreadStep == TypeOK /\ NoImpossibleBranch /\ ThreadInv /\ [Next]_vars => ThreadInv'
<1> SUFFICES ASSUME TypeOK, NoImpossibleBranch, ThreadInv, [Next]_vars PROVE ThreadInv'
    OBVIOUS
<1>0. BoolTypeOK /\ threads \in Nat /\ rx_thrd \in 0 .. threads /\ r_ptr \in 0 .. threads
    BY DEF TypeOK
<1> USE DEF BoolTypeOK, NoImpossibleBranch, ThreadInv, OneThread, EndsForReason,
            PumpHasThread, RemoveStops, Alive, thrdVars, histVars, remVars
<1>1. CASE ThrdStart
    BY <1>0, <1>1 DEF ThrdStart
<1>2. CASE ThrdNeverRuns
    BY <1>0, <1>2 DEF ThrdNeverRuns
<1>3. CASE ThrdClear
    BY <1>0, <1>3 DEF ThrdClear
<1>4. CASE TakeBuffer
    BY <1>0, <1>4 DEF TakeBuffer
<1>5. CASE CheckLost
    BY <1>0, <1>5 DEF CheckLost
<1>6. ASSUME NEW sync \in BOOLEAN, paketizer(sync) PROVE ThreadInv'
    BY <1>0, <1>6 DEF paketizer
<1>7. CASE StopFilling
    BY <1>0, <1>7 DEF StopFilling
<1>8. CASE InsertPacket
    BY <1>0, <1>8 DEF InsertPacket
<1>9. CASE ThrdExit
    BY <1>0, <1>9 DEF ThrdExit
<1>10. CASE PrepareMessage
    BY <1>0, <1>10 DEF PrepareMessage
<1>11. CASE PrepareReset
    BY <1>0, <1>11 DEF PrepareReset
<1>12. CASE PrepareClear
    BY <1>0, <1>12 DEF PrepareClear
<1>13. CASE PrepareStamp
    BY <1>0, <1>13 DEF PrepareStamp
<1>14. CASE CreateThread
  <2>1. /\ m_pc = "create" /\ m_pc' = "assign" /\ t_pc' = "start" /\ threads' = threads + 1
        /\ ~should_stop' /\ (r_pc # "bound" => unseen')
        /\ UNCHANGED <<rx_thrd, t_whole, r_pc, r_ptr, stopped, gave_up, ended, overtaken>>
      BY <1>0, <1>14 DEF CreateThread
  <2>2. OneThread' /\ EndsForReason' /\ PumpHasThread'
      BY <1>0, <2>1
  <2>3. RemoveStops'
      BY <1>0, <2>1
  <2> QED
      BY <2>2, <2>3
<1>15. CASE CreateFails
    BY <1>0, <1>15 DEF CreateFails
<1>16. CASE AssignThread
    BY <1>0, <1>16 DEF AssignThread
<1>17. CASE FindEmpty
    BY <1>0, <1>17 DEF FindEmpty
<1>18. CASE PrepareToWait
    BY <1>0, <1>18 DEF PrepareToWait
<1>19. CASE Interrupted
    BY <1>0, <1>19 DEF Interrupted
<1>20. CASE TransferPacket
    BY <1>0, <1>20 DEF TransferPacket
<1>21. CASE Pause
    BY <1>0, <1>21 DEF Pause
<1>22. CASE RemoveStop
    BY <1>0, <1>22 DEF RemoveStop
<1>26. CASE RemoveTest
    BY <1>0, <1>26 DEF RemoveTest
<1>23. CASE RemoveJoined
    BY <1>0, <1>23 DEF RemoveJoined
<1>24. CASE RemoveFree
    BY <1>0, <1>24 DEF RemoveFree
<1>25. CASE UNCHANGED vars
    BY <1>0, <1>25 DEF vars, remVars
<1> QED
    BY <1>1, <1>2, <1>3, <1>4, <1>5, <1>6, <1>7, <1>8, <1>9, <1>10, <1>11, <1>12, <1>13, <1>14, <1>15, <1>16, <1>17, <1>18, <1>19, <1>20, <1>21, <1>22, <1>23, <1>24, <1>25, <1>26
    DEF Next, rx_thrd_fn, spi_imx_prepare_message, spi_imx_transfer, spi_imx_remove

(***************************************************************************)
(* The invariant of the thread.                                            *)
(***************************************************************************)
THEOREM ThreadCorrect == Spec => []ThreadInv
<1>1. Init => ThreadInv
    BY DEF Init, ThreadInv, OneThread, EndsForReason, PumpHasThread, RemoveStops, Alive
<1>2. RingInv => TypeOK /\ NoImpossibleBranch
    BY DEF RingInv
<1> QED
    BY <1>1, <1>2, ThreadStep, RingCorrect, PTL DEF Spec

(***************************************************************************)
(* spi_imx_prepare_message never starts a second receive thread.           *)
(***************************************************************************)
THEOREM OnlyOneThread == Spec => []OneThread
<1>1. ThreadInv => OneThread
    BY DEF ThreadInv
<1> QED
    BY <1>1, ThreadCorrect, PTL

(***************************************************************************)
(* A sleeping transfer has a thread, unless the thread ended after the     *)
(* message tested rx_thrd or before init_rx_thread stored the pointer.     *)
(***************************************************************************)
THEOREM SleeperIsServed == Spec => []SleeperHasThread
<1>1. ThreadInv => SleeperHasThread
    BY DEF ThreadInv, PumpHasThread, SleeperHasThread
<1> QED
    BY <1>1, ThreadCorrect, PTL

(***************************************************************************)
(* spi_imx_remove frees the ring after the thread has ended, unless its    *)
(* test of rx_thrd could not see that thread; its kthread_stop goes wrong  *)
(* only if a thread gave up.                                               *)
(***************************************************************************)
THEOREM FreedAfterThread == Spec => []NoThreadAfterFree
<1>1. ThreadInv => NoThreadAfterFree
    BY DEF ThreadInv, RemoveStops, NoThreadAfterFree
<1> QED
    BY <1>1, ThreadCorrect, PTL

-----------------------------------------------------------------------------
(* What the ring holds *)

\* The place of the packet that k older ones precede, without the modulus.
Place(k) == IF tail + k < RX_RING_PACKETS THEN tail + k ELSE tail + k - RX_RING_PACKETS

\* The number of the newest packet that was queued.
Newest == IF t_pc = "insert" THEN count - 1 ELSE count

(***************************************************************************)
(* What makes RingHoldsNewest inductive: the buffer about to be inserted   *)
(* holds the packet just completed.                                        *)
(***************************************************************************)
NewestInv ==
    ~stopped => /\ last <= Newest - Used
                /\ \A k \in 0 .. Used - 1 : packets[slot[Place(k)]] = Newest - Used + 1 + k
                /\ t_pc = "insert" => packets[t_idx] = count

(***************************************************************************)
(* Adding less than the size of the ring wraps at most once.               *)
(***************************************************************************)
LEMMA WrapsOnce ==
    ASSUME NEW n \in Nat \ {0}, NEW i \in 0 .. n - 1, NEW k \in 0 .. n - 1
    PROVE  (i + k) % n = IF i + k < n THEN i + k ELSE i + k - n
    OBVIOUS

(***************************************************************************)
(* The first Used places from tail on are those in use; the next one is    *)
(* head.                                                                   *)
(***************************************************************************)
LEMMA PlacesUsed ==
    ASSUME RingTypeOK
    PROVE  /\ \A k \in 0 .. Used - 1 : Place(k) \in UsedSlots
           /\ Place(Used) = head
           /\ Used > 0 => Place(0) = tail
    BY SpiAssumption DEF RingTypeOK, Idx, Used, UsedSlots, Place

(***************************************************************************)
(* RXRING_REMOVE takes the first place and keeps the order of the others.  *)
(***************************************************************************)
LEMMA RemovePlaces ==
    ASSUME RingTypeOK, RingSound, Used > 0, RXRING_REMOVE
    PROVE  /\ Used' = Used - 1
           /\ \A k \in 0 .. Used - 2 : Place(k)' = Place(k + 1) /\ slot'[Place(k)'] = slot[Place(k + 1)]
<1>1. Used' = Used - 1 /\ \A k \in 0 .. Used - 2 : Place(k)' = Place(k + 1)
    BY UsedRange, SpiAssumption DEF RingTypeOK, RXRING_REMOVE, Used, Advance, Idx, Place
<1>2. \A k \in 0 .. Used - 2 : Place(k + 1) \in Idx /\ Place(k + 1) # tail
    BY UsedRange, SpiAssumption DEF RingTypeOK, Used, Idx, Place
<1>3. \A k \in 0 .. Used - 2 : slot'[Place(k + 1)] = slot[Place(k + 1)]
    BY <1>2 DEF RingTypeOK, RXRING_REMOVE
<1> QED
    BY <1>1, <1>3

(***************************************************************************)
(* RXRING_INSERT puts the buffer behind the others and leaves those alone. *)
(***************************************************************************)
LEMMA InsertPlaces ==
    ASSUME RingTypeOK, Vacant > 0, NEW idx \in Idx, RXRING_INSERT(idx)
    PROVE  /\ Used' = Used + 1
           /\ \A k \in 0 .. Used : Place(k)' = Place(k)
           /\ slot'[Place(Used)] = idx
           /\ \A k \in 0 .. Used - 1 : slot'[Place(k)] = slot[Place(k)]
<1>1. Used' = Used + 1 /\ \A k \in 0 .. Used : Place(k)' = Place(k)
    BY UsedRange, SpiAssumption DEF RingTypeOK, RXRING_INSERT, Used, Vacant, Advance, Idx, Place
<1>2. Place(Used) = head /\ \A k \in 0 .. Used - 1 : Place(k) \in Idx /\ Place(k) # head
    BY PlacesUsed, UsedRange
<1>3. slot'[head] = idx /\ \A i \in Idx : i # head => slot'[i] = slot[i]
    BY DEF RingTypeOK, RXRING_INSERT
<1> QED
    BY <1>1, <1>2, <1>3

(***************************************************************************)
(* A step that leaves the ring, the packets and their numbers alone and    *)
(* neither reaches nor leaves "insert" preserves NewestInv.                *)
(***************************************************************************)
LEMMA NewestFrame ==
    ASSUME NewestInv, UNCHANGED <<ringVars, packets, count, last>>,
           stopped \in BOOLEAN, stopped => stopped',
           t_pc' = "insert" <=> t_pc = "insert", t_pc = "insert" => t_idx' = t_idx
    PROVE  NewestInv'
<1>1. Used' = Used /\ Newest' = Newest /\ slot' = slot /\ \A k : Place(k)' = Place(k)
    BY DEF ringVars, Used, Newest, Place
<1> QED
    BY <1>1 DEF NewestInv

(***************************************************************************)
(* Taking the oldest packet out, to transfer or to drop it, preserves      *)
(* NewestInv: what was transferred is older than what stays.               *)
(***************************************************************************)
LEMMA NewestRemove ==
    ASSUME RingInv, NewestInv, Used > 0, RXRING_REMOVE, UNCHANGED <<packets, count>>,
           UNCHANGED stopped, last' \in {last, packets[slot[tail]]},
           t_pc' = "insert" <=> t_pc = "insert", t_pc = "insert" => t_idx' = t_idx
    PROVE  NewestInv'
<1>0. RingTypeOK /\ RingSound /\ count \in Nat /\ last \in Nat
    BY DEF RingInv, TypeOK
<1>1. /\ Used' = Used - 1 /\ Used \in Nat /\ Newest' = Newest /\ Newest \in Int
      /\ \A k \in 0 .. Used - 2 : slot'[Place(k)'] = slot[Place(k + 1)]
    BY <1>0, RemovePlaces, UsedRange, SpiAssumption DEF Newest
<1> SUFFICES ASSUME ~stopped
             PROVE  /\ last' <= Newest' - Used'
                    /\ \A k \in 0 .. Used' - 1 : packets'[slot'[Place(k)']] = Newest' - Used' + 1 + k
                    /\ t_pc' = "insert" => packets'[t_idx'] = count'
    BY DEF NewestInv
<1>2. /\ last <= Newest - Used
      /\ \A k \in 0 .. Used - 1 : packets[slot[Place(k)]] = Newest - Used + 1 + k
      /\ t_pc = "insert" => packets[t_idx] = count
    BY DEF NewestInv
<1>3. packets[slot[tail]] = Newest - Used + 1
  <2>1. Place(0) = tail /\ 0 \in 0 .. Used - 1
      BY <1>0, <1>1, PlacesUsed
  <2>2. packets[slot[Place(0)]] = Newest - Used + 1 + 0
      BY <1>2, <2>1
  <2> QED
      BY <1>1, <2>1, <2>2
<1>4. last' <= Newest' - Used'
    BY <1>0, <1>1, <1>2, <1>3
<1>5. ASSUME NEW k \in 0 .. Used' - 1
      PROVE  packets'[slot'[Place(k)']] = Newest' - Used' + 1 + k
  <2>1. k \in 0 .. Used - 2 /\ k + 1 \in 0 .. Used - 1
      BY <1>1
  <2>2. packets[slot[Place(k + 1)]] = Newest - Used + 1 + (k + 1)
      BY <1>2, <2>1
  <2>3. slot'[Place(k)'] = slot[Place(k + 1)]
      BY <1>1, <2>1
  <2> QED
      BY <1>1, <2>1, <2>2, <2>3
<1> QED
    BY <1>2, <1>4, <1>5

(***************************************************************************)
(* An empty ring holds nothing that could be wrong.                        *)
(***************************************************************************)
LEMMA NewestClear ==
    ASSUME RingInv, NewestInv, RXRING_CLEAR, UNCHANGED <<packets, count, last, stopped>>,
           t_pc' = "insert" <=> t_pc = "insert", t_pc = "insert" => t_idx' = t_idx
    PROVE  NewestInv'
<1>1. Used' = 0 /\ Newest' = Newest
    BY DEF RXRING_CLEAR, Used, Newest
<1>2. Used \in Nat /\ Newest \in Int /\ last \in Nat
    BY UsedRange, SpiAssumption DEF RingInv, TypeOK, Newest
<1> QED
    BY <1>1, <1>2 DEF NewestInv

(***************************************************************************)
(* Every step preserves NewestInv.                                         *)
(***************************************************************************)
LEMMA NewestStep ==
    RingInv /\ ThreadInv /\ NewestInv /\ [Next]_vars => NewestInv'
<1> SUFFICES ASSUME RingInv, ThreadInv, NewestInv, [Next]_vars PROVE NewestInv'
    OBVIOUS
<1>0. /\ RingTypeOK /\ RingSound /\ BufferReserved /\ stopped \in BOOLEAN
      /\ count \in Nat /\ last \in Nat /\ packets \in [Idx -> Nat] /\ t_idx \in Idx \union {-1}
      /\ Used \in Nat /\ Newest \in Int
    BY UsedRange, SpiAssumption DEF RingInv, TypeOK, BoolTypeOK, Newest
<1>1. CASE \/ ThrdStart \/ ThrdNeverRuns \/ CheckLost \/ ThrdExit
           \/ PrepareMessage \/ PrepareReset \/ PrepareStamp \/ CreateFails \/ AssignThread
           \/ FindEmpty \/ PrepareToWait \/ Interrupted \/ Pause
           \/ RemoveTest \/ RemoveStop \/ RemoveJoined \/ RemoveFree \/ UNCHANGED vars
  <2>1. UNCHANGED <<ringVars, packets, count, last>> /\ (stopped => stopped')
      BY <1>1, <1>0 DEF ThrdStart, ThrdNeverRuns, CheckLost, ThrdExit, PrepareMessage, PrepareReset,
         PrepareStamp, CreateFails, AssignThread, FindEmpty, PrepareToWait, Interrupted,
         Pause, RemoveTest, RemoveStop, RemoveJoined, RemoveFree, vars, histVars
  <2>2. (t_pc' = "insert" <=> t_pc = "insert") /\ (t_pc = "insert" => t_idx' = t_idx)
      BY <1>1 DEF ThrdStart, ThrdNeverRuns, CheckLost, ThrdExit, PrepareMessage, PrepareReset,
         PrepareStamp, CreateFails, AssignThread, FindEmpty, PrepareToWait, Interrupted,
         Pause, RemoveTest, RemoveStop, RemoveJoined, RemoveFree, vars, thrdVars
  <2> QED
      BY <1>0, <2>1, <2>2, NewestFrame
<1>2. CASE CreateThread
  <2>1. t_pc # "insert" /\ t_pc' # "insert"
      BY <1>2 DEF CreateThread, ThreadInv, OneThread, Alive
  <2> QED
      BY <1>0, <1>2, <2>1, NewestFrame DEF CreateThread
<1>3. CASE ThrdClear \/ PrepareClear
  <2>1. RXRING_CLEAR /\ UNCHANGED <<packets, count, last, stopped>>
      BY <1>3 DEF ThrdClear, PrepareClear, histVars
  <2>2. (t_pc' = "insert" <=> t_pc = "insert") /\ t_idx' = t_idx
      BY <1>3 DEF ThrdClear, PrepareClear, thrdVars
  <2> QED
      BY <2>1, <2>2, NewestClear
<1>4. CASE TakeBuffer
  <2>1. UNCHANGED <<packets, count, last, stopped>> /\ t_pc # "insert" /\ t_pc' # "insert"
      BY <1>4 DEF TakeBuffer, histVars
  <2>2. CASE Vacant = 0
    <3>1. Used > 0 /\ RXRING_REMOVE
        BY <1>0, <1>4, <2>2, UsedRange, SpiAssumption DEF TakeBuffer, Vacant
    <3> QED
        BY <2>1, <3>1, NewestRemove
  <2>3. CASE Vacant # 0
      BY <1>0, <1>4, <2>1, <2>3, NewestFrame DEF TakeBuffer
  <2> QED
      BY <2>2, <2>3
<1>5. ASSUME NEW sync \in BOOLEAN, paketizer(sync) PROVE NewestInv'
  <2>1. /\ t_pc = "fill" /\ t_idx \in Idx /\ flag[t_idx] = 0 /\ t_idx' = t_idx
        /\ UNCHANGED <<ringVars, last, stopped>>
      BY <1>5, <1>0 DEF paketizer, BufferReserved
  <2>2. Used' = Used /\ slot' = slot /\ \A k : Place(k)' = Place(k)
      BY <2>1 DEF ringVars, Used, Place
  <2>3. \A k \in 0 .. Used - 1 : slot[Place(k)] \in Idx /\ slot[Place(k)] # t_idx
      BY <1>0, <2>1, PlacesUsed DEF RingSound
  <2>4. \A k \in 0 .. Used - 1 : packets'[slot[Place(k)]] = packets[slot[Place(k)]]
      BY <1>0, <1>5, <2>3 DEF paketizer
  <2>5. Newest' = Newest
      BY <1>0, <1>5, <2>1 DEF paketizer, Newest
  <2>6. t_pc' = "insert" => packets'[t_idx'] = count'
      BY <1>0, <1>5, <2>1 DEF paketizer
  <2> QED
      BY <2>1, <2>2, <2>4, <2>5, <2>6 DEF NewestInv
<1>6. CASE StopFilling
    BY <1>6 DEF StopFilling, ThreadInv, EndsForReason, NewestInv, histVars
<1>7. CASE InsertPacket
  <2>1. /\ t_pc = "insert" /\ t_pc' # "insert" /\ RXRING_INSERT(t_idx) /\ t_idx \in Idx /\ Vacant > 0
        /\ UNCHANGED <<packets, count, last, stopped>>
      BY <1>7, <1>0 DEF InsertPacket, BufferReserved, histVars
  <2>2. /\ Used' = Used + 1
        /\ \A k \in 0 .. Used : Place(k)' = Place(k)
        /\ slot'[Place(Used)] = t_idx
        /\ \A k \in 0 .. Used - 1 : slot'[Place(k)] = slot[Place(k)]
      BY <1>0, <2>1, InsertPlaces
  <2>3. Newest = count - 1 /\ Newest' = count
      BY <2>1 DEF Newest
  <2> SUFFICES ASSUME ~stopped
               PROVE  /\ last' <= Newest' - Used'
                      /\ \A k \in 0 .. Used' - 1 : packets'[slot'[Place(k)']] = Newest' - Used' + 1 + k
      BY <2>1 DEF NewestInv
  <2>4. /\ last <= Newest - Used
        /\ \A k \in 0 .. Used - 1 : packets[slot[Place(k)]] = Newest - Used + 1 + k
        /\ packets[t_idx] = count
      BY <2>1 DEF NewestInv
  <2>5. last' <= Newest' - Used'
      BY <1>0, <2>1, <2>2, <2>3, <2>4
  <2>6. ASSUME NEW k \in 0 .. Used' - 1
        PROVE  packets'[slot'[Place(k)']] = Newest' - Used' + 1 + k
    <3>1. k \in 0 .. Used /\ Place(k)' = Place(k)
        BY <1>0, <2>2
    <3>2. CASE k = Used
        BY <1>0, <2>1, <2>2, <2>3, <2>4, <3>1, <3>2
    <3>3. CASE k # Used
      <4>1. k \in 0 .. Used - 1
          BY <1>0, <3>1, <3>3
      <4>2. packets[slot[Place(k)]] = Newest - Used + 1 + k /\ slot'[Place(k)] = slot[Place(k)]
          BY <2>2, <2>4, <4>1
      <4> QED
          BY <1>0, <2>1, <2>2, <2>3, <3>1, <4>1, <4>2
    <3> QED
        BY <3>2, <3>3
  <2> QED
      BY <2>5, <2>6
<1>8. CASE TransferPacket
  <2>1. slot[tail] \in Idx /\ Used > 0
      BY <1>0, <1>8, UsedRange DEF TransferPacket, RingSound
  <2>2. RXRING_REMOVE /\ last' = packets[slot[tail]] /\ UNCHANGED <<packets, count, stopped>>
      BY <1>8, <2>1, SpiAssumption DEF TransferPacket, Idx
  <2>3. t_pc' = t_pc /\ t_idx' = t_idx
      BY <1>8 DEF TransferPacket, thrdVars
  <2> QED
      BY <2>1, <2>2, <2>3, NewestRemove
<1> QED
    BY <1>1, <1>2, <1>3, <1>4, <1>5, <1>6, <1>7, <1>8
    DEF Next, rx_thrd_fn, spi_imx_prepare_message, spi_imx_transfer, spi_imx_remove

(***************************************************************************)
(* Until remove stops the thread the ring holds the newest packets without *)
(* a gap, and none that was transferred before: for a ring of any size,    *)
(* with the thread dropping and inserting, transfers removing and          *)
(* prepare_message clearing the ring at any moment.                        *)
(***************************************************************************)
THEOREM RingKeepsNewest == Spec => []RingHoldsNewest
<1>1. Init => NewestInv
    BY DEF Init, NewestInv, Newest, Used
<1>2. RingInv /\ NewestInv => RingHoldsNewest
  <2> SUFFICES ASSUME RingInv, NewestInv PROVE RingHoldsNewest
      OBVIOUS
  <2>1. \A k \in 0 .. Used - 1 : (tail + k) % RX_RING_PACKETS = Place(k)
    <3> TAKE k \in 0 .. Used - 1
    <3>1. tail \in 0 .. RX_RING_PACKETS - 1 /\ k \in 0 .. RX_RING_PACKETS - 1
        BY UsedRange, SpiAssumption DEF RingInv, TypeOK, RingTypeOK, Idx
    <3>2. RX_RING_PACKETS \in Nat \ {0}
        BY SpiAssumption
    <3> QED
        BY <3>1, <3>2, WrapsOnce, Zenon DEF Place
  <2> QED
      BY <2>1 DEF NewestInv, RingHoldsNewest, Newest
<1> QED
    BY <1>1, <1>2, NewestStep, RingCorrect, ThreadCorrect, PTL DEF Spec
=============================================================================
