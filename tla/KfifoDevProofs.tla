--------------------------- MODULE KfifoDevProofs ---------------------------
(***************************************************************************)
(* Proofs about KfifoDev, for any number of users, any size of the fifos   *)
(* and calls of any length.                                                *)
(***************************************************************************)
EXTENDS KfifoDev, FiniteSetTheorems, SequenceTheorems, TLAPS

-----------------------------------------------------------------------------
(* Where the users are *)

Places == {"closed", "request", "idle", "free", "cancel", "flush", "poll", "psleep",
           "rwait", "rsleep", "rcopy", "rwake", "wwait", "wsleep", "wcopy", "wwake"}

\* The places outside of an open file.
Outside == {"closed", "free", "cancel", "flush"}

\* The users that open_count counts.
Holders == {p \in Users : at[p] \notin Outside}

\* Types of what is not a fifo, and the count.
BaseInv ==
    /\ dev \in {"kfifo", "kfifo_rxtx"}
    /\ at \in [Users -> Places]
    /\ work \in {"idle", "pending", "running", "again", "cancelling"}
    /\ wakes \in BOOLEAN /\ irq \in BOOLEAN /\ got \in BOOLEAN
    /\ robbed \in BOOLEAN /\ deaf \in BOOLEAN
    /\ open_count = IF Two THEN Cardinality(Holders) ELSE 0
    /\ ~Two => \A p \in Users : at[p] \notin Outside \cup {"request"}

\* A wake-up moves sleepers only, to where they look at their condition, and
\* leaves nobody asleep on the queue it wakes.
LEMMA WokenUsers ==
  ASSUME NEW w \in [Users -> Places], NEW queue
  PROVE  /\ Woken(w, queue) \in [Users -> Places]
         /\ \A p \in Users : \/ Woken(w, queue)[p] = w[p]
                             \/ /\ w[p] \in {"rsleep", "wsleep", "psleep"}
                                /\ Woken(w, queue)[p] \in {"rwait", "wwait", "poll"}
         /\ queue = "rx" => \A p \in Users : Woken(w, queue)[p] \notin {"rsleep", "psleep"}
         /\ queue = "tx" => \A p \in Users : Woken(w, queue)[p] \notin {"wsleep", "psleep"}
<1>1. ASSUME NEW p \in Users
      PROVE  /\ Woken(w, queue)[p] \in Places
             /\ \/ Woken(w, queue)[p] = w[p]
                \/ /\ w[p] \in {"rsleep", "wsleep", "psleep"}
                   /\ Woken(w, queue)[p] \in {"rwait", "wwait", "poll"}
             /\ queue = "rx" => Woken(w, queue)[p] \notin {"rsleep", "psleep"}
             /\ queue = "tx" => Woken(w, queue)[p] \notin {"wsleep", "psleep"}
  <2>1. w[p] \in Places
    OBVIOUS
  <2>2. CASE w[p] = "rsleep"
    BY <2>2 DEF Woken, Places
  <2>3. CASE w[p] = "wsleep"
    BY <2>3 DEF Woken, Places
  <2>4. CASE w[p] = "psleep"
    BY <2>4 DEF Woken, Places
  <2>5. CASE w[p] \notin {"rsleep", "wsleep", "psleep"}
    <3>1. Woken(w, queue)[p] = w[p]
      BY <2>5 DEF Woken
    <3> QED BY <2>1, <2>5, <3>1
  <2> QED BY <2>2, <2>3, <2>4, <2>5
<1>2. Woken(w, queue) = [p \in Users |-> Woken(w, queue)[p]]
  BY DEF Woken
<1> HIDE DEF Woken
<1>3. Woken(w, queue) \in [Users -> Places]
  BY <1>1, <1>2
<1> QED BY <1>1, <1>3

\* The users are finitely many, so the holders can be counted.
LEMMA HoldersCounted ==
  /\ IsFiniteSet(Holders)
  /\ Cardinality(Holders) \in 0 .. Cardinality(Users)
  /\ Cardinality(Holders) = 0 <=> Holders = {}
  /\ \A p \in Holders : Cardinality(Holders) = 1 => Holders = {p}
  /\ \A p \in Holders : Cardinality(Holders \ {p}) = Cardinality(Holders) - 1
  /\ \A p \in Users \ Holders : Cardinality(Holders \cup {p}) = Cardinality(Holders) + 1
<1>1. Holders \subseteq Users /\ IsFiniteSet(Users)
  BY KfifoAssumption DEF Holders
<1>2. IsFiniteSet(Holders) /\ Cardinality(Holders) <= Cardinality(Users)
  BY <1>1, FS_Subset
<1>3. Cardinality(Holders) \in Nat /\ Cardinality(Users) \in Nat
  BY <1>1, <1>2, FS_CardinalityType
<1>4. Cardinality(Holders) = 0 <=> Holders = {}
  BY <1>2, FS_EmptySet
<1>5. ASSUME NEW p \in Holders
      PROVE  /\ Cardinality(Holders \ {p}) = Cardinality(Holders) - 1
             /\ Cardinality(Holders) = 1 => Holders = {p}
  <2>1. IsFiniteSet(Holders \ {p}) /\ Cardinality(Holders \ {p}) = Cardinality(Holders) - 1
    BY <1>2, FS_RemoveElement
  <2>2. Cardinality(Holders) = 1 => Holders \ {p} = {}
    BY <2>1, FS_EmptySet
  <2> QED BY <2>1, <2>2
<1>6. ASSUME NEW p \in Users \ Holders
      PROVE  Cardinality(Holders \cup {p}) = Cardinality(Holders) + 1
  BY <1>2, FS_AddElement
<1>7. Cardinality(Holders) \in 0 .. Cardinality(Users)
  BY <1>2, <1>3
<1> QED BY <1>2, <1>4, <1>5, <1>6, <1>7


\* No file is opened or closed: users move inside their files only, and what
\* open and close keep is left alone.
SameSession ==
    /\ UNCHANGED <<dev, open_count, irq, deaf>>
    /\ at' \in [Users -> Places]
    /\ \A q \in Users : \/ at'[q] = at[q]
                        \/ /\ at[q] \notin Outside \cup {"request"}
                           /\ at'[q] \notin Outside \cup {"request"}

\* Everything but the steps of open and close leaves the session alone.
LEMMA SessionSteps ==
  ASSUME BaseInv, [Next]_vars
  PROVE  \/ SameSession
         \/ \E p \in Users : \/ mydev_open(p) \/ OpenRequest(p) \/ mydev_release(p)
                             \/ ReleaseFree(p) \/ ReleaseCancel(p) \/ ReleaseFlush(p)
<1>0. at \in [Users -> Places]
  BY DEF BaseInv
<1>1. ASSUME NEW p \in Users, NEW l \in Places \ (Outside \cup {"request"}),
             at[p] \notin Outside \cup {"request"}, at' = [at EXCEPT ![p] = l],
             UNCHANGED <<dev, open_count, irq, deaf>>
      PROVE  SameSession
  BY <1>0, <1>1 DEF SameSession
<1>2. ASSUME NEW p \in Users,
             \/ Read(p) \/ ReadWait(p) \/ ReadCopy(p) \/ Write(p) \/ WriteWait(p)
             \/ WriteCopy(p) \/ mydev_poll(p) \/ Interrupted(p)
      PROVE  SameSession
  <2>1. UNCHANGED <<dev, open_count, irq, deaf>>
    BY <1>2 DEF Read, ReadWait, ReadCopy, Write, WriteWait, WriteCopy, mydev_poll, Interrupted, devVars
  <2>2. /\ at[p] \notin Outside \cup {"request"}
        /\ \E l \in Places \ (Outside \cup {"request"}) : at' = [at EXCEPT ![p] = l]
    <3> USE DEF Goto, Places, Outside
    <3>1. CASE Read(p) \/ ReadWait(p) \/ Write(p) \/ WriteWait(p)
      BY <3>1 DEF Read, ReadWait, Write, WriteWait
    <3>2. CASE ReadCopy(p) \/ WriteCopy(p)
      BY <3>2 DEF ReadCopy, WriteCopy
    <3>3. CASE mydev_poll(p) \/ Interrupted(p)
      BY <3>3 DEF mydev_poll, Interrupted
    <3> QED BY <1>2, <3>1, <3>2, <3>3
  <2> QED BY <1>1, <2>1, <2>2
<1>3. ASSUME NEW w \in [Users -> Places], NEW queue, at' = Woken(w, queue),
             \A q \in Users : \/ w[q] = at[q]
                              \/ /\ at[q] \notin Outside \cup {"request"}
                                 /\ w[q] \notin Outside \cup {"request"},
             UNCHANGED <<dev, open_count, irq, deaf>>
      PROVE  SameSession
  <2> DEFINE z == Woken(w, queue)
  <2>1. /\ z \in [Users -> Places]
        /\ \A q \in Users : \/ z[q] = w[q]
                            \/ /\ w[q] \in {"rsleep", "wsleep", "psleep"}
                               /\ z[q] \in {"rwait", "wwait", "poll"}
    BY WokenUsers
  <2> HIDE DEF z
  <2>2. at' = z
    BY <1>3 DEF z
  <2> QED BY <1>3, <2>1, <2>2 DEF SameSession, Outside
<1>4. ASSUME NEW p \in Users, ReadWake(p) \/ WriteWake(p) PROVE SameSession
  <2> DEFINE w == [at EXCEPT ![p] = "idle"]
  <2>1. UNCHANGED <<dev, open_count, irq, deaf>> /\ at[p] \in {"rwake", "wwake"}
    BY <1>4 DEF ReadWake, WriteWake, devVars
  <2>2. at' = w \/ \E queue : at' = Woken(w, queue)
    BY <1>4 DEF ReadWake, WriteWake
  <2>3. /\ w \in [Users -> Places]
        /\ \A q \in Users : \/ w[q] = at[q]
                            \/ /\ at[q] \notin Outside \cup {"request"}
                               /\ w[q] \notin Outside \cup {"request"}
    BY <1>0, <2>1 DEF Places, Outside
  <2> HIDE DEF w
  <2>4. CASE at' = w
    BY <2>1, <2>3, <2>4 DEF SameSession
  <2>5. ASSUME NEW queue, at' = Woken(w, queue) PROVE SameSession
    BY <1>3, <2>1, <2>3, <2>5
  <2> QED BY <2>2, <2>4, <2>5
<1>5. CASE IrqWakes \/ WorkEnds
  <2>1. UNCHANGED <<dev, open_count, irq, deaf>>
    BY <1>5 DEF IrqWakes, WorkEnds, devVars
  <2>2. at' = at \/ \E queue : at' = Woken(at, queue)
    BY <1>5 DEF IrqWakes, WorkEnds
  <2>3. CASE at' = at
    BY <1>0, <2>1, <2>3 DEF SameSession
  <2>4. ASSUME NEW queue, at' = Woken(at, queue) PROVE SameSession
    BY <1>0, <1>3, <2>1, <2>4
  <2> QED BY <2>2, <2>3, <2>4
<1>6. CASE mydev_irq_handler \/ WorkStarts \/ tx_work_fn \/ UNCHANGED vars
  BY <1>0, <1>6 DEF mydev_irq_handler, WorkStarts, tx_work_fn, vars, devVars, SameSession
<1> QED BY <1>2, <1>4, <1>5, <1>6 DEF Next, Kernel, User

\* Only these steps touch the work item.
LEMMA WorkSteps ==
  ASSUME [Next]_vars
  PROVE  \/ UNCHANGED workVars \/ WorkStarts \/ tx_work_fn \/ WorkEnds
         \/ \E p \in Users : WriteCopy(p) \/ WriteWake(p) \/ ReleaseCancel(p)
<1>1. ASSUME NEW p \in Users, User(p)
      PROVE  UNCHANGED workVars \/ WriteCopy(p) \/ WriteWake(p) \/ ReleaseCancel(p)
  BY <1>1 DEF User, Read, ReadWait, ReadCopy, ReadWake, Write, WriteWait, mydev_poll,
       Interrupted, mydev_open, OpenRequest, mydev_release, ReleaseFree, ReleaseFlush
<1>2. CASE mydev_irq_handler \/ IrqWakes \/ UNCHANGED vars
  BY <1>2 DEF mydev_irq_handler, IrqWakes, vars
<1> QED BY <1>1, <1>2 DEF Next, Kernel

\* Every step preserves BaseInv.
LEMMA BaseStep == ASSUME BaseInv, [Next]_vars PROVE BaseInv'
<1>0. /\ at \in [Users -> Places] /\ dev' = dev /\ (Two' <=> Two)
      /\ work \in {"idle", "pending", "running", "again", "cancelling"}
      /\ wakes \in BOOLEAN /\ irq \in BOOLEAN /\ got \in BOOLEAN
      /\ robbed \in BOOLEAN /\ deaf \in BOOLEAN /\ dev \in {"kfifo", "kfifo_rxtx"}
      /\ open_count = IF Two THEN Cardinality(Holders) ELSE 0
      /\ ~Two => \A p \in Users : at[p] \notin Outside \cup {"request"}
  <2>1. dev' = dev
    BY DEF Next, Kernel, User, mydev_irq_handler, IrqWakes, WorkStarts, tx_work_fn, WorkEnds,
       Read, ReadWait, ReadCopy, ReadWake, Write, WriteWait, WriteCopy, WriteWake, mydev_poll,
       Interrupted, mydev_open, OpenRequest, mydev_release, ReleaseFree, ReleaseCancel,
       ReleaseFlush, vars
  <2> QED BY <2>1 DEF BaseInv, Two
<1>1. /\ wakes' \in BOOLEAN /\ got' \in BOOLEAN /\ robbed' \in BOOLEAN
      /\ work' \in {"idle", "pending", "running", "again", "cancelling"}
  <2>1. wakes' \in BOOLEAN
    <3>1. ASSUME NEW p \in Users, User(p) PROVE wakes' = wakes
      <4>1. CASE Read(p) \/ ReadWait(p) \/ ReadCopy(p) \/ ReadWake(p) \/ Write(p) \/ WriteWait(p)
        BY <4>1 DEF Read, ReadWait, ReadCopy, ReadWake, Write, WriteWait
      <4>2. CASE WriteCopy(p) \/ WriteWake(p) \/ mydev_poll(p) \/ Interrupted(p)
        BY <4>2 DEF WriteCopy, WriteWake, mydev_poll, Interrupted
      <4>3. CASE \/ mydev_open(p) \/ OpenRequest(p) \/ mydev_release(p) \/ ReleaseFree(p)
                 \/ ReleaseCancel(p) \/ ReleaseFlush(p)
        BY <4>3 DEF mydev_open, OpenRequest, mydev_release, ReleaseFree, ReleaseCancel, ReleaseFlush
      <4> QED BY <3>1, <4>1, <4>2, <4>3 DEF User
    <3>2. CASE mydev_irq_handler \/ Kernel \/ UNCHANGED vars
      BY <1>0, <3>2 DEF Kernel, mydev_irq_handler, IrqWakes, WorkStarts, tx_work_fn, WorkEnds, vars
    <3> QED BY <1>0, <3>1, <3>2 DEF Next
  <2>2. CASE UNCHANGED workVars
    BY <1>0, <2>1, <2>2 DEF workVars
  <2>3. ASSUME NEW p \in Users, WriteWake(p)
        PROVE  /\ got' \in BOOLEAN /\ robbed' \in BOOLEAN
               /\ work' \in {"idle", "pending", "running", "again", "cancelling"}
    BY <1>0, <2>3 DEF WriteWake
  <2>6. ASSUME NEW p \in Users, WriteCopy(p)
        PROVE  /\ got' \in BOOLEAN /\ robbed' \in BOOLEAN
               /\ work' \in {"idle", "pending", "running", "again", "cancelling"}
    BY <1>0, <2>6 DEF WriteCopy
  <2>4. ASSUME NEW p \in Users, ReleaseCancel(p)
        PROVE  /\ got' \in BOOLEAN /\ robbed' \in BOOLEAN
               /\ work' \in {"idle", "pending", "running", "again", "cancelling"}
    BY <1>0, <2>4 DEF ReleaseCancel
  <2>5. CASE WorkStarts \/ tx_work_fn \/ WorkEnds
    BY <1>0, <2>1, <2>5 DEF WorkStarts, tx_work_fn, WorkEnds
  <2> QED BY <2>1, <2>2, <2>3, <2>4, <2>5, <2>6, WorkSteps
<1>2. CASE SameSession
  <2>1. Holders' = Holders
    BY <1>2 DEF SameSession, Holders
  <2> QED BY <1>0, <1>1, <1>2, <2>1 DEF BaseInv, SameSession
<1>3. ASSUME Two, irq' \in BOOLEAN, deaf' \in BOOLEAN, at' \in [Users -> Places],
             open_count' = Cardinality(Holders')
      PROVE  BaseInv'
  BY <1>0, <1>1, <1>3 DEF BaseInv
<1>4. ASSUME NEW p \in Users, NEW l \in Places, at' = [at EXCEPT ![p] = l]
      PROVE  /\ at' \in [Users -> Places]
             /\ l \in Outside => Holders' = Holders \ {p}
             /\ l \notin Outside => Holders' = Holders \cup {p}
  BY <1>0, <1>4 DEF Holders
<1>5. ASSUME NEW p \in Users, mydev_open(p) PROVE BaseInv'
  <2>1. /\ Two /\ at[p] = "closed" /\ open_count' = open_count + 1 /\ UNCHANGED <<irq, deaf>>
        /\ \E l \in {"request", "idle"} : at' = [at EXCEPT ![p] = l]
    BY <1>5 DEF mydev_open, Goto
  <2>2. p \notin Holders /\ Holders' = Holders \cup {p} /\ at' \in [Users -> Places]
    BY <1>4, <2>1 DEF Holders, Outside, Places
  <2> QED BY <1>0, <1>3, <2>1, <2>2, HoldersCounted
<1>6. ASSUME NEW p \in Users, OpenRequest(p) PROVE BaseInv'
  <2>1. Two /\ at[p] = "request" /\ p \in Holders
    BY <1>0, <1>6 DEF OpenRequest, Goto, Holders, Outside
  <2>2. CASE at' = [at EXCEPT ![p] = "idle"] /\ irq' = TRUE /\ UNCHANGED <<open_count, deaf>>
    <3>1. Holders' = Holders \cup {p} /\ at' \in [Users -> Places]
      BY <1>4, <2>2 DEF Outside, Places
    <3>2. Holders' = Holders
      BY <2>1, <3>1
    <3> QED BY <1>0, <1>3, <2>1, <2>2, <3>1, <3>2
  <2>3. CASE /\ at' = [at EXCEPT ![p] = "closed"] /\ open_count' = open_count - 1
             /\ deaf' = (deaf \/ open_count > 1) /\ irq' = irq
    <3>1. Holders' = Holders \ {p} /\ at' \in [Users -> Places] /\ deaf' \in BOOLEAN
      BY <1>4, <2>1, <2>3 DEF Outside, Places
    <3> QED BY <1>0, <1>3, <2>1, <2>3, <3>1, HoldersCounted
  <2> QED BY <1>6, <2>2, <2>3 DEF OpenRequest, Goto
<1>7. ASSUME NEW p \in Users, mydev_release(p) PROVE BaseInv'
  <2>1. /\ Two /\ at[p] = "idle" /\ open_count' = open_count - 1 /\ UNCHANGED <<irq, deaf>>
        /\ \E l \in {"free", "closed"} : at' = [at EXCEPT ![p] = l]
    BY <1>7 DEF mydev_release, Goto
  <2>2. p \in Holders /\ Holders' = Holders \ {p} /\ at' \in [Users -> Places]
    BY <1>4, <2>1 DEF Holders, Outside, Places
  <2> QED BY <1>0, <1>3, <2>1, <2>2, HoldersCounted
<1>8. ASSUME NEW p \in Users, ReleaseFree(p) \/ ReleaseCancel(p) \/ ReleaseFlush(p) PROVE BaseInv'
  <2>1. /\ at[p] \in {"free", "cancel", "flush"} /\ open_count' = open_count
        /\ irq' \in BOOLEAN /\ deaf' = deaf
        /\ \E l \in {"cancel", "flush", "closed"} : at' = [at EXCEPT ![p] = l]
    BY <1>0, <1>8 DEF ReleaseFree, ReleaseCancel, ReleaseFlush, mydev_hw_deinit, Goto, devVars
  <2>2. Two /\ p \notin Holders /\ Holders' = Holders \ {p} /\ at' \in [Users -> Places]
    BY <1>0, <1>4, <2>1 DEF Holders, Outside, Places
  <2>3. Holders' = Holders
    BY <2>2
  <2> QED BY <1>0, <1>3, <2>1, <2>2, <2>3
<1> QED BY <1>2, <1>5, <1>6, <1>7, <1>8, SessionSteps

\* The initial state satisfies BaseInv.
LEMMA BaseInit == Init => BaseInv
<1> SUFFICES ASSUME Init PROVE BaseInv
  OBVIOUS
<1>1. at \in [Users -> Places] /\ \A p \in Users : at[p] = IF Two THEN "closed" ELSE "idle"
  BY DEF Init, Places
<1>2. Two => Holders = {}
  BY <1>1 DEF Holders, Outside
<1>3. Two => Cardinality(Holders) = 0
  BY <1>2, HoldersCounted
<1> QED BY <1>1, <1>3 DEF Init, BaseInv, Outside

-----------------------------------------------------------------------------
(* The interrupt of kfifo_rxtx *)

\* A first open has succeeded, and no last close has begun since.
Started == Holders # {} /\ \A p \in Users : at[p] # "request"
Freeing == \E p \in Users : at[p] = "free"

(***************************************************************************)
(* What makes IrqFollowsOpen inductive: one first opener and one last      *)
(* closer at a time, and the interrupt is requested from the success of    *)
(* the one to the step of the other.                                       *)
(***************************************************************************)
IrqInv ==
    Two /\ ~deaf =>
        /\ \A p, q \in Users : at[p] = "request" /\ at[q] = "request" => p = q
        /\ \A p, q \in Users : at[p] = "free" /\ at[q] = "free" => p = q
        /\ irq <=> Started \/ Freeing
        /\ ~(Started /\ Freeing)

\* Every step preserves IrqInv.
LEMMA IrqStep == ASSUME BaseInv, IrqInv, [Next]_vars PROVE IrqInv'
<1>0. /\ at \in [Users -> Places] /\ deaf \in BOOLEAN
      /\ Two => open_count = Cardinality(Holders)
      /\ dev' = dev => (Two' <=> Two)
  BY DEF BaseInv, Two
<1>1. CASE SameSession
  <2>1. /\ \A q \in Users : /\ at'[q] = "request" <=> at[q] = "request"
                            /\ at'[q] = "free" <=> at[q] = "free"
        /\ Holders' = Holders
    BY <1>1 DEF SameSession, Holders, Outside
  <2>2. (Started' <=> Started) /\ (Freeing' <=> Freeing)
    BY <2>1 DEF Started, Freeing
  <2> QED BY <1>0, <1>1, <2>1, <2>2 DEF IrqInv, SameSession
<1> SUFFICES ASSUME Two, Two', ~deaf',
                    NEW p \in Users, \/ mydev_open(p) \/ OpenRequest(p) \/ mydev_release(p)
                                     \/ ReleaseFree(p) \/ ReleaseCancel(p) \/ ReleaseFlush(p)
             PROVE  IrqInv'
  <2>1. ASSUME NEW p \in Users, \/ mydev_open(p) \/ OpenRequest(p) \/ mydev_release(p)
                                \/ ReleaseFree(p) \/ ReleaseCancel(p) \/ ReleaseFlush(p)
        PROVE  dev' = dev
    BY <2>1 DEF mydev_open, OpenRequest, mydev_release, ReleaseFree, ReleaseCancel, ReleaseFlush
  <2> QED BY <1>0, <1>1, <2>1, SessionSteps DEF IrqInv
<1>2. ~deaf
  BY <1>0 DEF mydev_open, OpenRequest, mydev_release, ReleaseFree, ReleaseCancel, ReleaseFlush,
     devVars
<1>3. /\ \A q, r \in Users : at[q] = "request" /\ at[r] = "request" => q = r
      /\ \A q, r \in Users : at[q] = "free" /\ at[r] = "free" => q = r
      /\ irq <=> Started \/ Freeing
      /\ ~(Started /\ Freeing)
  BY <1>2 DEF IrqInv
<1>4. SUFFICES /\ \A q, r \in Users : at'[q] = "request" /\ at'[r] = "request" => q = r
               /\ \A q, r \in Users : at'[q] = "free" /\ at'[r] = "free" => q = r
               /\ irq' <=> Started' \/ Freeing'
               /\ ~(Started' /\ Freeing')
  BY DEF IrqInv
<1>5. CASE mydev_open(p)
  <2>1. /\ at[p] = "closed" /\ irq' = irq
        /\ at' = [at EXCEPT ![p] = IF open_count = 0 THEN "request" ELSE "idle"]
    BY <1>5 DEF mydev_open, Goto
  <2>2. Holders' = Holders \cup {p}
    BY <1>0, <2>1 DEF Holders, Outside
  <2>3. Freeing' <=> Freeing
    BY <1>0, <2>1 DEF Freeing
  <2>4. CASE open_count = 0
    <3>1. Holders = {}
      BY <1>0, <2>4, HoldersCounted
    <3>2. \A q \in Users : at[q] # "request"
      BY <3>1 DEF Holders, Outside
    <3>3. ~Started /\ ~Started'
      BY <1>0, <2>1, <2>4, <3>1 DEF Started
    <3> QED BY <1>0, <1>3, <2>1, <2>3, <2>4, <3>2, <3>3
  <2>5. CASE open_count # 0
    <3>1. Holders # {}
      BY <1>0, <2>5, HoldersCounted
    <3>2. \A q \in Users : at'[q] = "request" <=> at[q] = "request"
      BY <1>0, <2>1, <2>5
    <3>3. Started' <=> Started
      BY <2>2, <3>1, <3>2 DEF Started
    <3> QED BY <1>0, <1>3, <2>1, <2>3, <2>5, <3>2, <3>3
  <2> QED BY <2>4, <2>5
<1>6. CASE OpenRequest(p)
  <2>1. at[p] = "request" /\ p \in Holders /\ ~Started
    BY <1>6 DEF OpenRequest, Goto, Holders, Outside, Started
  <2>2. CASE ~irq /\ at' = [at EXCEPT ![p] = "idle"] /\ irq' = TRUE
    <3>1. ~Freeing
      BY <1>3, <2>2
    <3>2. ~Freeing' /\ p \in Holders' /\ \A q \in Users : at'[q] # "request"
      BY <1>0, <1>3, <2>1, <2>2, <3>1 DEF Freeing, Holders, Outside
    <3> QED BY <2>2, <3>2 DEF Started, Freeing
  <2>3. CASE /\ at' = [at EXCEPT ![p] = "closed"] /\ open_count' = open_count - 1
             /\ deaf' = (deaf \/ open_count > 1) /\ irq' = irq
    <3>1. ~(open_count > 1)
      BY <2>3
    <3>2. Holders = {p}
      <4>1. Holders # {} /\ Cardinality(Holders) \in 0 .. Cardinality(Users)
        BY <2>1, HoldersCounted
      <4>2. Cardinality(Users) \in Nat
        BY KfifoAssumption, FS_CardinalityType
      <4>3. Cardinality(Holders) = 1
        BY <1>0, <3>1, <4>1, <4>2, HoldersCounted
      <4> QED BY <2>1, <4>3, HoldersCounted
    <3>3. Holders' = {}
      BY <1>0, <2>3, <3>2 DEF Holders, Outside
    <3>4. /\ Freeing' <=> Freeing
          /\ \A q \in Users : /\ at'[q] # "request"
                              /\ at'[q] = "free" <=> at[q] = "free"
      BY <1>0, <1>3, <2>1, <2>3 DEF Freeing
    <3> QED BY <1>3, <2>1, <2>3, <3>3, <3>4 DEF Started
  <2> QED BY <1>6, <2>2, <2>3 DEF OpenRequest, Goto
<1>7. CASE mydev_release(p)
  <2>1. /\ at[p] = "idle" /\ irq' = irq /\ p \in Holders
        /\ at' = [at EXCEPT ![p] = IF open_count = 1 THEN "free" ELSE "closed"]
    BY <1>7 DEF mydev_release, Goto, Holders, Outside
  <2>2. Holders' = Holders \ {p} /\ \A q \in Users : at'[q] = "request" <=> at[q] = "request"
    BY <1>0, <2>1 DEF Holders, Outside
  <2>3. CASE open_count = 1
    <3>1. Holders = {p}
      BY <1>0, <2>1, <2>3, HoldersCounted
    <3>2. Started /\ Holders' = {}
      BY <2>1, <2>2, <3>1 DEF Started, Holders, Outside
    <3>3. irq /\ ~Freeing
      BY <1>3, <3>2
    <3>4. ~Started' /\ Freeing' /\ \A q \in Users : at'[q] = "free" <=> q = p
      BY <1>0, <2>1, <2>3, <3>2, <3>3 DEF Started, Freeing
    <3> QED BY <1>3, <2>1, <2>2, <3>3, <3>4
  <2>4. CASE open_count # 1
    <3>1. Holders' # {}
      <4>1. SUFFICES ASSUME Holders = {p} PROVE FALSE
        BY <2>1, <2>2
      <4>2. Cardinality(Holders) = 1
        BY <4>1, FS_Singleton
      <4> QED BY <1>0, <2>4, <4>2
    <3>2. Started' <=> Started
      BY <2>1, <2>2, <3>1 DEF Started
    <3>3. (Freeing' <=> Freeing) /\ \A q \in Users : at'[q] = "free" <=> at[q] = "free"
      BY <1>0, <2>1, <2>4 DEF Freeing
    <3> QED BY <1>3, <2>1, <2>2, <3>2, <3>3
  <2> QED BY <2>3, <2>4
<1>8. CASE ReleaseFree(p)
  <2>1. at[p] = "free" /\ at' = [at EXCEPT ![p] = "cancel"] /\ irq' = FALSE
    BY <1>8 DEF ReleaseFree, Goto, mydev_hw_deinit
  <2>2. Holders' = Holders /\ \A q \in Users : /\ at'[q] = "request" <=> at[q] = "request"
                                               /\ at'[q] # "free"
    BY <1>0, <1>3, <2>1 DEF Holders, Outside
  <2>3. ~Started /\ ~Started' /\ ~Freeing'
    BY <1>3, <2>1, <2>2 DEF Started, Freeing
  <2> QED BY <1>3, <2>1, <2>2, <2>3
<1>9. CASE ReleaseCancel(p) \/ ReleaseFlush(p)
  <2>1. /\ at[p] \in {"cancel", "flush"} /\ irq' = irq
        /\ \E l \in {"closed", "flush"} : at' = [at EXCEPT ![p] = l]
    BY <1>9 DEF ReleaseCancel, ReleaseFlush, Goto, devVars
  <2>2. Holders' = Holders /\ \A q \in Users : /\ at'[q] = "request" <=> at[q] = "request"
                                               /\ at'[q] = "free" <=> at[q] = "free"
    BY <1>0, <2>1 DEF Holders, Outside
  <2>3. (Started' <=> Started) /\ (Freeing' <=> Freeing)
    BY <2>2 DEF Started, Freeing
  <2> QED BY <1>3, <2>1, <2>2, <2>3
<1> QED BY <1>5, <1>6, <1>7, <1>8, <1>9

\* The base invariant holds throughout.
THEOREM BaseCorrect == Spec => []BaseInv
<1>1. BaseInv /\ [Next]_vars => BaseInv'
  BY BaseStep
<1> QED BY <1>1, BaseInit, PTL DEF Spec

(***************************************************************************)
(* For any number of users: away from a first open and a last close the    *)
(* interrupt is requested exactly while a file is open, as long as no      *)
(* first open failed beside another one.                                   *)
(***************************************************************************)
THEOREM InterruptFollowsOpen == Spec => []IrqFollowsOpen
<1>1. ASSUME Init PROVE IrqInv
  <2>1. ASSUME Two PROVE \A p \in Users : at[p] = "closed"
    BY <1>1, <2>1 DEF Init
  <2>2. Two => Holders = {} /\ ~Started /\ ~Freeing /\ ~irq
    BY <1>1, <2>1 DEF Init, Holders, Outside, Started, Freeing
  <2> QED BY <2>1, <2>2 DEF IrqInv
<1>2. BaseInv /\ IrqInv /\ [Next]_vars => IrqInv'
  BY IrqStep
<1>3. IrqInv => IrqFollowsOpen
  BY DEF IrqInv, IrqFollowsOpen, Started, Freeing, Holders, Outside
<1> QED BY <1>1, <1>2, <1>3, BaseCorrect, PTL DEF Spec

-----------------------------------------------------------------------------
(* The bytes *)

(***************************************************************************)
(* FifoInv in a form that is inductive.  What was read is older than all   *)
(* that rx still holds, which the order of log and rx together needs; tx   *)
(* and out are numbered from 1 on.                                         *)
(***************************************************************************)
RxOK ==
    /\ made \in 0 .. MaxRx
    /\ rx \in Seq(Nat) /\ Len(rx) <= FifoSize /\ Len(rx) <= made
    /\ \A j \in 1 .. Len(rx) : rx[j] = made - Len(rx) + j

LogOK ==
    /\ log \in Seq(Nat)
    /\ \A j \in 1 .. Len(log) : log[j] \in 1 .. made - Len(rx)
    /\ \A j \in 2 .. Len(log) : log[j - 1] < log[j]

TxOK ==
    /\ acc \in 0 .. MaxTx
    /\ tx \in Seq(Nat) /\ out \in Seq(Nat) /\ Len(tx) <= FifoSize
    /\ Two => /\ Len(out) + Len(tx) = acc
              /\ \A j \in 1 .. Len(out) : out[j] = j
              /\ \A j \in 1 .. Len(tx) : tx[j] = Len(out) + j
    /\ ~Two => tx = <<>> /\ out = <<>>

BytesInv == RxOK /\ LogOK /\ TxOK

\* Only the interrupt handler, the two copies and the work item touch a fifo.
LEMMA FifoSteps ==
  ASSUME [Next]_vars
  PROVE  /\ dev' = dev
         /\ \/ UNCHANGED fifoVars
            \/ mydev_irq_handler \/ tx_work_fn
            \/ \E p \in Users : ReadCopy(p) \/ WriteCopy(p)
<1> USE DEF fifoVars
<1>1. ASSUME NEW p \in Users,
             \/ Read(p) \/ ReadWait(p) \/ ReadWake(p) \/ Write(p) \/ WriteWait(p) \/ WriteWake(p)
             \/ mydev_poll(p) \/ Interrupted(p)
      PROVE  dev' = dev /\ UNCHANGED fifoVars
  BY <1>1 DEF Read, ReadWait, ReadWake, Write, WriteWait, WriteWake, mydev_poll, Interrupted
<1>2. ASSUME NEW p \in Users,
             \/ mydev_open(p) \/ OpenRequest(p) \/ mydev_release(p)
             \/ ReleaseFree(p) \/ ReleaseCancel(p) \/ ReleaseFlush(p)
      PROVE  dev' = dev /\ UNCHANGED fifoVars
  BY <1>2 DEF mydev_open, OpenRequest, mydev_release, ReleaseFree, ReleaseCancel, ReleaseFlush
<1>3. ASSUME IrqWakes \/ WorkStarts \/ WorkEnds \/ UNCHANGED vars
      PROVE  dev' = dev /\ UNCHANGED fifoVars
  BY <1>3 DEF IrqWakes, WorkStarts, WorkEnds, vars
<1>4. ASSUME NEW p \in Users, ReadCopy(p) \/ WriteCopy(p) PROVE dev' = dev
  BY <1>4 DEF ReadCopy, WriteCopy
<1>5. mydev_irq_handler \/ tx_work_fn => dev' = dev
  BY DEF mydev_irq_handler, tx_work_fn
<1> QED BY <1>1, <1>2, <1>3, <1>4, <1>5 DEF Next, Kernel, User

\* Bytes numbered consecutively from m + 1 on are a sequence.
LEMMA Numbered ==
  ASSUME NEW m \in Nat, NEW k \in Nat
  PROVE  LET s == [j \in 1 .. k |-> m + j] IN
         s \in Seq(Nat) /\ Len(s) = k /\ \A j \in 1 .. k : s[j] = m + j
<1> DEFINE s == [j \in 1 .. k |-> m + j]
<1>1. s \in [1 .. k -> Nat]
  OBVIOUS
<1>2. s \in Seq(Nat)
  BY <1>1, SeqDef
<1>3. DOMAIN s = 1 .. k /\ DOMAIN s = 1 .. Len(s) /\ Len(s) \in Nat
  BY <1>2, LenProperties
<1>4. Len(s) = k
  BY <1>3
<1> QED BY <1>2, <1>4

\* A sequence cut after k elements.
LEMMA Cut ==
  ASSUME NEW f \in Seq(Nat), NEW k \in 0 .. Len(f)
  PROVE  /\ SubSeq(f, 1, k) \in Seq(Nat) /\ Len(SubSeq(f, 1, k)) = k
         /\ \A j \in 1 .. k : SubSeq(f, 1, k)[j] = f[j]
         /\ SubSeq(f, k + 1, Len(f)) \in Seq(Nat) /\ Len(SubSeq(f, k + 1, Len(f))) = Len(f) - k
         /\ \A j \in 1 .. Len(f) - k : SubSeq(f, k + 1, Len(f))[j] = f[k + j]
<1>0. Len(f) \in Nat /\ k \in Nat /\ k <= Len(f)
  OBVIOUS
<1>1. /\ SubSeq(f, 1, k) \in Seq(Nat) /\ Len(SubSeq(f, 1, k)) = k
      /\ \A j \in 1 .. k : SubSeq(f, 1, k)[j] = f[j]
  BY <1>0
<1>2. /\ SubSeq(f, k + 1, Len(f)) \in Seq(Nat) /\ Len(SubSeq(f, k + 1, Len(f))) = Len(f) - k
      /\ \A j \in 1 .. Len(f) - k : SubSeq(f, k + 1, Len(f))[j] = f[k + j]
  <2>1. k + 1 \in 1 .. Len(f) + 1 /\ Len(f) \in k + 1 - 1 .. Len(f)
    BY <1>0
  <2> QED BY <1>0, <2>1
<1> QED BY <1>1, <1>2

\* A sequence followed by another one.
LEMMA Joined ==
  ASSUME NEW f \in Seq(Nat), NEW g \in Seq(Nat)
  PROVE  /\ f \o g \in Seq(Nat) /\ Len(f \o g) = Len(f) + Len(g)
         /\ \A j \in 1 .. Len(f) : (f \o g)[j] = f[j]
         /\ \A j \in 1 .. Len(g) : (f \o g)[Len(f) + j] = g[j]
         /\ \A j \in 1 .. Len(f \o g) :
                \/ j \in 1 .. Len(f) /\ (f \o g)[j] = f[j]
                \/ \E i \in 1 .. Len(g) : j = Len(f) + i /\ (f \o g)[j] = g[i]
<1>0. Len(f) \in Nat /\ Len(g) \in Nat
  OBVIOUS
<1>1. /\ f \o g \in Seq(Nat) /\ Len(f \o g) = Len(f) + Len(g)
      /\ \A j \in 1 .. Len(f) + Len(g) : (f \o g)[j] = IF j <= Len(f) THEN f[j] ELSE g[j - Len(f)]
  OBVIOUS
<1>2. ASSUME NEW j \in 1 .. Len(f) PROVE (f \o g)[j] = f[j]
  BY <1>0, <1>1
<1>3. ASSUME NEW j \in 1 .. Len(g) PROVE (f \o g)[Len(f) + j] = g[j]
  <2>1. Len(f) + j \in 1 .. Len(f) + Len(g) /\ ~(Len(f) + j <= Len(f)) /\ Len(f) + j - Len(f) = j
    BY <1>0
  <2> QED BY <1>1, <2>1
<1>4. ASSUME NEW j \in 1 .. Len(f \o g)
      PROVE  j \in 1 .. Len(f) \/ \E i \in 1 .. Len(g) : j = Len(f) + i
  <2>1. j \in 1 .. Len(f) \/ (j - Len(f) \in 1 .. Len(g) /\ j = Len(f) + (j - Len(f)))
    BY <1>0, <1>1
  <2> QED BY <2>1
<1> QED BY <1>1, <1>2, <1>3, <1>4

\* Overwrite-on-full: the new byte is the last one and the others keep their
\* order; a full fifo stays full and another one grows.
LEMMA OverwriteBytes ==
  ASSUME NEW f \in Seq(Nat), Len(f) <= FifoSize, NEW val \in Nat
  PROVE  LET g == Overwrite(f, val)
             n == IF kfifo_is_full(f) THEN Len(f) ELSE Len(f) + 1
         IN  /\ g \in Seq(Nat) /\ Len(g) = n /\ n <= FifoSize /\ n \in Nat \ {0}
             /\ g[n] = val
             /\ \A j \in 1 .. n - 1 : g[j] = f[j + Len(f) + 1 - n]
<1>0. FifoSize \in Nat \ {0} /\ Len(f) \in Nat
  BY KfifoAssumption
<1>1. CASE kfifo_is_full(f)
  <2>1. f # <<>> /\ Len(f) = FifoSize
    BY <1>0, <1>1 DEF kfifo_is_full
  <2>2. /\ Tail(f) \in Seq(Nat) /\ Len(Tail(f)) = Len(f) - 1
        /\ \A j \in 1 .. Len(f) - 1 : Tail(f)[j] = f[j + 1]
    BY <2>1, HeadTailProperties
  <2> DEFINE t == Tail(f)
  <2>3. /\ Append(t, val) \in Seq(Nat) /\ Len(Append(t, val)) = Len(f)
        /\ Append(t, val)[Len(f)] = val
        /\ \A j \in 1 .. Len(f) - 1 : Append(t, val)[j] = t[j]
    BY <1>0, <2>2, AppendProperties
  <2>4. \A j \in 1 .. Len(f) - 1 : j + Len(f) + 1 - Len(f) = j + 1
    BY <1>0
  <2> HIDE DEF t
  <2>5. Overwrite(f, val) = Append(t, val)
    BY <1>1 DEF Overwrite, t
  <2> QED BY <1>0, <1>1, <2>1, <2>2, <2>3, <2>4, <2>5 DEF t
<1>2. CASE ~kfifo_is_full(f)
  <2>1. /\ Append(f, val) \in Seq(Nat) /\ Len(Append(f, val)) = Len(f) + 1
        /\ Append(f, val)[Len(f) + 1] = val
        /\ \A j \in 1 .. Len(f) : Append(f, val)[j] = f[j]
    BY AppendProperties
  <2>2. \A j \in 1 .. Len(f) + 1 - 1 : j \in 1 .. Len(f) /\ j + Len(f) + 1 - (Len(f) + 1) = j
    BY <1>0
  <2>3. Overwrite(f, val) = Append(f, val) /\ Len(f) + 1 <= FifoSize
    BY <1>0, <1>2 DEF Overwrite, kfifo_is_full
  <2> QED BY <1>0, <1>2, <2>1, <2>2, <2>3
<1> QED BY <1>1, <1>2

\* The interrupt handler keeps the bytes in order.
LEMMA HandlerBytes == ASSUME BytesInv, mydev_irq_handler PROVE BytesInv'
<1>0. /\ made \in Nat /\ MaxRx \in Nat /\ rx \in Seq(Nat) /\ Len(rx) \in Nat
      /\ Len(rx) <= FifoSize /\ Len(rx) <= made
      /\ \A j \in 1 .. Len(rx) : rx[j] = made - Len(rx) + j
  BY KfifoAssumption DEF BytesInv, RxOK
<1>1. /\ made < MaxRx /\ made' = made + 1 /\ rx' = Overwrite(rx, made')
      /\ UNCHANGED <<dev, log, tx, acc, out>>
  BY DEF mydev_irq_handler
<1> DEFINE n == IF kfifo_is_full(rx) THEN Len(rx) ELSE Len(rx) + 1
<1>2. /\ rx' \in Seq(Nat) /\ Len(rx') = n /\ n <= FifoSize /\ n \in Nat \ {0}
      /\ rx'[n] = made + 1
      /\ \A j \in 1 .. n - 1 : rx'[j] = rx[j + Len(rx) + 1 - n]
  <2>1. made + 1 \in Nat /\ rx \in Seq(Nat) /\ Len(rx) <= FifoSize
    BY <1>0
  <2>2. rx' = Overwrite(rx, made + 1)
    BY <1>1
  <2> HIDE DEF n
  <2>3. /\ Overwrite(rx, made + 1) \in Seq(Nat) /\ Len(Overwrite(rx, made + 1)) = n
        /\ n <= FifoSize /\ n \in Nat \ {0}
        /\ Overwrite(rx, made + 1)[n] = made + 1
        /\ \A j \in 1 .. n - 1 : Overwrite(rx, made + 1)[j] = rx[j + Len(rx) + 1 - n]
    BY ONLY <2>1, OverwriteBytes DEF n
  <2> QED BY ONLY <2>2, <2>3
<1>3. n \in {Len(rx), Len(rx) + 1}
  OBVIOUS
<1> HIDE DEF n
<1>4. ASSUME NEW j \in 1 .. n PROVE rx'[j] = (made + 1) - n + j
  <2>1. CASE j = n
    BY <1>0, <1>2, <2>1
  <2>2. CASE j # n
    <3>1. /\ j \in 1 .. n - 1 /\ j + Len(rx) + 1 - n \in 1 .. Len(rx)
          /\ made - Len(rx) + (j + Len(rx) + 1 - n) = (made + 1) - n + j
      BY <1>0, <1>2, <1>3, <2>2
    <3>2. rx'[j] = made - Len(rx) + (j + Len(rx) + 1 - n)
      BY <1>0, <1>2, <3>1
    <3> QED BY <3>1, <3>2
  <2> QED BY <2>1, <2>2
<1>5. RxOK'
  <2>1. made' \in 0 .. MaxRx /\ Len(rx') <= made'
    BY <1>0, <1>1, <1>2, <1>3
  <2> QED BY <1>1, <1>2, <1>4, <2>1 DEF RxOK
<1>6. LogOK'
  <2>1. made - Len(rx) \in Int /\ made' - Len(rx') \in Int /\ made - Len(rx) <= made' - Len(rx')
    BY <1>0, <1>1, <1>2, <1>3
  <2> QED BY <1>1, <2>1 DEF BytesInv, LogOK
<1>7. TxOK'
  BY <1>1 DEF BytesInv, TxOK, Two
<1> QED BY <1>5, <1>6, <1>7 DEF BytesInv

\* read() takes k bytes, at most as many as there are, and wakes the writers
\* of kfifo exactly if there were any.
LEMMA ReadTakes ==
  ASSUME rx \in Seq(Nat), NEW p \in Users, ReadCopy(p)
  PROVE  /\ UNCHANGED <<dev, made, tx, acc, out, wakes, devVars, workVars>>
         /\ at[p] = "rcopy"
         /\ \E k \in 0 .. Len(rx) : /\ log' = log \o SubSeq(rx, 1, k)
                                    /\ rx' = SubSeq(rx, k + 1, Len(rx))
                                    /\ \E l \in {"rwake", "idle"} :
                                          /\ k > 0 /\ ~Two => l = "rwake"
                                          /\ at' = [at EXCEPT ![p] = l]
<1>1. PICK n \in 1 .. MaxCount :
        LET want == IF n < Len(rx) THEN n ELSE Len(rx) IN
        \E k \in 0 .. want :
          /\ Goto(p, "rcopy", IF k > 0 /\ (k = want \/ ~Two) THEN "rwake" ELSE "idle")
          /\ log' = log \o SubSeq(rx, 1, k)
          /\ rx' = SubSeq(rx, k + 1, Len(rx))
          /\ UNCHANGED <<dev, made, tx, acc, out, wakes, devVars, workVars>>
  BY DEF ReadCopy
<1> DEFINE want == IF n < Len(rx) THEN n ELSE Len(rx)
<1>2. n \in Nat \ {0} /\ Len(rx) \in Nat
  BY KfifoAssumption
<1>3. 0 .. want \subseteq 0 .. Len(rx)
  BY <1>2
<1>4. PICK k \in 0 .. want :
      /\ log' = log \o SubSeq(rx, 1, k) /\ rx' = SubSeq(rx, k + 1, Len(rx))
      /\ at[p] = "rcopy"
      /\ at' = [at EXCEPT ![p] = IF k > 0 /\ (k = want \/ ~Two) THEN "rwake" ELSE "idle"]
      /\ UNCHANGED <<dev, made, tx, acc, out, wakes, devVars, workVars>>
  BY <1>1 DEF Goto
<1>5. k \in 0 .. Len(rx)
  BY <1>3
<1> HIDE DEF want
<1> QED BY <1>4, <1>5

\* read() hands out the oldest bytes, all newer than those read before.
LEMMA ReadBytes == ASSUME BytesInv, NEW p \in Users, ReadCopy(p) PROVE BytesInv'
<1>0. /\ made \in Nat /\ rx \in Seq(Nat) /\ Len(rx) \in Nat /\ log \in Seq(Nat) /\ Len(log) \in Nat
      /\ Len(rx) <= FifoSize /\ Len(rx) <= made /\ FifoSize \in Nat
      /\ \A j \in 1 .. Len(rx) : rx[j] = made - Len(rx) + j
      /\ \A j \in 1 .. Len(log) : log[j] \in 1 .. made - Len(rx)
      /\ \A j \in 2 .. Len(log) : log[j - 1] < log[j]
  BY KfifoAssumption DEF BytesInv, RxOK, LogOK
<1>1. PICK k \in 0 .. Len(rx) : /\ log' = log \o SubSeq(rx, 1, k)
                                /\ rx' = SubSeq(rx, k + 1, Len(rx))
  BY <1>0, ReadTakes
<1>2. UNCHANGED <<dev, made, tx, acc, out>>
  BY <1>0, ReadTakes
<1> DEFINE s == SubSeq(rx, 1, k)
<1>3. /\ rx' \in Seq(Nat) /\ Len(rx') = Len(rx) - k
      /\ \A j \in 1 .. Len(rx) - k : rx'[j] = rx[k + j]
  BY <1>0, <1>1, Cut
<1>4. s \in Seq(Nat) /\ Len(s) = k /\ \A j \in 1 .. k : s[j] = rx[j]
  BY <1>0, Cut
<1>5. log' = log \o s
  BY <1>1
<1> HIDE DEF s
<1>6. /\ log' \in Seq(Nat) /\ Len(log') = Len(log) + k
      /\ \A j \in 1 .. Len(log') : \/ j \in 1 .. Len(log) /\ log'[j] = log[j]
                                   \/ \E i \in 1 .. k : j = Len(log) + i /\ log'[j] = s[i]
  <2>1. log \in Seq(Nat)
    BY <1>0
  <2> QED BY ONLY <2>1, <1>4, <1>5, Joined
<1>7. ASSUME NEW j \in 1 .. Len(log')
      PROVE  \/ j \in 1 .. Len(log) /\ log'[j] = log[j]
             \/ \E i \in 1 .. k : j = Len(log) + i /\ log'[j] = made - Len(rx) + i
  <2>1. ASSUME NEW i \in 1 .. k PROVE s[i] = made - Len(rx) + i
    <3>1. i \in 1 .. Len(rx)
      BY <1>0
    <3> QED BY <1>0, <1>4, <3>1
  <2> QED BY <1>6, <2>1
<1>8. RxOK'
  <2>1. ASSUME NEW j \in 1 .. Len(rx') PROVE rx'[j] = made - Len(rx') + j
    <3>1. /\ j \in 1 .. Len(rx) - k /\ k + j \in 1 .. Len(rx)
          /\ made - Len(rx) + (k + j) = made - Len(rx') + j
      BY <1>0, <1>3
    <3> QED BY <1>0, <1>3, <3>1
  <2>2. Len(rx') <= FifoSize /\ Len(rx') <= made
    BY <1>0, <1>3
  <2>3. made \in 0 .. MaxRx
    BY DEF BytesInv, RxOK
  <2> QED BY <1>2, <1>3, <2>1, <2>2, <2>3 DEF RxOK
<1>9. LogOK'
  <2>0. /\ made - Len(rx') = made - Len(rx) + k /\ made - Len(rx) \in Nat /\ made - Len(rx') \in Nat
        /\ k \in Nat
    BY <1>0, <1>3
  <2>1. ASSUME NEW j \in 1 .. Len(log') PROVE log'[j] \in 1 .. made' - Len(rx')
    <3>1. CASE j \in 1 .. Len(log) /\ log'[j] = log[j]
      <4>1. log[j] \in 1 .. made - Len(rx)
        BY <1>0, <3>1
      <4> QED BY <1>2, <2>0, <3>1, <4>1
    <3>2. ASSUME NEW i \in 1 .. k, log'[j] = made - Len(rx) + i PROVE log'[j] \in 1 .. made' - Len(rx')
      BY <1>2, <2>0, <3>2
    <3> QED BY <1>7, <3>1, <3>2
  <2>2. ASSUME NEW j \in 2 .. Len(log') PROVE log'[j - 1] < log'[j]
    <3>1. j \in 1 .. Len(log') /\ j - 1 \in 1 .. Len(log') /\ Len(log') \in Nat /\ j \in Nat
      BY <1>0, <1>6
    <3>2. CASE j \in 1 .. Len(log) /\ log'[j] = log[j]
      <4>1. j \in 2 .. Len(log) /\ j - 1 <= Len(log)
        BY <1>0, <3>1, <3>2
      <4>2. log'[j - 1] = log[j - 1]
        <5>1. ~ \E i \in 1 .. k : j - 1 = Len(log) + i
          BY <1>0, <2>0, <3>1, <4>1
        <5> QED BY <1>7, <3>1, <5>1
      <4> QED BY <1>0, <3>2, <4>1, <4>2
    <3>3. ASSUME NEW i \in 1 .. k, j = Len(log) + i, log'[j] = made - Len(rx) + i
          PROVE  log'[j - 1] < log'[j]
      <4>1. CASE j - 1 \in 1 .. Len(log) /\ log'[j - 1] = log[j - 1]
        <5>1. log[j - 1] \in 1 .. made - Len(rx)
          BY <1>0, <4>1
        <5> QED BY <2>0, <3>3, <4>1, <5>1
      <4>2. ASSUME NEW h \in 1 .. k, j - 1 = Len(log) + h, log'[j - 1] = made - Len(rx) + h
            PROVE  log'[j - 1] < log'[j]
        <5>1. h < i
          <6>1. Len(log) + h = Len(log) + i - 1 /\ Len(log) \in Nat /\ h \in Int /\ i \in Int
            BY <1>0, <2>0, <3>3, <4>2
          <6> QED BY ONLY <6>1
        <5> QED BY <2>0, <3>3, <4>2, <5>1
      <4> QED BY <1>7, <3>1, <4>1, <4>2
    <3> QED BY <1>7, <3>1, <3>2, <3>3
  <2> QED BY <1>6, <2>1, <2>2 DEF LogOK
<1>10. TxOK'
  BY <1>2 DEF BytesInv, TxOK, Two
<1> QED BY <1>8, <1>9, <1>10 DEF BytesInv

\* write() appends k numbers, at most as many as fit, to the fifo it fills, and
\* kfifo wakes the readers exactly if there were any.
LEMMA WritePuts ==
  ASSUME rx \in Seq(Nat), tx \in Seq(Nat), Len(rx) <= FifoSize, Len(tx) <= FifoSize,
         NEW p \in Users, WriteCopy(p)
  PROVE  /\ UNCHANGED <<dev, log, out, wakes, devVars, work, got>>
         /\ at[p] = "wcopy"
         /\ \E k \in Nat :
              /\ Two => /\ k <= FifoSize - Len(tx) /\ acc + k <= MaxTx /\ acc' = acc + k
                        /\ tx' = tx \o [j \in 1 .. k |-> acc + j]
                        /\ \E l \in {"wwake", "idle"} : at' = [at EXCEPT ![p] = l]
                        /\ UNCHANGED <<rx, made>>
              /\ ~Two => /\ k <= FifoSize - Len(rx) /\ made + k <= MaxRx /\ made' = made + k
                         /\ rx' = rx \o [j \in 1 .. k |-> made + j]
                         /\ at' = [at EXCEPT ![p] = IF k > 0 THEN "wwake" ELSE "idle"]
                         /\ UNCHANGED <<tx, acc>>
<1>1. PICK n \in 1 .. MaxCount :
        LET room == FifoSize - Len(wfifo)
            want == IF n < room THEN n ELSE room IN
        \E k \in 0 .. want :
        /\ IF Two
           THEN /\ acc + k <= MaxTx
                /\ acc' = acc + k
                /\ tx' = tx \o [j \in 1 .. k |-> acc + j]
                /\ Goto(p, "wcopy", IF k = want THEN "wwake" ELSE "idle")
                /\ UNCHANGED <<rx, made>>
           ELSE /\ made + k <= MaxRx
                /\ made' = made + k
                /\ rx' = rx \o [j \in 1 .. k |-> made + j]
                /\ Goto(p, "wcopy", IF k > 0 THEN "wwake" ELSE "idle")
                /\ UNCHANGED <<tx, acc>>
        /\ UNCHANGED <<dev, log, out, wakes, devVars, work, got>>
  BY DEF WriteCopy
<1> DEFINE room == FifoSize - Len(wfifo)
           want == IF n < room THEN n ELSE room
<1>2. n \in Nat \ {0} /\ FifoSize \in Nat /\ Len(wfifo) \in Nat /\ Len(wfifo) <= FifoSize
  BY KfifoAssumption DEF wfifo
<1>3. want \in Nat /\ want <= FifoSize - Len(wfifo)
  BY <1>2
<1>4. PICK k \in 0 .. want :
      /\ Two => /\ acc + k <= MaxTx /\ acc' = acc + k
                /\ tx' = tx \o [j \in 1 .. k |-> acc + j]
                /\ at[p] = "wcopy"
                /\ at' = [at EXCEPT ![p] = IF k = want THEN "wwake" ELSE "idle"]
                /\ UNCHANGED <<rx, made>>
      /\ ~Two => /\ made + k <= MaxRx /\ made' = made + k
                 /\ rx' = rx \o [j \in 1 .. k |-> made + j]
                 /\ at[p] = "wcopy" /\ at' = [at EXCEPT ![p] = IF k > 0 THEN "wwake" ELSE "idle"]
                 /\ UNCHANGED <<tx, acc>>
      /\ UNCHANGED <<dev, log, out, wakes, devVars, work, got>>
  BY <1>1 DEF Goto
<1> HIDE DEF want
<1>5. k \in Nat /\ k <= FifoSize - Len(wfifo)
  BY <1>2, <1>3
<1>6. (Two => Len(wfifo) = Len(tx)) /\ (~Two => Len(wfifo) = Len(rx))
  BY DEF wfifo
<1> QED BY <1>4, <1>5, <1>6

\* A run of numbers stays one when the next k numbers are appended.
LEMMA RunGrows ==
  ASSUME NEW f \in Seq(Nat), NEW m \in Nat, NEW b \in Nat, m = b + Len(f), NEW k \in Nat,
         \A j \in 1 .. Len(f) : f[j] = b + j
  PROVE  LET g == f \o [j \in 1 .. k |-> m + j] IN
         g \in Seq(Nat) /\ Len(g) = Len(f) + k /\ \A j \in 1 .. Len(g) : g[j] = b + j
<1> DEFINE s == [j \in 1 .. k |-> m + j]
           g == f \o s
<1>1. s \in Seq(Nat) /\ Len(s) = k /\ \A j \in 1 .. k : s[j] = m + j
  BY Numbered
<1> HIDE DEF s
<1>2. /\ g \in Seq(Nat) /\ Len(g) = Len(f) + k
      /\ \A j \in 1 .. Len(g) : \/ j \in 1 .. Len(f) /\ g[j] = f[j]
                                \/ \E i \in 1 .. k : j = Len(f) + i /\ g[j] = s[i]
  BY <1>1, Joined
<1> HIDE DEF g
<1>3. ASSUME NEW j \in 1 .. Len(g) PROVE g[j] = b + j
  <2>1. CASE j \in 1 .. Len(f) /\ g[j] = f[j]
    BY <2>1
  <2>2. ASSUME NEW i \in 1 .. k, j = Len(f) + i, g[j] = s[i] PROVE g[j] = b + j
    <3>1. g[j] = m + i
      BY <1>1, <2>2
    <3>2. Len(f) \in Nat /\ i \in Nat
      OBVIOUS
    <3> QED BY <2>2, <3>1, <3>2
  <2> QED BY <1>2, <2>1, <2>2
<1> QED BY <1>2, <1>3 DEF g, s

\* write() appends the next numbers to the fifo it fills.
LEMMA WriteBytes == ASSUME BytesInv, NEW p \in Users, WriteCopy(p) PROVE BytesInv'
<1>0. /\ FifoSize \in Nat \ {0} /\ MaxRx \in Nat /\ MaxTx \in Nat
      /\ rx \in Seq(Nat) /\ tx \in Seq(Nat) /\ Len(rx) <= FifoSize /\ Len(tx) <= FifoSize
      /\ Len(rx) \in Nat /\ Len(tx) \in Nat
  BY KfifoAssumption DEF BytesInv, RxOK, TxOK
<1>1. CASE Two
  <2>0. /\ acc \in Nat /\ out \in Seq(Nat) /\ Len(out) \in Nat /\ acc = Len(out) + Len(tx)
        /\ \A j \in 1 .. Len(out) : out[j] = j
        /\ \A j \in 1 .. Len(tx) : tx[j] = Len(out) + j
    BY <1>1, <1>0 DEF BytesInv, TxOK
  <2>1. PICK k \in Nat : /\ k <= FifoSize - Len(tx) /\ acc + k <= MaxTx /\ acc' = acc + k
                         /\ tx' = tx \o [j \in 1 .. k |-> acc + j]
                         /\ UNCHANGED <<rx, made>>
    BY <1>0, <1>1, WritePuts
  <2>2. UNCHANGED <<dev, log, out>>
    BY <1>0, WritePuts
  <2>3. tx' \in Seq(Nat) /\ Len(tx') = Len(tx) + k /\ \A j \in 1 .. Len(tx') : tx'[j] = Len(out) + j
    BY <1>0, <2>0, <2>1, RunGrows
  <2>4. TxOK'
    <3>1. acc' \in 0 .. MaxTx /\ Len(tx') <= FifoSize /\ Len(out) + Len(tx') = acc'
      BY <1>0, <2>0, <2>1, <2>3
    <3> QED BY <1>1, <2>0, <2>2, <2>3, <3>1 DEF TxOK, Two
  <2> QED BY <2>1, <2>2, <2>4 DEF BytesInv, RxOK, LogOK
<1>2. CASE ~Two
  <2>0. /\ made \in Nat /\ Len(rx) <= made
        /\ \A j \in 1 .. Len(rx) : rx[j] = made - Len(rx) + j
    BY <1>0 DEF BytesInv, RxOK
  <2>1. PICK k \in Nat : /\ k <= FifoSize - Len(rx) /\ made + k <= MaxRx /\ made' = made + k
                         /\ rx' = rx \o [j \in 1 .. k |-> made + j]
                         /\ UNCHANGED <<tx, acc>>
    BY <1>0, <1>2, WritePuts
  <2>2. UNCHANGED <<dev, log, out>>
    BY <1>0, WritePuts
  <2> DEFINE b == made - Len(rx)
  <2>3. b \in Nat /\ made = b + Len(rx)
    BY <1>0, <2>0
  <2>4. rx' \in Seq(Nat) /\ Len(rx') = Len(rx) + k /\ \A j \in 1 .. Len(rx') : rx'[j] = b + j
    <3>1. \A j \in 1 .. Len(rx) : rx[j] = b + j
      BY <2>0
    <3> HIDE DEF b
    <3> QED BY <1>0, <2>0, <2>1, <2>3, <3>1, RunGrows
  <2>5. made' - Len(rx') = made - Len(rx)
    BY <1>0, <2>0, <2>1, <2>4
  <2>6. RxOK'
    <3>1. made' \in 0 .. MaxRx /\ Len(rx') <= FifoSize /\ Len(rx') <= made'
      BY <1>0, <2>0, <2>1, <2>4
    <3> QED BY <2>4, <2>5, <3>1 DEF RxOK
  <2> QED BY <2>1, <2>2, <2>5, <2>6 DEF BytesInv, LogOK, TxOK, Two
<1> QED BY <1>1, <1>2

\* The work item moves the oldest byte from tx to the hardware.
LEMMA WorkBytes == ASSUME BytesInv, tx_work_fn PROVE BytesInv'
<1>0. tx \in Seq(Nat) /\ out \in Seq(Nat) /\ tx # <<>> /\ Len(tx) \in Nat \ {0} /\ Len(out) \in Nat
  BY EmptySeq DEF BytesInv, TxOK, tx_work_fn, kfifo_is_empty
<1>1. /\ out' = Append(out, Head(tx)) /\ tx' = Tail(tx) /\ UNCHANGED <<dev, rx, made, log, acc>>
  BY DEF tx_work_fn, hw_tx_send_byte
<1>2. Two
  BY <1>0 DEF BytesInv, TxOK
<1>3. /\ Head(tx) \in Nat /\ Head(tx) = tx[1]
      /\ tx' \in Seq(Nat) /\ Len(tx') = Len(tx) - 1 /\ \A j \in 1 .. Len(tx) - 1 : tx'[j] = tx[j + 1]
  BY <1>0, <1>1, HeadTailProperties
<1>4. /\ out' \in Seq(Nat) /\ Len(out') = Len(out) + 1 /\ out'[Len(out) + 1] = tx[1]
      /\ \A j \in 1 .. Len(out) : out'[j] = out[j]
  BY <1>0, <1>1, <1>3, AppendProperties
<1>5. /\ Len(out) + Len(tx) = acc /\ \A j \in 1 .. Len(out) : out[j] = j
      /\ \A j \in 1 .. Len(tx) : tx[j] = Len(out) + j
      /\ acc \in 0 .. MaxTx /\ Len(tx) <= FifoSize /\ FifoSize \in Nat
  BY <1>2, KfifoAssumption DEF BytesInv, TxOK
<1>6. ASSUME NEW j \in 1 .. Len(out') PROVE out'[j] = j
  <2>1. j \in 1 .. Len(out) \/ j = Len(out) + 1
    BY <1>0, <1>4
  <2>2. tx[1] = Len(out) + 1
    BY <1>0, <1>5
  <2> QED BY <1>4, <1>5, <2>1, <2>2
<1>7. ASSUME NEW j \in 1 .. Len(tx') PROVE tx'[j] = Len(out') + j
  <2>1. j \in 1 .. Len(tx) - 1
    BY <1>3
  <2>2. j \in Nat /\ j <= Len(tx) - 1 /\ Len(out') = Len(out) + 1
    BY <1>0, <1>4, <2>1
  <2>3. j + 1 \in 1 .. Len(tx) /\ Len(out) + (j + 1) = Len(out') + j
    BY <1>0, <2>1, <2>2
  <2> QED BY <1>3, <1>5, <2>1, <2>3
<1>8. TxOK'
  <2>1. Len(out') + Len(tx') = acc' /\ Len(tx') <= FifoSize
    BY <1>0, <1>1, <1>3, <1>4, <1>5
  <2> QED BY <1>1, <1>2, <1>3, <1>4, <1>5, <1>6, <1>7, <2>1 DEF TxOK, Two
<1> QED BY <1>1, <1>8 DEF BytesInv, RxOK, LogOK

\* Every step preserves BytesInv.
LEMMA BytesStep == ASSUME BytesInv, [Next]_vars PROVE BytesInv'
<1>1. CASE UNCHANGED fifoVars
  <2>1. dev' = dev
    BY FifoSteps
  <2> QED BY <1>1, <2>1 DEF fifoVars, BytesInv, RxOK, LogOK, TxOK, Two
<1> QED BY <1>1, FifoSteps, HandlerBytes, ReadBytes, WriteBytes, WorkBytes

\* The bytes are in order at the start.
LEMMA BytesInit == ASSUME Init PROVE BytesInv
<1>0. MaxRx \in Nat /\ MaxTx \in Nat /\ FifoSize \in Nat
  BY KfifoAssumption
<1>1. << >> \in Seq(Nat) /\ Len(<< >>) = 0
  OBVIOUS
<1>2. rx = << >> /\ tx = << >> /\ log = << >> /\ out = << >> /\ made = 0 /\ acc = 0
  BY DEF Init
<1>3. RxOK
  BY <1>0, <1>1, <1>2 DEF RxOK
<1>4. LogOK
  BY <1>0, <1>1, <1>2 DEF LogOK
<1>5. TxOK
  BY <1>0, <1>1, <1>2 DEF TxOK
<1> QED BY <1>3, <1>4, <1>5 DEF BytesInv

\* The bytes are in order throughout.
THEOREM BytesCorrect == Spec => []BytesInv
<1>1. BytesInv /\ [Next]_vars => BytesInv'
  BY BytesStep
<1> QED BY <1>1, BytesInit, PTL DEF Spec

\* What a sequence joined of two holds lies in a set if both parts do.
LEMMA JoinedRange ==
  ASSUME NEW f \in Seq(Nat), NEW g \in Seq(Nat), NEW S,
         \A j \in 1 .. Len(f) : f[j] \in S, \A j \in 1 .. Len(g) : g[j] \in S
  PROVE  Range(f \o g) \subseteq S
<1> DEFINE h == f \o g
<1>1. /\ h \in Seq(Nat)
      /\ \A j \in 1 .. Len(h) : \/ j \in 1 .. Len(f) /\ h[j] = f[j]
                                \/ \E i \in 1 .. Len(g) : j = Len(f) + i /\ h[j] = g[i]
  BY Joined
<1> HIDE DEF h
<1>2. DOMAIN h = 1 .. Len(h)
  BY <1>1
<1>3. \A j \in DOMAIN h : h[j] \in S
  BY <1>1, <1>2
<1> QED BY <1>3 DEF Range, h

\* The inductive form implies what the run checks.
LEMMA BytesInOrder == ASSUME BaseInv, BytesInv PROVE FifoInv
<1>0. /\ made \in Nat /\ rx \in Seq(Nat) /\ Len(rx) \in Nat /\ log \in Seq(Nat) /\ Len(log) \in Nat
      /\ Len(rx) <= FifoSize /\ Len(rx) <= made /\ made \in 0 .. MaxRx /\ acc \in 0 .. MaxTx
      /\ tx \in Seq(Nat) /\ out \in Seq(Nat) /\ Len(tx) \in Nat /\ Len(out) \in Nat
      /\ Len(tx) <= FifoSize /\ acc \in Nat
      /\ \A j \in 1 .. Len(rx) : rx[j] = made - Len(rx) + j
      /\ \A j \in 1 .. Len(log) : log[j] \in 1 .. made - Len(rx)
      /\ \A j \in 2 .. Len(log) : log[j - 1] < log[j]
  <2>1. /\ rx \in Seq(Nat) /\ log \in Seq(Nat) /\ tx \in Seq(Nat) /\ out \in Seq(Nat)
        /\ made \in 0 .. MaxRx /\ acc \in 0 .. MaxTx
    BY DEF BytesInv, RxOK, LogOK, TxOK
  <2>2. /\ made \in Nat /\ acc \in Nat /\ Len(rx) \in Nat /\ Len(log) \in Nat
        /\ Len(tx) \in Nat /\ Len(out) \in Nat
    BY <2>1, KfifoAssumption
  <2> QED BY <2>1, <2>2 DEF BytesInv, RxOK, LogOK, TxOK
<1>1. Two => /\ acc = Len(out) + Len(tx) /\ \A j \in 1 .. Len(out) : out[j] = j
             /\ \A j \in 1 .. Len(tx) : tx[j] = Len(out) + j
  BY DEF BytesInv, TxOK
<1>2. RxHoldsNewest
  <2>1. DOMAIN rx = 1 .. Len(rx)
    BY <1>0
  <2> QED BY <1>0, <2>1 DEF RxHoldsNewest
<1>3. ReadInOrder
  <2> DEFINE all == log \o rx
  <2>1. /\ all \in Seq(Nat) /\ Len(all) = Len(log) + Len(rx)
        /\ \A j \in 1 .. Len(all) : \/ j \in 1 .. Len(log) /\ all[j] = log[j]
                                    \/ \E i \in 1 .. Len(rx) : j = Len(log) + i /\ all[j] = rx[i]
    BY <1>0, Joined
  <2> HIDE DEF all
  <2>2. ASSUME NEW j \in 2 .. Len(all) PROVE all[j - 1] < all[j]
    <3>1. j \in 1 .. Len(all) /\ j - 1 \in 1 .. Len(all) /\ Len(all) \in Nat /\ j \in Nat
      BY <1>0, <2>1
    <3>2. CASE j \in 1 .. Len(log) /\ all[j] = log[j]
      <4>1. j \in 2 .. Len(log) /\ ~ \E i \in 1 .. Len(rx) : j - 1 = Len(log) + i
        BY <1>0, <3>1, <3>2
      <4>2. all[j - 1] = log[j - 1]
        BY <2>1, <3>1, <4>1
      <4> QED BY <1>0, <3>2, <4>1, <4>2
    <3>3. ASSUME NEW i \in 1 .. Len(rx), j = Len(log) + i, all[j] = rx[i] PROVE all[j - 1] < all[j]
      <4>0. rx[i] = made - Len(rx) + i /\ i \in Nat \ {0}
        BY <1>0
      <4>1. CASE j - 1 \in 1 .. Len(log) /\ all[j - 1] = log[j - 1]
        <5>1. log[j - 1] \in 1 .. made - Len(rx)
          BY <1>0, <4>1
        <5>2. all[j - 1] \in 1 .. made - Len(rx) /\ all[j] = made - Len(rx) + i
          BY <3>3, <4>0, <4>1, <5>1
        <5>3. made - Len(rx) \in Int
          BY <1>0
        <5> QED BY ONLY <4>0, <5>2, <5>3
      <4>2. ASSUME NEW h \in 1 .. Len(rx), j - 1 = Len(log) + h, all[j - 1] = rx[h]
            PROVE  all[j - 1] < all[j]
        <5>1. h < i /\ rx[h] = made - Len(rx) + h
          <6>1. Len(log) + h = Len(log) + i - 1 /\ Len(log) \in Nat /\ h \in Int /\ i \in Int
            BY <1>0, <3>3, <4>2
          <6>2. h < i
            BY ONLY <6>1
          <6> QED BY <1>0, <6>2
        <5> QED BY <1>0, <3>3, <4>0, <4>2, <5>1
      <4> QED BY <2>1, <3>1, <4>1, <4>2
    <3> QED BY <2>1, <3>1, <3>2, <3>3
  <2> QED BY <2>2 DEF ReadInOrder, all
<1>4. TxInOrder
  <2> SUFFICES ASSUME Two PROVE out \o tx = [j \in 1 .. acc |-> j]
    BY DEF TxInOrder
  <2> DEFINE h == out \o tx
  <2>1. /\ h \in Seq(Nat) /\ Len(h) = acc
        /\ \A j \in 1 .. Len(h) : \/ j \in 1 .. Len(out) /\ h[j] = out[j]
                                  \/ \E i \in 1 .. Len(tx) : j = Len(out) + i /\ h[j] = tx[i]
    BY <1>0, <1>1, Joined
  <2> HIDE DEF h
  <2>2. \A j \in 1 .. Len(h) : h[j] = j
    BY <1>1, <2>1
  <2>3. h = [j \in 1 .. Len(h) |-> h[j]]
    BY <2>1
  <2>4. h = [j \in 1 .. acc |-> j]
    BY <2>1, <2>2, <2>3
  <2> QED BY <2>4 DEF h
<1>5. TypeOK
  <2>1. Range(rx \o log) \subseteq 1 .. made
    <3>1. \A j \in 1 .. Len(rx) : rx[j] \in 1 .. made
      <4> SUFFICES ASSUME NEW j \in 1 .. Len(rx) PROVE made - Len(rx) + j \in 1 .. made
        BY <1>0
      <4> QED BY <1>0
    <3>2. \A j \in 1 .. Len(log) : log[j] \in 1 .. made
      <4> SUFFICES ASSUME NEW j \in 1 .. Len(log) PROVE log[j] \in 1 .. made
        OBVIOUS
      <4>1. log[j] \in 1 .. made - Len(rx)
        BY <1>0
      <4> QED BY <1>0, <4>1
    <3> QED BY <1>0, <3>1, <3>2, JoinedRange
  <2>2. Range(tx \o out) \subseteq 1 .. acc
    <3>1. \A j \in 1 .. Len(tx) : tx[j] \in 1 .. acc
      <4> SUFFICES ASSUME NEW j \in 1 .. Len(tx) PROVE tx[j] \in 1 .. acc
        OBVIOUS
      <4>1. CASE Two
        <5>1. tx[j] = Len(out) + j /\ acc = Len(out) + Len(tx)
          BY <1>1, <4>1
        <5> QED BY <1>0, <5>1
      <4>2. CASE ~Two
        <5>1. Len(tx) = 0
          BY <4>2 DEF BytesInv, TxOK
        <5> QED BY <5>1
      <4> QED BY <4>1, <4>2
    <3>2. \A j \in 1 .. Len(out) : out[j] \in 1 .. acc
      <4> SUFFICES ASSUME NEW j \in 1 .. Len(out) PROVE out[j] \in 1 .. acc
        OBVIOUS
      <4>1. CASE Two
        <5>1. out[j] = j /\ acc = Len(out) + Len(tx)
          BY <1>1, <4>1
        <5> QED BY <1>0, <5>1
      <4>2. CASE ~Two
        <5>1. Len(out) = 0
          BY <4>2 DEF BytesInv, TxOK
        <5> QED BY <5>1
      <4> QED BY <4>1, <4>2
    <3> QED BY <1>0, <3>1, <3>2, JoinedRange
  <2>3. open_count \in 0 .. Cardinality(Users)
    <3>1. IsFiniteSet(Users)
      BY KfifoAssumption
    <3>2. Cardinality(Users) \in Nat
      BY <3>1, FS_CardinalityType
    <3>3. 0 \in 0 .. Cardinality(Users)
      BY <3>2
    <3> QED BY <3>3, HoldersCounted DEF BaseInv
  <2> QED BY <1>0, <2>1, <2>2, <2>3 DEF TypeOK, BaseInv, Places
<1> QED BY <1>2, <1>3, <1>4, <1>5 DEF FifoInv

(***************************************************************************)
(* For any number of users, any size of the fifos and calls of any length: *)
(* in both directions bytes keep their order and none is repeated.  rx     *)
(* loses its oldest bytes only, those that mydev_irq_handler overwrites,   *)
(* and what tx_work_fn sent followed by what tx still holds is exactly     *)
(* what write() accepted.                                                  *)
(***************************************************************************)
THEOREM BytesKeepOrder == Spec => []FifoInv
<1>1. BaseInv /\ BytesInv => FifoInv
  BY BytesInOrder
<1> QED BY <1>1, BaseCorrect, BytesCorrect, PTL

-----------------------------------------------------------------------------
(* The wake-ups *)

(***************************************************************************)
(* NoLostWakeup is not inductive alone: WorkStarts clears got, so got has  *)
(* to be clear while the work is not under way.                            *)
(***************************************************************************)
WakeInv ==
    /\ NoLostWakeup
    /\ got => work \in {"running", "again", "cancelling"}

\* Somebody sleeps on the queue of rx, or of the fifo that write() fills.
RxAsleep == \E p \in Users : at[p] \in {"rsleep", "psleep"}
TxAsleep == \E p \in Users : at[p] \in {"wsleep", "psleep"}

\* Only the work item itself, its start and its end touch got, and the work
\* stays under way while it is set.
LEMMA GotStep ==
  ASSUME BaseInv, WakeInv, [Next]_vars
  PROVE  got' => work' \in {"running", "again", "cancelling"}
<1>0. /\ got => work \in {"running", "again", "cancelling"}
      /\ work \in {"idle", "pending", "running", "again", "cancelling"}
  BY DEF WakeInv, BaseInv
<1>1. CASE WorkStarts \/ tx_work_fn \/ WorkEnds
  BY <1>0, <1>1 DEF WorkStarts, tx_work_fn, WorkEnds
<1>2. CASE IrqWakes \/ mydev_irq_handler \/ UNCHANGED vars
  BY <1>0, <1>2 DEF IrqWakes, mydev_irq_handler, vars, workVars
<1>3. ASSUME NEW p \in Users, WriteWake(p) \/ ReleaseCancel(p)
      PROVE  got' => work' \in {"running", "again", "cancelling"}
  BY <1>0, <1>3 DEF WriteWake, ReleaseCancel
<1>4. ASSUME NEW p \in Users,
             \/ Read(p) \/ ReadWait(p) \/ ReadCopy(p) \/ ReadWake(p) \/ Write(p) \/ WriteWait(p)
             \/ WriteCopy(p) \/ mydev_poll(p) \/ Interrupted(p) \/ mydev_open(p)
             \/ OpenRequest(p) \/ mydev_release(p) \/ ReleaseFree(p) \/ ReleaseFlush(p)
      PROVE  UNCHANGED <<work, got>>
  BY <1>4 DEF Read, ReadWait, ReadCopy, ReadWake, Write, WriteWait, WriteCopy, mydev_poll,
     Interrupted, mydev_open, OpenRequest, mydev_release, ReleaseFree, ReleaseFlush, workVars
<1> QED BY <1>0, <1>1, <1>2, <1>3, <1>4 DEF Next, Kernel, User

\* A step keeps every sleeper due if each queue's condition is still due, or
\* nobody sleeps on it.
LEMMA WakeFrame ==
  ASSUME \/ ~RxAsleep' \/ RxDue' , \/ ~TxAsleep' \/ TxDue'
  PROVE  NoLostWakeup'
BY DEF RxAsleep, TxAsleep, NoLostWakeup

\* One user moves and the fifos stay: a user that goes to sleep has found its
\* fifo empty or full, and one that owes a wake-up is not the one that moves.
LEMMA QuietMove ==
  ASSUME BaseInv, NoLostWakeup, NEW p \in Users, NEW l, at' = [at EXCEPT ![p] = l],
         at[p] \notin {"rwake", "wwake"}, UNCHANGED <<dev, rx, tx, wakes, got>>,
         l \in {"rsleep", "psleep"} => kfifo_is_empty(rx),
         l \in {"wsleep", "psleep"} => kfifo_is_full(wfifo)
  PROVE  NoLostWakeup'
<1>0. at \in [Users -> Places]
  BY DEF BaseInv
<1>1. at'[p] = l /\ \A q \in Users : q # p => at'[q] = at[q]
  BY <1>0
<1>2. /\ kfifo_is_empty(rx)' <=> kfifo_is_empty(rx)
      /\ kfifo_is_full(wfifo)' <=> kfifo_is_full(wfifo)
      /\ Two' <=> Two
  BY DEF kfifo_is_empty, kfifo_is_full, wfifo, Two
<1>3. RxDue => RxDue'
  BY <1>1, <1>2 DEF RxDue
<1>4. TxDue => TxDue'
  BY <1>1, <1>2 DEF TxDue
<1>5. ~RxAsleep' \/ RxDue'
  <2> SUFFICES ASSUME NEW q \in Users, at'[q] \in {"rsleep", "psleep"} PROVE RxDue'
    BY DEF RxAsleep
  <2>1. CASE q = p
    BY <1>1, <1>2, <2>1 DEF RxDue
  <2>2. CASE q # p
    BY <1>1, <1>3, <2>2 DEF NoLostWakeup
  <2> QED BY <2>1, <2>2
<1>6. ~TxAsleep' \/ TxDue'
  <2> SUFFICES ASSUME NEW q \in Users, at'[q] \in {"wsleep", "psleep"} PROVE TxDue'
    BY DEF TxAsleep
  <2>1. CASE q = p
    BY <1>1, <1>2, <2>1 DEF TxDue
  <2>2. CASE q # p
    BY <1>1, <1>4, <2>2 DEF NoLostWakeup
  <2> QED BY <2>1, <2>2
<1> QED BY <1>5, <1>6, WakeFrame

\* A wake-up of a queue, by a user that goes idle or by the kernel: nobody
\* sleeps on that queue, and who owes the other queue a wake-up still does.
LEMMA WakeMove ==
  ASSUME BaseInv, NoLostWakeup, NEW w \in [Users -> Places], NEW queue \in {"rx", "tx"},
         at' = Woken(w, queue), UNCHANGED <<dev, rx, tx>>,
         \A q \in Users : w[q] \in {"rsleep", "wsleep", "psleep"} => w[q] = at[q],
         queue = "rx" => /\ got' = got
                         /\ \A q \in Users : at[q] = "rwake" => w[q] = "rwake",
         queue = "tx" => /\ wakes' = wakes
                         /\ \A q \in Users : at[q] = "wwake" => w[q] = "wwake"
  PROVE  NoLostWakeup'
<1> DEFINE z == Woken(w, queue)
<1>1. /\ \A q \in Users : \/ z[q] = w[q]
                          \/ /\ w[q] \in {"rsleep", "wsleep", "psleep"}
                             /\ z[q] \in {"rwait", "wwait", "poll"}
      /\ queue = "rx" => \A q \in Users : z[q] \notin {"rsleep", "psleep"}
      /\ queue = "tx" => \A q \in Users : z[q] \notin {"wsleep", "psleep"}
  BY WokenUsers
<1>2. at' = z
  OBVIOUS
<1> HIDE DEF z
<1>3. /\ kfifo_is_empty(rx)' <=> kfifo_is_empty(rx)
      /\ kfifo_is_full(wfifo)' <=> kfifo_is_full(wfifo)
      /\ Two' <=> Two
  BY DEF kfifo_is_empty, kfifo_is_full, wfifo, Two
<1>4. \A q \in Users : at'[q] \in {"rsleep", "wsleep", "psleep"} => at'[q] = at[q]
  BY <1>1, <1>2
<1>5. CASE queue = "rx"
  <2>1. ~RxAsleep'
    BY <1>1, <1>2, <1>5 DEF RxAsleep
  <2>2. \A q \in Users : at[q] = "rwake" => at'[q] = "rwake"
    BY <1>1, <1>2, <1>5
  <2>3. TxDue => TxDue'
    BY <1>3, <1>5, <2>2 DEF TxDue
  <2>4. TxAsleep' => TxDue
    BY <1>4 DEF TxAsleep, NoLostWakeup
  <2> QED BY <2>1, <2>3, <2>4, WakeFrame
<1>6. CASE queue = "tx"
  <2>1. ~TxAsleep'
    BY <1>1, <1>2, <1>6 DEF TxAsleep
  <2>2. \A q \in Users : at[q] = "wwake" => at'[q] = "wwake"
    BY <1>1, <1>2, <1>6
  <2>3. RxDue => RxDue'
    BY <1>3, <1>6, <2>2 DEF RxDue
  <2>4. RxAsleep' => RxDue
    BY <1>4 DEF RxAsleep, NoLostWakeup
  <2> QED BY <2>1, <2>3, <2>4, WakeFrame
<1> QED BY <1>5, <1>6

\* The bytes that the four steps on the fifos move: what was full or empty and
\* is no longer so has somebody who will wake its queue.
LEMMA FifoMove ==
  ASSUME BaseInv, BytesInv, NoLostWakeup,
         \/ mydev_irq_handler \/ tx_work_fn \/ \E p \in Users : ReadCopy(p) \/ WriteCopy(p)
  PROVE  NoLostWakeup'
<1>0. /\ at \in [Users -> Places] /\ FifoSize \in Nat \ {0}
      /\ rx \in Seq(Nat) /\ tx \in Seq(Nat) /\ Len(rx) \in Nat /\ Len(tx) \in Nat
      /\ Len(rx) <= FifoSize /\ Len(tx) <= FifoSize /\ acc \in Nat /\ made \in Nat
  BY KfifoAssumption DEF BaseInv, BytesInv, RxOK, TxOK
<1>1. (RxAsleep => RxDue) /\ (TxAsleep => TxDue)
  BY DEF RxAsleep, TxAsleep, NoLostWakeup
<1>2. CASE mydev_irq_handler
  <2>1. wakes' /\ at' = at /\ tx' = tx /\ got' = got /\ dev' = dev /\ rx' = Overwrite(rx, made + 1)
    BY <1>2 DEF mydev_irq_handler, workVars
  <2>2. RxDue'
    BY <2>1 DEF RxDue
  <2>3. kfifo_is_full(rx) => kfifo_is_full(rx')
    <3>1. made + 1 \in Nat
      BY <1>0
    <3>2. kfifo_is_full(rx) => Len(Overwrite(rx, made + 1)) = Len(rx)
      BY <1>0, <3>1, OverwriteBytes
    <3> QED BY <2>1, <3>2 DEF kfifo_is_full
  <2>4. kfifo_is_full(wfifo) => kfifo_is_full(wfifo)'
    BY <2>1, <2>3 DEF kfifo_is_full, wfifo, Two
  <2>5. TxDue => TxDue'
    BY <2>1, <2>4 DEF TxDue
  <2>6. TxAsleep' => TxAsleep
    BY <2>1 DEF TxAsleep
  <2> QED BY <1>1, <2>2, <2>5, <2>6, WakeFrame
<1>3. CASE tx_work_fn
  <2>1. got' /\ UNCHANGED <<dev, rx, wakes, at>>
    BY <1>3 DEF tx_work_fn
  <2>2. TxDue'
    BY <2>1 DEF TxDue
  <2>3. (RxDue => RxDue') /\ (RxAsleep' => RxAsleep)
    BY <2>1 DEF RxDue, RxAsleep, Two, kfifo_is_empty
  <2> QED BY <1>1, <2>2, <2>3, WakeFrame
<1>4. ASSUME NEW p \in Users, ReadCopy(p) PROVE NoLostWakeup'
  <2>1. UNCHANGED <<dev, tx, wakes, got>> /\ at[p] = "rcopy"
    BY <1>0, <1>4, ReadTakes DEF workVars
  <2>2. PICK k \in 0 .. Len(rx), l \in {"rwake", "idle"} :
          /\ rx' = SubSeq(rx, k + 1, Len(rx))
          /\ k > 0 /\ ~Two => l = "rwake"
          /\ at' = [at EXCEPT ![p] = l]
    BY <1>0, <1>4, ReadTakes
  <2>3. (\A q \in Users : q # p => at'[q] = at[q]) /\ at'[p] = l
    BY <1>0, <2>2
  <2>4. (RxAsleep' => RxAsleep) /\ (TxAsleep' => TxAsleep)
    BY <2>1, <2>3 DEF RxAsleep, TxAsleep
  <2>5. RxDue => RxDue'
    <3>1. rx = << >> => rx' = << >>
      BY <2>2
    <3> QED BY <2>1, <2>3, <3>1 DEF RxDue, kfifo_is_empty, Two
  <2>6. TxDue => TxDue'
    <3>1. CASE l = "rwake"
      BY <2>3, <3>1 DEF TxDue
    <3>2. CASE l # "rwake"
      <4>1. ~Two => rx' = rx
        <5>1. ~Two => k = 0
          BY <2>2, <3>2
        <5>2. SubSeq(rx, 1, Len(rx)) = rx
          BY <1>0
        <5> QED BY <2>2, <5>1, <5>2
      <4> QED BY <2>1, <2>3, <4>1 DEF TxDue, kfifo_is_full, wfifo, Two
    <3> QED BY <3>1, <3>2
  <2> QED BY <1>1, <2>4, <2>5, <2>6, WakeFrame
<1>5. ASSUME NEW p \in Users, WriteCopy(p) PROVE NoLostWakeup'
  <2>1. UNCHANGED <<dev, wakes, got>> /\ at[p] = "wcopy"
    BY <1>0, <1>5, WritePuts DEF workVars
  <2>2. CASE Two
    <3>1. PICK k \in Nat : /\ k <= FifoSize - Len(tx) /\ tx' = tx \o [j \in 1 .. k |-> acc + j]
                           /\ \E l \in {"wwake", "idle"} : at' = [at EXCEPT ![p] = l]
                           /\ rx' = rx
      BY <1>0, <1>5, <2>2, WritePuts
    <3>2. at'[p] \in {"wwake", "idle"} /\ \A q \in Users : q # p => at'[q] = at[q]
      BY <1>0, <3>1
    <3>3. (RxAsleep' => RxAsleep) /\ (TxAsleep' => TxAsleep)
      BY <2>1, <3>2 DEF RxAsleep, TxAsleep
    <3>4. RxDue => RxDue'
      BY <2>1, <2>2, <3>1 DEF RxDue, kfifo_is_empty, Two
    <3>5. Len(tx) = FifoSize => Len(tx') = FifoSize
      <4> DEFINE s == [j \in 1 .. k |-> acc + j]
      <4>1. s \in Seq(Nat) /\ Len(s) = k
        BY <1>0, Numbered
      <4> HIDE DEF s
      <4>2. Len(tx \o s) = Len(tx) + k
        BY <1>0, <4>1, Joined
      <4>3. tx' = tx \o s
        BY <3>1 DEF s
      <4> QED BY <1>0, <3>1, <4>2, <4>3
    <3>6. TxDue => TxDue'
      BY <2>1, <2>2, <3>2, <3>5 DEF TxDue, kfifo_is_full, wfifo, Two
    <3> QED BY <1>1, <3>3, <3>4, <3>6, WakeFrame
  <2>3. CASE ~Two
    <3>1. PICK k \in Nat : /\ k <= FifoSize - Len(rx) /\ rx' = rx \o [j \in 1 .. k |-> made + j]
                           /\ at' = [at EXCEPT ![p] = IF k > 0 THEN "wwake" ELSE "idle"]
                           /\ tx' = tx
      BY <1>0, <1>5, <2>3, WritePuts DEF wfifo
    <3>2. /\ at'[p] = (IF k > 0 THEN "wwake" ELSE "idle")
          /\ \A q \in Users : q # p => at'[q] = at[q]
      BY <1>0, <3>1
    <3>3. RxAsleep' => RxAsleep
      BY <2>1, <3>2 DEF RxAsleep
    <3>4. TxAsleep' => TxAsleep
      BY <2>1, <3>2 DEF TxAsleep
    <3>5. Len(rx') = Len(rx) + k
      <4> DEFINE s == [j \in 1 .. k |-> made + j]
      <4>1. s \in Seq(Nat) /\ Len(s) = k
        BY <1>0, Numbered
      <4> HIDE DEF s
      <4>2. Len(rx \o s) = Len(rx) + k
        BY <1>0, <4>1, Joined
      <4>3. rx' = rx \o s
        BY <3>1 DEF s
      <4> QED BY <1>0, <4>2, <4>3
    <3>6. Len(rx) = FifoSize => Len(rx') = FifoSize
      BY <1>0, <3>1, <3>5
    <3>7. TxDue => TxDue'
      BY <2>1, <2>3, <3>2, <3>6 DEF TxDue, kfifo_is_full, wfifo, Two
    <3>8. CASE k > 0
      <4>1. RxDue'
        BY <2>1, <2>3, <3>2, <3>8 DEF RxDue, Two
      <4> QED BY <1>1, <3>4, <3>7, <4>1, WakeFrame
    <3>9. CASE k = 0
      <4>1. rx = << >> => rx' = << >>
        BY <1>0, <3>5, <3>9, EmptySeq
      <4>2. RxDue => RxDue'
        BY <2>1, <2>3, <3>2, <4>1 DEF RxDue, kfifo_is_empty, Two
      <4> QED BY <1>1, <3>3, <3>4, <3>7, <4>2, WakeFrame
    <3> QED BY <1>0, <3>8, <3>9
  <2> QED BY <2>2, <2>3
<1> QED BY <1>2, <1>3, <1>4, <1>5

\* Every step keeps the sleepers due.
LEMMA WakeStep == ASSUME BaseInv, BytesInv, WakeInv, [Next]_vars PROVE WakeInv'
<1>0. /\ at \in [Users -> Places] /\ NoLostWakeup /\ got \in BOOLEAN
      /\ got => work \in {"running", "again", "cancelling"}
  BY DEF BaseInv, WakeInv
<1> USE DEF fifoVars, devVars, workVars
<1> SUFFICES NoLostWakeup'
  BY GotStep DEF WakeInv
<1>1. ASSUME NEW p \in Users, Read(p) \/ ReadWait(p) PROVE NoLostWakeup'
  <2>1. /\ at[p] \notin {"rwake", "wwake"} /\ UNCHANGED <<dev, rx, tx, wakes, got>>
        /\ \/ at' = [at EXCEPT ![p] = "rcopy"]
           \/ at' = [at EXCEPT ![p] = "rsleep"] /\ kfifo_is_empty(rx)
    BY <1>1 DEF Read, ReadWait, Goto
  <2> QED BY <1>0, <2>1, QuietMove
<1>2. ASSUME NEW p \in Users, Write(p) \/ WriteWait(p) PROVE NoLostWakeup'
  <2>1. /\ at[p] \notin {"rwake", "wwake"} /\ UNCHANGED <<dev, rx, tx, wakes, got>>
        /\ \/ at' = [at EXCEPT ![p] = "wcopy"]
           \/ at' = [at EXCEPT ![p] = "wsleep"] /\ kfifo_is_full(wfifo)
    BY <1>2 DEF Write, WriteWait, Goto
  <2> QED BY <1>0, <2>1, QuietMove
<1>3. ASSUME NEW p \in Users, mydev_poll(p) PROVE NoLostWakeup'
  <2>1. /\ at[p] \notin {"rwake", "wwake"} /\ UNCHANGED <<dev, rx, tx, wakes, got>>
        /\ \/ at' = [at EXCEPT ![p] = "idle"]
           \/ at' = [at EXCEPT ![p] = "psleep"] /\ poll_mask = {}
    BY <1>3 DEF mydev_poll, Goto
  <2>2. poll_mask = {} => kfifo_is_empty(rx) /\ kfifo_is_full(wfifo)
    BY DEF poll_mask
  <2> QED BY <1>0, <2>1, <2>2, QuietMove
<1>4. ASSUME NEW p \in Users,
             \/ Interrupted(p) \/ mydev_open(p) \/ OpenRequest(p) \/ mydev_release(p)
             \/ ReleaseFree(p) \/ ReleaseCancel(p) \/ ReleaseFlush(p)
      PROVE  NoLostWakeup'
  <2>1. /\ at[p] \notin {"rwake", "wwake"} /\ UNCHANGED <<dev, rx, tx, wakes, got>>
        /\ \E l \in {"idle", "request", "closed", "free", "cancel", "flush"} :
              at' = [at EXCEPT ![p] = l]
    BY <1>4 DEF Interrupted, mydev_open, OpenRequest, mydev_release, ReleaseFree, ReleaseCancel,
       ReleaseFlush, Goto
  <2> QED BY <1>0, <2>1, QuietMove
<1>5. ASSUME NEW p \in Users, ReadWake(p) PROVE NoLostWakeup'
  <2> DEFINE w == [at EXCEPT ![p] = "idle"]
  <2>1. at[p] = "rwake" /\ at' = Woken(w, "tx") /\ UNCHANGED <<dev, rx, tx, wakes>>
    BY <1>5 DEF ReadWake
  <2>2. /\ w \in [Users -> Places]
        /\ \A q \in Users : w[q] \in {"rsleep", "wsleep", "psleep"} => w[q] = at[q]
        /\ \A q \in Users : at[q] = "wwake" => w[q] = "wwake"
    BY <1>0, <2>1 DEF Places
  <2> HIDE DEF w
  <2> QED BY <1>0, <2>1, <2>2, WakeMove
<1>6. ASSUME NEW p \in Users, WriteWake(p) PROVE NoLostWakeup'
  <2> DEFINE w == [at EXCEPT ![p] = "idle"]
  <2>1. at[p] = "wwake" /\ UNCHANGED <<dev, rx, tx, wakes, got>>
    BY <1>6 DEF WriteWake
  <2>2. /\ w \in [Users -> Places]
        /\ \A q \in Users : w[q] \in {"rsleep", "wsleep", "psleep"} => w[q] = at[q]
        /\ \A q \in Users : at[q] = "rwake" => w[q] = "rwake"
    BY <1>0, <2>1 DEF Places
  <2>3. CASE ~Two
    <3>1. at' = Woken(w, "rx")
      BY <1>6, <2>3 DEF WriteWake
    <3> HIDE DEF w
    <3> QED BY <1>0, <2>1, <2>2, <3>1, WakeMove
  <2>4. CASE Two
    <3>1. at' = w
      BY <1>6, <2>4 DEF WriteWake
    <3> HIDE DEF w
    <3>2. RxDue => RxDue'
      BY <2>1, <2>4 DEF RxDue, Two, kfifo_is_empty
    <3>3. TxDue => TxDue'
      BY <2>1, <2>2, <3>1 DEF TxDue, kfifo_is_full, wfifo, Two
    <3>4. \A q \in Users : at'[q] \in {"rsleep", "wsleep", "psleep"} => at'[q] = at[q]
      BY <2>2, <3>1
    <3>5. (RxAsleep' => RxDue) /\ (TxAsleep' => TxDue)
      BY <1>0, <3>4 DEF RxAsleep, TxAsleep, NoLostWakeup
    <3> QED BY <3>2, <3>3, <3>5, WakeFrame
  <2> QED BY <2>3, <2>4
<1>7. CASE IrqWakes
  <2>1. at' = Woken(at, "rx") /\ UNCHANGED <<dev, rx, tx, got>>
    BY <1>7 DEF IrqWakes
  <2>2. PICK w \in [Users -> Places] : w = at
    BY <1>0
  <2>3. at' = Woken(w, "rx") /\ \A q \in Users : w[q] = at[q]
    BY <2>1, <2>2
  <2> QED BY <1>0, <2>1, <2>3, WakeMove
<1>8. CASE at' = at /\ UNCHANGED <<dev, rx, tx, wakes, got>>
  <2>1. (RxDue => RxDue') /\ (TxDue => TxDue')
    BY <1>8 DEF RxDue, TxDue, kfifo_is_empty, kfifo_is_full, wfifo, Two
  <2>2. (RxAsleep' => RxDue) /\ (TxAsleep' => TxDue)
    BY <1>0, <1>8 DEF RxAsleep, TxAsleep, NoLostWakeup
  <2> QED BY <2>1, <2>2, WakeFrame
<1>9. CASE WorkEnds
  <2>1. CASE got
    <3>1. at' = Woken(at, "tx") /\ UNCHANGED <<dev, rx, tx, wakes>>
      BY <1>9, <2>1 DEF WorkEnds
    <3>2. PICK w \in [Users -> Places] : w = at
      BY <1>0
    <3>3. at' = Woken(w, "tx") /\ \A q \in Users : w[q] = at[q]
      BY <3>1, <3>2
    <3> QED BY <1>0, <3>1, <3>3, WakeMove
  <2>2. CASE ~got
    <3>1. at' = at /\ UNCHANGED <<dev, rx, tx, wakes, got>>
      BY <1>0, <1>9, <2>2 DEF WorkEnds
    <3> QED BY <1>8, <3>1
  <2> QED BY <2>1, <2>2
<1>10. CASE WorkStarts \/ UNCHANGED vars
  <2>1. at' = at /\ UNCHANGED <<dev, rx, tx, wakes, got>>
    BY <1>0, <1>10 DEF WorkStarts, vars
  <2> QED BY <1>8, <2>1
<1>11. CASE mydev_irq_handler \/ tx_work_fn \/ \E p \in Users : ReadCopy(p) \/ WriteCopy(p)
  BY <1>0, <1>11, FifoMove
<1> QED
  BY <1>1, <1>2, <1>3, <1>4, <1>5, <1>6, <1>7, <1>9, <1>10, <1>11 DEF Next, Kernel, User

(***************************************************************************)
(* For any number of users: whoever sleeps in read(), write() or poll()    *)
(* waits for a condition that does not hold, or somebody has yet to wake   *)
(* the queue it sleeps on.  That is so although every test is made without *)
(* the lock and every wake-up comes after it is released.                  *)
(***************************************************************************)
THEOREM WakeupsNotLost == Spec => []NoLostWakeup
<1>1. ASSUME Init PROVE WakeInv
  <2>1. got = FALSE /\ rx = << >> /\ \A p \in Users : at[p] \in {"closed", "idle"}
    BY <1>1 DEF Init
  <2> QED BY <2>1 DEF WakeInv, NoLostWakeup
<1>2. BaseInv /\ BytesInv /\ WakeInv /\ [Next]_vars => WakeInv'
  BY WakeStep
<1>3. WakeInv => NoLostWakeup
  BY DEF WakeInv
<1> QED BY <1>1, <1>2, <1>3, BaseCorrect, BytesCorrect, PTL DEF Spec
=============================================================================
