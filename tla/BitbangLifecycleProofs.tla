----------------------- MODULE BitbangLifecycleProofs -----------------------
(***************************************************************************)
(* Proofs about BitbangLifecycle, for any periods and any number of        *)
(* processes that store one.                                               *)
(***************************************************************************)
EXTENDS BitbangLifecycle, FiniteSetTheorems, SequenceTheorems, TLAPS

StepSet == {"region", "cdev", "class", "device", "period", "dbg", "proc", "uart",
            "rx_gpio", "rx_dir", "tx_gpio", "tx_dir", "irq"}

(* c is a followed by b.                                                   *)
Split(a, b, c) ==
    /\ Len(c) = Len(a) + Len(b)
    /\ \A i \in 1 .. Len(a) : c[i] = a[i]
    /\ \A i \in 1 .. Len(b) : c[Len(a) + i] = b[i]

(* What two sequences put together are.                                    *)
LEMMA Joined ==
  ASSUME NEW a \in Seq(StepSet), NEW b \in Seq(StepSet), NEW c \in Seq(StepSet), Split(a, b, c)
  PROVE  a \o b = c
<1>1. Len(a) \in Nat /\ Len(b) \in Nat
  OBVIOUS
<1> DEFINE d == a \o b
<1>2. /\ d \in Seq(StepSet) /\ Len(d) = Len(a) + Len(b)
      /\ \A i \in 1 .. Len(a) + Len(b) : d[i] = IF i <= Len(a) THEN a[i] ELSE b[i - Len(a)]
  BY ConcatProperties
<1> HIDE DEF d
<1>3. ASSUME NEW i \in 1 .. Len(c) PROVE d[i] = c[i]
  <2>1. CASE i <= Len(a)
    BY <1>1, <1>2, <1>3, <2>1 DEF Split
  <2>2. CASE ~(i <= Len(a))
    <3>1. i - Len(a) \in 1 .. Len(b) /\ Len(a) + (i - Len(a)) = i
      BY <1>1, <1>3, <2>2 DEF Split
    <3> QED BY <1>1, <1>2, <1>3, <2>2, <3>1 DEF Split
  <2> QED BY <2>1, <2>2
<1>4. d = c
  BY <1>1, <1>2, <1>3, SeqEqual DEF Split
<1> QED BY <1>4 DEF d

(* The steps of probe, written out.                                        *)
LEMMA StepsAre ==
  ProbeSteps = <<"region", "cdev", "class", "device", "period", "dbg", "proc", "uart",
                 "rx_gpio", "rx_dir", "tx_gpio", "tx_dir", "irq">>
<1>1. <<"uart">> \o <<"rx_gpio", "rx_dir">>
       = <<"uart", "rx_gpio", "rx_dir">>
  <2> DEFINE a == <<"uart">>
             b == <<"rx_gpio", "rx_dir">>
             c == <<"uart", "rx_gpio", "rx_dir">>
  <2>1. a \in Seq(StepSet) /\ b \in Seq(StepSet) /\ c \in Seq(StepSet)
    BY DEF StepSet
  <2>2. Split(a, b, c)
    BY DEF Split
  <2> HIDE DEF a, b, c
  <2>3. a \o b = c
    BY <2>1, <2>2, Joined
  <2> QED BY <2>3 DEF a, b, c
<1>2. <<"uart", "rx_gpio", "rx_dir">> \o <<"tx_gpio", "tx_dir">>
       = <<"uart", "rx_gpio", "rx_dir", "tx_gpio", "tx_dir">>
  <2> DEFINE a == <<"uart", "rx_gpio", "rx_dir">>
             b == <<"tx_gpio", "tx_dir">>
             c == <<"uart", "rx_gpio", "rx_dir", "tx_gpio", "tx_dir">>
  <2>1. a \in Seq(StepSet) /\ b \in Seq(StepSet) /\ c \in Seq(StepSet)
    BY DEF StepSet
  <2>2. Split(a, b, c)
    BY DEF Split
  <2> HIDE DEF a, b, c
  <2>3. a \o b = c
    BY <2>1, <2>2, Joined
  <2> QED BY <2>3 DEF a, b, c
<1>3. <<"uart", "rx_gpio", "rx_dir", "tx_gpio", "tx_dir">> \o <<"irq">>
       = <<"uart", "rx_gpio", "rx_dir", "tx_gpio", "tx_dir", "irq">>
  <2> DEFINE a == <<"uart", "rx_gpio", "rx_dir", "tx_gpio", "tx_dir">>
             b == <<"irq">>
             c == <<"uart", "rx_gpio", "rx_dir", "tx_gpio", "tx_dir", "irq">>
  <2>1. a \in Seq(StepSet) /\ b \in Seq(StepSet) /\ c \in Seq(StepSet)
    BY DEF StepSet
  <2>2. Split(a, b, c)
    BY DEF Split
  <2> HIDE DEF a, b, c
  <2>3. a \o b = c
    BY <2>1, <2>2, Joined
  <2> QED BY <2>3 DEF a, b, c
<1>4. <<"region", "cdev", "class", "device">> \o <<"period", "dbg">>
       = <<"region", "cdev", "class", "device", "period", "dbg">>
  <2> DEFINE a == <<"region", "cdev", "class", "device">>
             b == <<"period", "dbg">>
             c == <<"region", "cdev", "class", "device", "period", "dbg">>
  <2>1. a \in Seq(StepSet) /\ b \in Seq(StepSet) /\ c \in Seq(StepSet)
    BY DEF StepSet
  <2>2. Split(a, b, c)
    BY DEF Split
  <2> HIDE DEF a, b, c
  <2>3. a \o b = c
    BY <2>1, <2>2, Joined
  <2> QED BY <2>3 DEF a, b, c
<1>5. <<"region", "cdev", "class", "device", "period", "dbg">> \o <<"proc">>
       = <<"region", "cdev", "class", "device", "period", "dbg", "proc">>
  <2> DEFINE a == <<"region", "cdev", "class", "device", "period", "dbg">>
             b == <<"proc">>
             c == <<"region", "cdev", "class", "device", "period", "dbg", "proc">>
  <2>1. a \in Seq(StepSet) /\ b \in Seq(StepSet) /\ c \in Seq(StepSet)
    BY DEF StepSet
  <2>2. Split(a, b, c)
    BY DEF Split
  <2> HIDE DEF a, b, c
  <2>3. a \o b = c
    BY <2>1, <2>2, Joined
  <2> QED BY <2>3 DEF a, b, c
<1>6. <<"region", "cdev", "class", "device", "period", "dbg", "proc">> \o <<"uart", "rx_gpio", "rx_dir", "tx_gpio", "tx_dir", "irq">>
       = <<"region", "cdev", "class", "device", "period", "dbg", "proc", "uart",
           "rx_gpio", "rx_dir", "tx_gpio", "tx_dir", "irq">>
  <2> DEFINE a == <<"region", "cdev", "class", "device", "period", "dbg", "proc">>
             b == <<"uart", "rx_gpio", "rx_dir", "tx_gpio", "tx_dir", "irq">>
             c == <<"region", "cdev", "class", "device", "period", "dbg", "proc", "uart",
                    "rx_gpio", "rx_dir", "tx_gpio", "tx_dir", "irq">>
  <2>1. a \in Seq(StepSet) /\ b \in Seq(StepSet) /\ c \in Seq(StepSet)
    BY DEF StepSet
  <2>2. Split(a, b, c)
    BY DEF Split
  <2> HIDE DEF a, b, c
  <2>3. a \o b = c
    BY <2>1, <2>2, Joined
  <2> QED BY <2>3 DEF a, b, c
<1> QED BY <1>1, <1>2, <1>3, <1>4, <1>5, <1>6
        DEF ProbeSteps, bitbang_sysfs_init, bitbang_uart_init, gpio_init, irq_init

(* The steps and the resources as sets.                                    *)
LEMMA StepRange ==
  /\ Range(ProbeSteps) = StepSet
  /\ Resources = {"region", "cdev", "class", "device", "period", "dbg", "proc", "rx_gpio",
                  "tx_gpio", "irq"}
<1>1. Range(ProbeSteps) = StepSet
  BY StepsAre DEF Range, StepSet
<1> QED BY <1>1 DEF Resources, StepSet

(* A step of probe leads to the next one in the order of the code.         *)
LEMMA NextIs ==
  ASSUME NEW j \in 1 .. 12
  PROVE  NextStep(ProbeSteps[j]) = ProbeSteps[j + 1]
<1>1. \A i \in DOMAIN ProbeSteps : i > 1 /\ ProbeSteps[i - 1] = ProbeSteps[j] <=> i = j + 1
  BY StepsAre
<1>2. j + 1 \in DOMAIN ProbeSteps
  BY StepsAre
<1> QED BY <1>1, <1>2 DEF NextStep

(* The order written out.                                                  *)
LEMMA StepOrder ==
  /\ ProbeSteps[1] = "region"
  /\ NextStep("region") = "cdev"
  /\ NextStep("cdev") = "class"
  /\ NextStep("class") = "device"
  /\ NextStep("device") = "period"
  /\ NextStep("period") = "dbg"
  /\ NextStep("dbg") = "proc"
  /\ NextStep("proc") = "uart"
  /\ NextStep("uart") = "rx_gpio"
  /\ NextStep("rx_gpio") = "rx_dir"
  /\ NextStep("rx_dir") = "tx_gpio"
  /\ NextStep("tx_gpio") = "tx_dir"
  /\ NextStep("tx_dir") = "irq"
BY StepsAre, NextIs

----------------------------------------------------------------------------
(* What is left to undo                                                    *)

Todo == Resources \union Timers

(* t names each member of R once, and nothing else.                        *)
Once(t, R) ==
    /\ t \in Seq(Todo)
    /\ \A i, j \in 1 .. Len(t) : t[i] = t[j] => i = j
    /\ R = {t[i] : i \in 1 .. Len(t)}

(* Nothing is listed by the empty sequence.                                *)
LEMMA OnceEmpty == Once(<<>>, {})
BY DEF Once

(* A sequence of one entry lists that entry.                               *)
LEMMA OnceOne == ASSUME NEW r \in Todo PROVE Once(<<r>>, {r})
BY DEF Once

(* The two timers, in the order in which they are cancelled.               *)
LEMMA OncePair == Once(<<"tx_timer", "rx_timer">>, Timers)
<1>1. <<"tx_timer", "rx_timer">> \in Seq(Todo)
  BY DEF Todo, Timers
<1>2. {<<"tx_timer", "rx_timer">>[i] : i \in 1 .. 2} = Timers
  BY DEF Timers
<1> QED BY <1>1, <1>2 DEF Once

(* Two lists of different things, one after the other.                     *)
LEMMA OnceJoin ==
  ASSUME NEW u, NEW v, NEW R, NEW Q, Once(u, R), Once(v, Q), R \intersect Q = {}
  PROVE  Once(u \o v, R \union Q)
<1>0. u \in Seq(Todo) /\ v \in Seq(Todo) /\ Len(u) \in Nat /\ Len(v) \in Nat
  BY DEF Once
<1> DEFINE d == u \o v
<1>1. /\ d \in Seq(Todo) /\ Len(d) = Len(u) + Len(v)
      /\ \A i \in 1 .. Len(u) + Len(v) : d[i] = IF i <= Len(u) THEN u[i] ELSE v[i - Len(u)]
  BY <1>0, ConcatProperties
<1> HIDE DEF d
<1>2. ASSUME NEW i \in 1 .. Len(u) PROVE i \in 1 .. Len(d) /\ d[i] = u[i] /\ d[i] \in R
  BY <1>0, <1>1, <1>2 DEF Once
<1>3. ASSUME NEW i \in 1 .. Len(d), i > Len(u)
      PROVE  i - Len(u) \in 1 .. Len(v) /\ d[i] = v[i - Len(u)] /\ d[i] \in Q
  <2>1. i - Len(u) \in 1 .. Len(v) /\ d[i] = v[i - Len(u)]
    BY <1>0, <1>1, <1>3
  <2> QED BY <2>1 DEF Once
<1>4. \A i, j \in 1 .. Len(d) : d[i] = d[j] => i = j
  <2> SUFFICES ASSUME NEW i \in 1 .. Len(d), NEW j \in 1 .. Len(d), d[i] = d[j] PROVE i = j
    OBVIOUS
  <2>1. i \in Nat /\ j \in Nat /\ i >= 1 /\ j >= 1
    BY <1>0, <1>1
  <2>2. CASE i <= Len(u) /\ j <= Len(u)
    <3>1. i \in 1 .. Len(u) /\ j \in 1 .. Len(u)
      BY <1>0, <2>1, <2>2
    <3> QED BY <1>2, <3>1 DEF Once
  <2>3. CASE i > Len(u) /\ j > Len(u)
    <3>1. /\ i - Len(u) \in 1 .. Len(v) /\ j - Len(u) \in 1 .. Len(v)
          /\ v[i - Len(u)] = v[j - Len(u)]
      BY <1>3, <2>3
    <3>2. i - Len(u) = j - Len(u)
      BY <3>1 DEF Once
    <3> QED BY <1>0, <2>1, <3>2
  <2>4. CASE i <= Len(u) /\ j > Len(u)
    <3>1. i \in 1 .. Len(u)
      BY <1>0, <2>1, <2>4
    <3> QED BY <1>2, <1>3, <2>4, <3>1
  <2>5. CASE i > Len(u) /\ j <= Len(u)
    <3>1. j \in 1 .. Len(u)
      BY <1>0, <2>1, <2>5
    <3> QED BY <1>2, <1>3, <2>5, <3>1
  <2> QED BY <1>0, <2>1, <2>2, <2>3, <2>4, <2>5
<1>5. R \union Q = {d[i] : i \in 1 .. Len(d)}
  <2>1. ASSUME NEW r \in R PROVE r \in {d[i] : i \in 1 .. Len(d)}
    <3>1. PICK i \in 1 .. Len(u) : r = u[i]
      BY <2>1 DEF Once
    <3> QED BY <1>2, <3>1
  <2>2. ASSUME NEW r \in Q PROVE r \in {d[i] : i \in 1 .. Len(d)}
    <3>1. PICK i \in 1 .. Len(v) : r = v[i]
      BY <2>2 DEF Once
    <3>2. PICK k \in 1 .. Len(d) : k = Len(u) + i
      BY <1>0, <1>1
    <3>3. k > Len(u) /\ k - Len(u) = i
      BY <1>0, <3>2
    <3> QED BY <1>3, <3>1, <3>3
  <2>3. ASSUME NEW i \in 1 .. Len(d) PROVE d[i] \in R \union Q
    <3>1. CASE i <= Len(u)
      <4>1. i \in 1 .. Len(u)
        BY <1>0, <1>1, <2>3, <3>1
      <4> QED BY <1>2, <4>1
    <3>2. CASE i > Len(u)
      BY <1>3, <3>2
    <3> QED BY <1>0, <1>1, <3>1, <3>2
  <2> QED BY <2>1, <2>2, <2>3
<1>6. Once(d, R \union Q)
  BY <1>1, <1>4, <1>5 DEF Once
<1> QED BY <1>6 DEF d

(* The first entry taken off: the rest lists everything else.              *)
LEMMA OnceTail ==
  ASSUME NEW t, NEW R, Once(t, R), t # <<>>
  PROVE  Head(t) \in R /\ Head(t) \in Todo /\ Once(Tail(t), R \ {Head(t)})
<1>0. t \in Seq(Todo) /\ Len(t) \in Nat /\ Len(t) >= 1 /\ Head(t) = t[1] /\ 1 \in 1 .. Len(t)
  BY EmptySeq DEF Once
<1> DEFINE d == Tail(t)
<1>1. /\ d \in Seq(Todo) /\ Len(d) = Len(t) - 1 /\ \A i \in 1 .. Len(d) : d[i] = t[i + 1]
      /\ Head(t) \in Todo
  BY <1>0, HeadTailProperties
<1> HIDE DEF d
<1>2. \A i \in 1 .. Len(d) : i + 1 \in 1 .. Len(t) /\ i + 1 # 1
  BY <1>0, <1>1
<1>3. \A i, j \in 1 .. Len(d) : d[i] = d[j] => i = j
  <2> SUFFICES ASSUME NEW i \in 1 .. Len(d), NEW j \in 1 .. Len(d), d[i] = d[j] PROVE i = j
    OBVIOUS
  <2>1. i + 1 = j + 1
    BY <1>1, <1>2 DEF Once
  <2> QED BY <2>1
<1>4. R \ {t[1]} = {d[i] : i \in 1 .. Len(d)}
  <2>1. ASSUME NEW r \in R, r # t[1] PROVE r \in {d[i] : i \in 1 .. Len(d)}
    <3>1. PICK i \in 1 .. Len(t) : r = t[i]
      BY <2>1 DEF Once
    <3>2. i # 1
      BY <2>1, <3>1
    <3>3. PICK k \in 1 .. Len(d) : k + 1 = i
      <4>1. i - 1 \in 1 .. Len(d) /\ (i - 1) + 1 = i
        BY <1>0, <1>1, <3>2
      <4> QED BY <4>1
    <3> QED BY <1>1, <3>1, <3>3
  <2>2. ASSUME NEW i \in 1 .. Len(d) PROVE d[i] \in R \ {t[1]}
    BY <1>0, <1>1, <1>2, <2>2 DEF Once
  <2> QED BY <2>1, <2>2
<1>5. Once(d, R \ {t[1]}) /\ t[1] \in R
  BY <1>0, <1>1, <1>3, <1>4 DEF Once
<1> QED BY <1>0, <1>1, <1>5 DEF d

(* An empty list has nothing left to release.                              *)
LEMMA OnceNone == ASSUME NEW R, Once(<<>>, R) PROVE R = {}
BY DEF Once

(* The labels of the error path from the k-th on.                          *)
LEMMA OncePath ==
  ASSUME NEW k \in 1 .. 6 PROVE Once(ErrorPath(k), {Labels[i] : i \in k .. 6})
<1>0. /\ Len(Labels) = 6 /\ \A i \in 1 .. 6 : Labels[i] \in Todo
      /\ \A i, j \in 1 .. 6 : Labels[i] = Labels[j] => i = j
  <2>1. Len(Labels) = 6 /\ \A i, j \in 1 .. 6 : Labels[i] = Labels[j] => i = j
    BY DEF Labels
  <2> QED BY <2>1, StepRange DEF Labels, Todo
<1> DEFINE d == SubSeq(Labels, k, 6)
<1>1. /\ d \in Seq(Todo) /\ Len(d) = 7 - k /\ \A i \in 1 .. 7 - k : d[i] = Labels[k + i - 1]
  <2>1. \A i \in k .. 6 : Labels[i] \in Todo
    BY <1>0
  <2>2. /\ d \in Seq(Todo) /\ Len(d) = (IF k <= 6 THEN 6 - k + 1 ELSE 0)
        /\ \A i \in 1 .. 6 - k + 1 : d[i] = Labels[k + i - 1]
    BY <2>1, SubSeqProperties
  <2>3. 6 - k + 1 = 7 - k /\ k <= 6
    OBVIOUS
  <2> QED BY <2>2, <2>3
<1> HIDE DEF d
<1>2. \A i \in 1 .. 7 - k : k + i - 1 \in k .. 6 /\ k + i - 1 \in 1 .. 6
  OBVIOUS
<1>3. \A i, j \in 1 .. 7 - k : d[i] = d[j] => i = j
  <2> SUFFICES ASSUME NEW i \in 1 .. 7 - k, NEW j \in 1 .. 7 - k, d[i] = d[j] PROVE i = j
    OBVIOUS
  <2>1. k + i - 1 = k + j - 1
    <3>1. PICK a \in 1 .. 6, b \in 1 .. 6 : a = k + i - 1 /\ b = k + j - 1
      BY <1>2
    <3>2. d[i] = Labels[a] /\ d[j] = Labels[b]
      BY <1>1, <3>1
    <3>3. a = b
      BY <1>0, <3>2
    <3> QED BY <3>1, <3>3
  <2> QED BY <2>1
<1>4. {Labels[i] : i \in k .. 6} = {d[i] : i \in 1 .. 7 - k}
  <2>1. ASSUME NEW i \in k .. 6 PROVE Labels[i] \in {d[j] : j \in 1 .. 7 - k}
    <3>1. PICK j \in 1 .. 7 - k : j = i - k + 1
      OBVIOUS
    <3>2. k + j - 1 = i
      BY <3>1
    <3> QED BY <1>1, <3>2
  <2>2. ASSUME NEW i \in 1 .. 7 - k PROVE d[i] \in {Labels[j] : j \in k .. 6}
    BY <1>1, <1>2, <2>2
  <2> QED BY <2>1, <2>2
<1>5. Once(d, {Labels[i] : i \in k .. 6})
  BY <1>1, <1>3, <1>4 DEF Once
<1> QED BY <1>0, <1>5 DEF d, ErrorPath

(* Where the steps come, in the order of the code.                         *)
Ord(s) ==
    CASE s = "region" -> 1
      [] s = "cdev" -> 2
      [] s = "class" -> 3
      [] s = "device" -> 4
      [] s = "period" -> 5
      [] s = "dbg" -> 6
      [] s = "proc" -> 7
      [] s = "uart" -> 8
      [] s = "rx_gpio" -> 9
      [] s = "rx_dir" -> 10
      [] s = "tx_gpio" -> 11
      [] s = "tx_dir" -> 12
      [] s = "irq" -> 13
      [] s = "bound" -> 14

(* The place of each step in probe.                                        *)
LEMMA OrdValues ==
  /\ Ord("region") = 1 /\ Ord("cdev") = 2 /\ Ord("class") = 3 /\ Ord("device") = 4
  /\ Ord("period") = 5 /\ Ord("dbg") = 6 /\ Ord("proc") = 7 /\ Ord("uart") = 8
  /\ Ord("rx_gpio") = 9 /\ Ord("rx_dir") = 10 /\ Ord("tx_gpio") = 11 /\ Ord("tx_dir") = 12
  /\ Ord("irq") = 13 /\ Ord("bound") = 14
BY DEF Ord

(* No two steps have the same place.                                       *)
LEMMA OrdInjective ==
  /\ \A s \in StepSet : Ord(s) \in 1 .. 13
  /\ \A s, t \in StepSet : Ord(s) = Ord(t) => s = t
BY OrdValues DEF StepSet

(* One step of probe on.                                                   *)
LEMMA OrdNext ==
  ASSUME NEW s \in StepSet, Advance(s)
  PROVE  Ord(pc') = Ord(s) + 1 /\ pc' \in StepSet \union {"bound"}
BY OrdValues, StepOrder DEF Advance, StepSet

(* What probe has acquired when it comes to step s.                        *)
Earlier(s) == {r \in Resources : Ord(r) < Ord(s) /\ ~Skipped(r)}

(* The pin whose direction could not be set, which gpio_init keeps.        *)
KeptPin(s) == IF s = "rx_dir" THEN {"rx_gpio"} ELSE IF s = "tx_dir" THEN {"tx_gpio"} ELSE {}

(* The labels.                                                             *)
LEMMA PathOnce ==
  /\ Once(ErrorPath(1), {"proc", "period", "device", "class", "cdev", "region"})
  /\ Once(ErrorPath(2), {"period", "device", "class", "cdev", "region"})
  /\ Once(ErrorPath(3), {"device", "class", "cdev", "region"})
  /\ Once(ErrorPath(4), {"class", "cdev", "region"})
  /\ Once(ErrorPath(5), {"cdev", "region"})
  /\ Once(ErrorPath(6), {"region"})
<1>1. {Labels[i] : i \in 1 .. 6} = {"proc", "period", "device", "class", "cdev", "region"}
  BY DEF Labels
<1>2. {Labels[i] : i \in 2 .. 6} = {"period", "device", "class", "cdev", "region"}
  BY DEF Labels
<1>3. {Labels[i] : i \in 3 .. 6} = {"device", "class", "cdev", "region"}
  BY DEF Labels
<1>4. {Labels[i] : i \in 4 .. 6} = {"class", "cdev", "region"}
  BY DEF Labels
<1>5. {Labels[i] : i \in 5 .. 6} = {"cdev", "region"}
  BY DEF Labels
<1>6. {Labels[i] : i \in 6 .. 6} = {"region"}
  BY DEF Labels
<1> QED BY <1>1, <1>2, <1>3, <1>4, <1>5, <1>6, OncePath

(* The pins that are freed.                                                *)
LEMMA PinsOnce ==
  ASSUME rx_pin \in BOOLEAN, tx_pin \in BOOLEAN
  PROVE  /\ Once(IF rx_pin THEN <<"rx_gpio">> ELSE <<>>, IF rx_pin THEN {"rx_gpio"} ELSE {})
         /\ Once(IF tx_pin THEN <<"tx_gpio">> ELSE <<>>, IF tx_pin THEN {"tx_gpio"} ELSE {})
         /\ Once(IF rx_pin THEN <<"irq">> ELSE <<>>, IF rx_pin THEN {"irq"} ELSE {})
         /\ Once(FreePins, (IF rx_pin THEN {"rx_gpio"} ELSE {}) \union
                           (IF tx_pin THEN {"tx_gpio"} ELSE {}))
<1>0. "rx_gpio" \in Todo /\ "tx_gpio" \in Todo /\ "irq" \in Todo
  BY StepRange DEF Todo
<1>1. /\ Once(IF rx_pin THEN <<"rx_gpio">> ELSE <<>>, IF rx_pin THEN {"rx_gpio"} ELSE {})
      /\ Once(IF tx_pin THEN <<"tx_gpio">> ELSE <<>>, IF tx_pin THEN {"tx_gpio"} ELSE {})
      /\ Once(IF rx_pin THEN <<"irq">> ELSE <<>>, IF rx_pin THEN {"irq"} ELSE {})
  BY <1>0, OnceOne, OnceEmpty
<1>2. (IF rx_pin THEN {"rx_gpio"} ELSE {}) \intersect (IF tx_pin THEN {"tx_gpio"} ELSE {}) = {}
  OBVIOUS
<1>3. Once(FreePins, (IF rx_pin THEN {"rx_gpio"} ELSE {}) \union
                     (IF tx_pin THEN {"tx_gpio"} ELSE {}))
  BY <1>1, <1>2, OnceJoin DEF FreePins
<1> QED BY <1>1, <1>3

(***************************************************************************)
(* An error path of probe undoes all that was acquired before the step     *)
(* that failed, once, but dbg and the pin that gpio_init keeps.            *)
(***************************************************************************)
LEMMA UndoOnce ==
  ASSUME NEW s \in StepSet \ {"proc"}, ~Skipped(s), rx_pin \in BOOLEAN, tx_pin \in BOOLEAN
  PROVE  Once(UndoAfter(s), Earlier(s) \ ({"dbg"} \union KeptPin(s)))
<1>1. CASE s = "region"
  <2>1. Earlier(s) \ ({"dbg"} \union KeptPin(s)) = {}
    BY <1>1, OrdValues, StepRange DEF Earlier, KeptPin, Skipped
  <2>2. UndoAfter(s) = <<>>
    BY <1>1 DEF UndoAfter
  <2> QED BY <2>1, <2>2, OnceEmpty
<1>2. CASE s = "cdev"
  <2>1. Earlier(s) \ ({"dbg"} \union KeptPin(s)) = {"region"}
    BY <1>2, OrdValues, StepRange DEF Earlier, KeptPin, Skipped
  <2>2. UndoAfter(s) = ErrorPath(6)
    BY <1>2 DEF UndoAfter
  <2> QED BY <2>1, <2>2, PathOnce
<1>3. CASE s = "class"
  <2>1. Earlier(s) \ ({"dbg"} \union KeptPin(s)) = {"cdev", "region"}
    BY <1>3, OrdValues, StepRange DEF Earlier, KeptPin, Skipped
  <2>2. UndoAfter(s) = ErrorPath(5)
    BY <1>3 DEF UndoAfter
  <2> QED BY <2>1, <2>2, PathOnce
<1>4. CASE s = "device"
  <2>1. Earlier(s) \ ({"dbg"} \union KeptPin(s)) = {"class", "cdev", "region"}
    BY <1>4, OrdValues, StepRange DEF Earlier, KeptPin, Skipped
  <2>2. UndoAfter(s) = ErrorPath(4)
    BY <1>4 DEF UndoAfter
  <2> QED BY <2>1, <2>2, PathOnce
<1>5. CASE s = "period"
  <2>1. Earlier(s) \ ({"dbg"} \union KeptPin(s)) = {"device", "class", "cdev", "region"}
    BY <1>5, OrdValues, StepRange DEF Earlier, KeptPin, Skipped
  <2>2. UndoAfter(s) = ErrorPath(3)
    BY <1>5 DEF UndoAfter
  <2> QED BY <2>1, <2>2, PathOnce
<1>6. CASE s = "dbg"
  <2>1. Earlier(s) \ ({"dbg"} \union KeptPin(s)) = {"period", "device", "class", "cdev", "region"}
    BY <1>6, OrdValues, StepRange DEF Earlier, KeptPin, Skipped
  <2>2. UndoAfter(s) = ErrorPath(2)
    BY <1>6 DEF UndoAfter
  <2> QED BY <2>1, <2>2, PathOnce
<1>7. CASE s \in {"uart", "rx_gpio", "rx_dir"}
  <2>1. Earlier(s) \ ({"dbg"} \union KeptPin(s)) = {"proc", "period", "device", "class", "cdev", "region"}
    BY <1>7, OrdValues, StepRange DEF Earlier, KeptPin, Skipped
  <2>2. UndoAfter(s) = ErrorPath(1)
    BY <1>7 DEF UndoAfter
  <2> QED BY <2>1, <2>2, PathOnce
<1>8. CASE s \in {"tx_gpio", "tx_dir"}
  <2> DEFINE R == IF rx_pin THEN {"rx_gpio"} ELSE {}
             Q == {"proc", "period", "device", "class", "cdev", "region"}
  <2>1. Earlier(s) \ ({"dbg"} \union KeptPin(s)) = R \union Q
    BY <1>8, OrdValues, StepRange DEF Earlier, KeptPin, Skipped
  <2>2. UndoAfter(s) = (IF rx_pin THEN <<"rx_gpio">> ELSE <<>>) \o ErrorPath(1)
    BY <1>8 DEF UndoAfter
  <2>3. R \intersect Q = {}
    OBVIOUS
  <2>4. Once(IF rx_pin THEN <<"rx_gpio">> ELSE <<>>, R) /\ Once(ErrorPath(1), Q)
    BY PinsOnce, PathOnce
  <2> QED BY <2>1, <2>2, <2>3, <2>4, OnceJoin
<1>9. CASE s = "irq"
  <2> DEFINE R == (IF rx_pin THEN {"rx_gpio"} ELSE {}) \union (IF tx_pin THEN {"tx_gpio"} ELSE {})
             Q == {"proc", "period", "device", "class", "cdev", "region"}
  <2>1. Earlier(s) \ ({"dbg"} \union KeptPin(s)) = R \union Q
    BY <1>9, OrdValues, StepRange DEF Earlier, KeptPin, Skipped
  <2>2. UndoAfter(s) = FreePins \o ErrorPath(1)
    BY <1>9 DEF UndoAfter
  <2>3. R \intersect Q = {}
    OBVIOUS
  <2>4. Once(FreePins, R) /\ Once(ErrorPath(1), Q)
    BY PinsOnce, PathOnce
  <2> QED BY <2>1, <2>2, <2>3, <2>4, OnceJoin
<1> QED BY <1>1, <1>2, <1>3, <1>4, <1>5, <1>6, <1>7, <1>8, <1>9 DEF StepSet

(***************************************************************************)
(* Remove undoes all that probe acquired, once, but dbg.                   *)
(***************************************************************************)
LEMMA RemoveOnce ==
  ASSUME rx_pin \in BOOLEAN, tx_pin \in BOOLEAN
  PROVE  Once(RemoveOrder, Timers \union (Earlier("bound") \ {"dbg"}))
<1> DEFINE I == IF rx_pin THEN {"irq"} ELSE {}
           R == (IF rx_pin THEN {"rx_gpio"} ELSE {}) \union (IF tx_pin THEN {"tx_gpio"} ELSE {})
           Q == {"proc", "period", "device", "class", "cdev", "region"}
           i == IF rx_pin THEN <<"irq">> ELSE <<>>
           t == <<"tx_timer", "rx_timer">>
<1>1. Once(i, I) /\ Once(FreePins, R) /\ Once(ErrorPath(1), Q) /\ Once(t, Timers)
  BY PinsOnce, PathOnce, OncePair
<1>2. /\ Timers \intersect I = {} /\ (Timers \union I) \intersect R = {}
      /\ ((Timers \union I) \union R) \intersect Q = {}
  BY DEF Timers
<1>3. ((Timers \union I) \union R) \union Q = Timers \union (Earlier("bound") \ {"dbg"})
  <2>1. (I \union R) \union Q = Earlier("bound") \ {"dbg"}
    BY OrdValues, StepRange DEF Earlier, Skipped
  <2> HIDE DEF I, R, Q
  <2> QED BY <2>1
<1>4. RemoveOrder = ((t \o i) \o FreePins) \o ErrorPath(1)
  BY DEF RemoveOrder
<1> HIDE DEF I, R, Q, i, t
<1>5. Once(t \o i, Timers \union I)
  BY <1>1, <1>2, OnceJoin
<1>6. Once((t \o i) \o FreePins, (Timers \union I) \union R)
  BY <1>1, <1>2, <1>5, OnceJoin
<1>7. Once(((t \o i) \o FreePins) \o ErrorPath(1), ((Timers \union I) \union R) \union Q)
  BY <1>1, <1>2, <1>6, OnceJoin
<1> QED BY <1>3, <1>4, <1>7

----------------------------------------------------------------------------
(* What is held                                                            *)

Pending == {todo[i] : i \in 1 .. Len(todo)}

Probing == pc \in StepSet \union {"bound"}

(***************************************************************************)
(* While probe goes on it holds what it acquired, and while it is undone   *)
(* what is left to undo; besides, only dbg and the stuck pins.             *)
(***************************************************************************)
HeldInv ==
    /\ unloading => pc = "removing"
    /\ Once(todo, Pending)
    /\ ~Releasing => todo = <<>>
    /\ Pending \ (Timers \union {"proc"}) \subseteq held
    /\ Probing => Earlier(pc) \ {"proc"} \subseteq held
    /\ held \subseteq {"dbg"} \union stuck \union (IF Probing THEN Earlier(pc) ELSE Pending)
    /\ pc = "unloaded" => held \subseteq stuck

(* What is known of the driver between calls.                              *)
LEMMA NothingLeft ==
  ASSUME Once(todo, Pending), todo = <<>> PROVE Pending = {}
BY OnceNone

(* What is acquired at the next step.                                      *)
LEMMA EarlierNext ==
  ASSUME NEW s \in StepSet, Advance(s), UNCHANGED confVars
  PROVE  \A r : r \in Earlier(pc)' <=>
                    r \in Earlier(s) \/ (r = s /\ s \in Resources /\ ~Skipped(s))
<1>0. UNCHANGED <<rx_pin, tx_pin>>
  BY DEF confVars
<1>1. \A r : Skipped(r)' <=> Skipped(r)
  BY <1>0 DEF Skipped
<1>2. Ord(pc') = Ord(s) + 1
  BY OrdNext
<1>3. \A r \in Resources : r \in StepSet
  BY StepRange DEF StepSet
<1>4. \A r \in Resources : Ord(r) < Ord(s) + 1 <=> Ord(r) < Ord(s) \/ r = s
  BY <1>3, OrdInjective
<1> QED BY <1>1, <1>2, <1>4 DEF Earlier

(* Steps that touch neither the resources nor the place in probe.          *)
LEMMA HeldFrame ==
  ASSUME HeldInv, UNCHANGED <<pc, todo, unloading, held, confVars, stuck>>
  PROVE  HeldInv'
<1>1. UNCHANGED <<rx_pin, tx_pin>>
  BY DEF confVars
<1> QED BY <1>1 DEF HeldInv, Once, Pending, Probing, Releasing, Earlier, Skipped

(* probe begins: with dbg from a former binding, or with nothing.          *)
LEMMA HeldStart ==
  ASSUME HeldInv, NEW v, NEW rxp, NEW txp, StartProbe(v, rxp, txp) PROVE HeldInv'
<1>1. /\ pc \in {"unloaded", "unbound"} /\ pc' = "region"
      /\ UNCHANGED <<todo, unloading, held, stuck>>
  BY StepOrder DEF StartProbe
<1>2. ~Releasing /\ ~Probing /\ ~unloading /\ todo = <<>> /\ Pending = {}
  BY <1>1, NothingLeft DEF HeldInv, Releasing, Probing, StepSet
<1>3. held \subseteq {"dbg"} \union stuck
  BY <1>2 DEF HeldInv
<1>4. Pending' = {} /\ Once(todo, Pending)'
  BY <1>1, <1>2 DEF HeldInv, Pending, Once
<1>5. \A r \in Resources : ~(Ord(r) < 1)
  BY StepRange, OrdInjective DEF StepSet
<1>6. Earlier(pc)' = {}
  BY <1>1, <1>5, OrdValues DEF Earlier
<1> QED BY <1>1, <1>2, <1>3, <1>4, <1>6 DEF HeldInv

(* A step of probe that succeeds acquires what it stands for.              *)
LEMMA HeldOk ==
  ASSUME HeldInv, NEW s \in StepSet, ProbeStepOk(s) PROVE HeldInv'
<1>1. /\ pc = s /\ Advance(s) /\ UNCHANGED <<todo, unloading, confVars, stuck>>
      /\ held' = IF s \in Resources /\ ~Skipped(s) THEN held \union {s} ELSE held
  BY DEF ProbeStepOk
<1>2. Probing /\ ~Releasing /\ ~unloading /\ todo = <<>> /\ Pending = {}
  BY <1>1, NothingLeft DEF HeldInv, Releasing, Probing, StepSet
<1>3. Earlier(s) \ {"proc"} \subseteq held /\ held \subseteq {"dbg"} \union stuck \union Earlier(s)
  BY <1>1, <1>2 DEF HeldInv
<1>4. Pending' = {} /\ Once(todo, Pending)'
  BY <1>1, <1>2 DEF HeldInv, Pending, Once
<1>5. pc' \in StepSet \union {"bound"}
  BY <1>1, OrdNext
<1>6. \A r : r \in Earlier(pc)' <=> r \in Earlier(s) \/ (r = s /\ s \in Resources /\ ~Skipped(s))
  BY <1>1, EarlierNext
<1>7. /\ Earlier(pc)' \ {"proc"} \subseteq held'
      /\ held' \subseteq {"dbg"} \union stuck \union Earlier(pc)'
  BY <1>1, <1>3, <1>6
<1>8. Probing' /\ pc' # "unloaded"
  BY <1>5 DEF Probing, StepSet
<1> QED BY <1>1, <1>2, <1>4, <1>7, <1>8 DEF HeldInv

(* The proc entry may be missing; probe goes on without it.                *)
LEMMA HeldProc ==
  ASSUME HeldInv, ProcFails PROVE HeldInv'
<1>1. pc = "proc" /\ Advance("proc") /\ UNCHANGED <<todo, unloading, held, confVars, stuck>>
  BY DEF ProcFails
<1>0. "proc" \in StepSet
  BY DEF StepSet
<1>2. Probing /\ ~Releasing /\ ~unloading /\ todo = <<>> /\ Pending = {}
  BY <1>1, NothingLeft DEF HeldInv, Releasing, Probing, StepSet
<1>3. /\ Earlier("proc") \ {"proc"} \subseteq held
      /\ held \subseteq {"dbg"} \union stuck \union Earlier("proc")
  BY <1>1, <1>2 DEF HeldInv
<1>4. Pending' = {} /\ Once(todo, Pending)'
  BY <1>1, <1>2 DEF HeldInv, Pending, Once
<1>5. pc' \in StepSet \union {"bound"}
  BY <1>0, <1>1, OrdNext
<1>6. \A r : r \in Earlier(pc)' => r \in Earlier("proc") \/ r = "proc"
  BY <1>0, <1>1, EarlierNext
<1>7. \A r : r \in Earlier("proc") => r \in Earlier(pc)'
  BY <1>0, <1>1, EarlierNext
<1>8. Probing' /\ pc' # "unloaded"
  BY <1>5 DEF Probing, StepSet
<1> QED BY <1>1, <1>2, <1>3, <1>4, <1>6, <1>7, <1>8 DEF HeldInv

(* A step fails: the error path lists what was acquired so far.            *)
LEMMA HeldFails ==
  ASSUME TypeOK, HeldInv, NEW s \in StepSet, ProbeStepFails(s) PROVE HeldInv'
<1>0. rx_pin \in BOOLEAN /\ tx_pin \in BOOLEAN
  BY DEF TypeOK
<1>1. /\ pc = s /\ s # "proc" /\ ~Skipped(s) /\ pc' = "undoing" /\ todo' = UndoAfter(s)
      /\ UNCHANGED <<unloading, held, confVars>>
  BY DEF ProbeStepFails
<1>2. stuck' = stuck \union KeptPin(s)
  BY DEF ProbeStepFails, KeptPin
<1>3. Probing /\ ~unloading
  BY <1>1 DEF HeldInv, Probing, StepSet
<1> DEFINE R == Earlier(s) \ ({"dbg"} \union KeptPin(s))
<1>4. Once(todo', R)
  BY <1>0, <1>1, UndoOnce
<1>5. Earlier(s) \ {"proc"} \subseteq held /\ held \subseteq {"dbg"} \union stuck \union Earlier(s)
  BY <1>1, <1>3 DEF HeldInv
<1> HIDE DEF R
<1>6. Pending' = R /\ Once(todo, Pending)'
  BY <1>4 DEF Once, Pending
<1>7. R \ (Timers \union {"proc"}) \subseteq held /\ held \subseteq {"dbg"} \union stuck' \union R
  BY <1>2, <1>5 DEF R
<1>8. ~Probing' /\ Releasing'
  BY <1>1 DEF Probing, Releasing, StepSet
<1> QED BY <1>1, <1>3, <1>6, <1>7, <1>8 DEF HeldInv

(* One release of an error path or of remove.                              *)
LEMMA HeldUndo ==
  ASSUME HeldInv, Undo PROVE HeldInv'
<1>1. /\ Releasing /\ todo # <<>> /\ held' = held \ {Head(todo)} /\ todo' = Tail(todo)
      /\ UNCHANGED <<pc, unloading, confVars, stuck>>
  BY DEF Undo
<1>2. Head(todo) \in Pending /\ Once(todo', Pending \ {Head(todo)})
  BY <1>1, OnceTail DEF HeldInv
<1>3. Pending' = Pending \ {Head(todo)} /\ Once(todo, Pending)'
  BY <1>2 DEF Once, Pending
<1>4. ~Probing /\ Releasing' /\ ~Probing' /\ pc' # "unloaded"
  BY <1>1 DEF Releasing, Probing, StepSet
<1>5. /\ Pending \ (Timers \union {"proc"}) \subseteq held
      /\ held \subseteq {"dbg"} \union stuck \union Pending
  BY <1>4 DEF HeldInv
<1>6. /\ Pending' \ (Timers \union {"proc"}) \subseteq held'
      /\ held' \subseteq {"dbg"} \union stuck' \union Pending'
  BY <1>1, <1>3, <1>5
<1> QED BY <1>1, <1>3, <1>4, <1>6 DEF HeldInv

(* The error path or remove has come to its end.                           *)
LEMMA HeldReleased ==
  ASSUME HeldInv, Released PROVE HeldInv'
<1>1. /\ Releasing /\ todo = <<>> /\ UNCHANGED <<todo, confVars, stuck>>
      /\ pc' = (IF unloading THEN "unloaded" ELSE "unbound") /\ unloading' = FALSE
      /\ held' = IF unloading THEN held \ {"dbg"} ELSE held
  BY DEF Released
<1>2. Pending = {} /\ ~Probing
  BY <1>1, NothingLeft DEF HeldInv, Releasing, Probing, StepSet
<1>3. held \subseteq {"dbg"} \union stuck
  BY <1>2 DEF HeldInv
<1>4. Pending' = {} /\ Once(todo, Pending)'
  BY <1>1, <1>2 DEF HeldInv, Pending, Once
<1>5. ~Probing' /\ ~Releasing'
  BY <1>1 DEF Probing, Releasing, StepSet
<1>6. held' \subseteq {"dbg"} \union stuck /\ (pc' = "unloaded" => held' \subseteq stuck)
  BY <1>1, <1>3
<1> QED BY <1>1, <1>4, <1>5, <1>6 DEF HeldInv

(* Remove begins, of a driver that is bound.                               *)
LEMMA HeldRemove ==
  ASSUME TypeOK, HeldInv, pc = "bound", pc' = "removing", todo' = RemoveOrder,
         UNCHANGED <<held, stuck>>
  PROVE  HeldInv' /\ Pending' = Timers \union (Earlier("bound") \ {"dbg"})
<1>0. rx_pin \in BOOLEAN /\ tx_pin \in BOOLEAN
  BY DEF TypeOK
<1> DEFINE R == Timers \union (Earlier("bound") \ {"dbg"})
<1>1. Once(todo', R)
  BY <1>0, RemoveOnce
<1>2. /\ Earlier("bound") \ {"proc"} \subseteq held
      /\ held \subseteq {"dbg"} \union stuck \union Earlier("bound")
  BY DEF HeldInv, Probing
<1>3. /\ R \ (Timers \union {"proc"}) \subseteq held /\ held \subseteq {"dbg"} \union stuck \union R
  BY <1>2
<1> HIDE DEF R
<1>4. Pending' = R /\ Once(todo, Pending)'
  BY <1>1 DEF Once, Pending
<1>5. ~Probing' /\ Releasing'
  BY DEF Probing, Releasing, StepSet
<1>6. HeldInv'
  BY <1>3, <1>4, <1>5 DEF HeldInv
<1> QED BY <1>4, <1>6 DEF R

(* The module goes while no device is bound: nothing is listed.            *)
LEMMA HeldUnload ==
  ASSUME HeldInv, pc = "unbound", Unload PROVE HeldInv' /\ Pending' = {}
<1>1. pc' = "removing" /\ todo' = <<>> /\ UNCHANGED <<held, stuck>>
  BY DEF Unload
<1>2. ~Probing /\ todo = <<>> /\ Pending = {}
  BY NothingLeft DEF HeldInv, Probing, Releasing, StepSet
<1>3. Pending' = {} /\ Once(todo, Pending)'
  BY <1>1, <1>2 DEF HeldInv, Pending, Once
<1>4. ~Probing' /\ Releasing'
  BY <1>1 DEF Probing, Releasing, StepSet
<1> QED BY <1>1, <1>2, <1>3, <1>4 DEF HeldInv

(* What goes on beside probe and remove.                                   *)
Beside ==
    \/ OpenFile \/ CloseFile
    \/ \E t \in Timers : StartTimer(t) \/ TimerStops(t)
    \/ \E p \in Storers : \/ \E v \in Values : period_store(p, v)
                          \/ SetPeriodLoad(p) \/ SetPeriodStore(p) \/ SetPeriodHalf(p)
    \/ UNCHANGED vars

(* Users and timers leave the driver core side alone.                      *)
LEMMA BesideKeeps ==
  ASSUME Beside PROVE UNCHANGED <<pc, todo, unloading, held, confVars, uart, stuck>>
BY DEF Beside, OpenFile, CloseFile, StartTimer, TimerStops, period_store, SetPeriodLoad,
       SetPeriodStore, SetPeriodHalf, vars

(* Every step of the driver's own.                                         *)
LEMMA DriverSteps ==
  ASSUME [Next]_vars
  PROVE  \/ \E v \in Params, rxp, txp \in BOOLEAN : StartProbe(v, rxp, txp)
         \/ \E s \in StepSet : ProbeStepOk(s)
         \/ \E s \in StepSet : ProbeStepFails(s)
         \/ ProcFails \/ Undo \/ Released \/ Unbind \/ Unload
         \/ Beside
BY StepRange DEF Next, Beside

(* Every step keeps what is held and what is listed in agreement.          *)
LEMMA HeldStep == ASSUME TypeOK, HeldInv, [Next]_vars PROVE HeldInv'
<1>1. CASE \E v \in Params, rxp, txp \in BOOLEAN : StartProbe(v, rxp, txp)
  BY <1>1, HeldStart
<1>2. CASE \E s \in StepSet : ProbeStepOk(s)
  BY <1>2, HeldOk
<1>3. CASE \E s \in StepSet : ProbeStepFails(s)
  BY <1>3, HeldFails
<1>4. CASE ProcFails
  BY <1>4, HeldProc
<1>5. CASE Undo
  BY <1>5, HeldUndo
<1>6. CASE Released
  BY <1>6, HeldReleased
<1>7. CASE Unbind
  <2>1. pc = "bound" /\ pc' = "removing" /\ todo' = RemoveOrder /\ UNCHANGED <<held, stuck>>
    BY <1>7 DEF Unbind
  <2> QED BY <2>1, HeldRemove
<1>8. CASE Unload
  <2>1. CASE pc = "bound"
    <3>1. pc' = "removing" /\ todo' = RemoveOrder /\ UNCHANGED <<held, stuck>>
      BY <1>8, <2>1 DEF Unload
    <3> QED BY <2>1, <3>1, HeldRemove
  <2>2. CASE pc = "unbound"
    BY <1>8, <2>2, HeldUnload
  <2> QED BY <1>8, <2>1, <2>2 DEF Unload
<1>9. CASE Beside
  BY <1>9, BesideKeeps, HeldFrame
<1> QED BY <1>1, <1>2, <1>3, <1>4, <1>5, <1>6, <1>7, <1>8, <1>9, DriverSteps

----------------------------------------------------------------------------
(* Types                                                                   *)

(* The constants, as numbers.                                              *)
LEMMA Range0 ==
  /\ MaxPeriod \in Nat /\ Params \subseteq Nat /\ Values \subseteq Nat
  /\ PERIOD_MS \in 1 .. MaxPeriod
BY LifecycleAssumption

(* A period in range, as the driver keeps it.                              *)
LEMMA Halves ==
  ASSUME NEW v \in 0 .. MaxPeriod
  PROVE  /\ ms_to_ktime(v) \in 0 .. ms_to_ktime(MaxPeriod)
         /\ (ms_to_ktime(v) \div 2) = v
BY Range0 DEF ms_to_ktime

(* Half of a period is again in range.                                     *)
LEMMA HalfType ==
  ASSUME NEW k \in 0 .. ms_to_ktime(MaxPeriod) PROVE (k \div 2) \in 0 .. MaxPeriod
BY Range0 DEF ms_to_ktime

StRecs == [at : {"idle", "load", "store", "half"}, v : 0 .. MaxPeriod]

(* Every step keeps the types.                                             *)
LEMMA TypeStep == ASSUME TypeOK, HeldInv, HeldInv', [Next]_vars PROVE TypeOK'
<1>0. /\ todo' \in Seq(Resources \union Timers)
  BY DEF HeldInv, Once, Todo
<1>1. CASE \E v \in Params, rxp, txp \in BOOLEAN : StartProbe(v, rxp, txp)
  <2>1. PICK v \in Params, rxp \in BOOLEAN, txp \in BOOLEAN : StartProbe(v, rxp, txp)
    BY <1>1
  <2>2. period_ms' \in Nat
    BY <2>1, Range0 DEF StartProbe
  <2>3. pc' \in Range(ProbeSteps)
    BY <2>1, StepOrder, StepRange DEF StartProbe, StepSet
  <2>4. alone' \in BOOLEAN
    BY <2>1 DEF StartProbe, InRange
  <2> QED BY <1>0, <2>1, <2>2, <2>3, <2>4 DEF TypeOK, StartProbe
<1>2. CASE \E s \in StepSet : ProbeStepOk(s)
  <2>1. PICK s \in StepSet : ProbeStepOk(s)
    BY <1>2
  <2>2. pc' \in {"bound"} \union Range(ProbeSteps)
    BY <2>1, OrdNext, StepRange DEF ProbeStepOk
  <2>3. held' \subseteq Resources
    BY <2>1 DEF ProbeStepOk, TypeOK
  <2>4. /\ uart' \in BOOLEAN /\ period' \in 0 .. ms_to_ktime(MaxPeriod)
        /\ half_period' \in 0 .. MaxPeriod
    <3>1. CASE s = "uart"
      <4>1. /\ uart' = TRUE /\ half_period' = period' \div 2
            /\ period' = IF InRange(period_ms) THEN ms_to_ktime(period_ms) ELSE 0
        BY <2>1, <3>1 DEF ProbeStepOk
      <4>2. InRange(period_ms) => period_ms \in 0 .. MaxPeriod
        BY Range0 DEF InRange, TypeOK
      <4>3. 0 \in 0 .. ms_to_ktime(MaxPeriod)
        BY Range0 DEF ms_to_ktime
      <4>4. period' \in 0 .. ms_to_ktime(MaxPeriod)
        BY <4>1, <4>2, <4>3, Halves
      <4> QED BY <4>1, <4>4, HalfType
    <3>2. CASE s # "uart"
      BY <2>1, <3>2 DEF ProbeStepOk, TypeOK
    <3> QED BY <3>1, <3>2
  <2> QED BY <1>0, <2>1, <2>2, <2>3, <2>4 DEF TypeOK, ProbeStepOk, confVars
<1>3. CASE \E s \in StepSet : ProbeStepFails(s)
  <2>1. PICK s \in StepSet : ProbeStepFails(s)
    BY <1>3
  <2>2. stuck' \subseteq {"rx_gpio", "tx_gpio"}
    BY <2>1 DEF ProbeStepFails, TypeOK
  <2> QED BY <1>0, <2>1, <2>2 DEF TypeOK, ProbeStepFails, confVars, periodVars
<1>4. CASE ProcFails
  <2>1. pc' \in {"bound"} \union Range(ProbeSteps)
    <3>1. "proc" \in StepSet
      BY DEF StepSet
    <3> QED BY <1>4, <3>1, OrdNext, StepRange DEF ProcFails
  <2> QED BY <1>0, <1>4, <2>1 DEF TypeOK, ProcFails, confVars, periodVars
<1>5. CASE Undo
  BY <1>0, <1>5 DEF TypeOK, Undo, confVars, periodVars
<1>6. CASE Released
  BY <1>0, <1>6 DEF TypeOK, Released, confVars, periodVars
<1>7. CASE Unbind
  <2>1. yanked' \in BOOLEAN
    BY <1>7 DEF Unbind, TypeOK
  <2> QED BY <1>0, <1>7, <2>1 DEF TypeOK, Unbind, confVars, periodVars
<1>8. CASE Unload
  BY <1>0, <1>8 DEF TypeOK, Unload, confVars, periodVars
<1>9. CASE OpenFile \/ CloseFile
  <2>1. yanked' \in BOOLEAN /\ opened' \in BOOLEAN
    BY <1>9 DEF OpenFile, CloseFile, TypeOK
  <2> QED BY <1>0, <1>9, <2>1 DEF TypeOK, OpenFile, CloseFile, confVars, periodVars
<1>10. CASE \E t \in Timers : StartTimer(t) \/ TimerStops(t)
  BY <1>0, <1>10 DEF TypeOK, StartTimer, TimerStops, confVars, periodVars
<1>11. CASE \E p \in Storers, v \in Values : period_store(p, v)
  <2>1. PICK p \in Storers, v \in Values : period_store(p, v)
    BY <1>11
  <2>2. storing' = [storing EXCEPT ![p] = [at |-> "load", v |-> 0]] /\ period_ms' = v /\ v \in Nat
    BY <2>1, Range0 DEF period_store
  <2>3. [at |-> "load", v |-> 0] \in StRecs
    BY Range0 DEF StRecs
  <2>4. storing' \in [Storers -> StRecs]
    BY <2>2, <2>3 DEF TypeOK, StRecs
  <2>5. alone' \in BOOLEAN
    BY <2>1 DEF period_store
  <2> QED BY <1>0, <2>1, <2>2, <2>4, <2>5 DEF TypeOK, period_store, confVars, StRecs
<1>12. CASE \E p \in Storers : SetPeriodLoad(p)
  <2>1. PICK p \in Storers : SetPeriodLoad(p)
    BY <1>12
  <2>2. PICK r : /\ storing' = [storing EXCEPT ![p] = r]
                 /\ r = IF InRange(period_ms) THEN [at |-> "store", v |-> period_ms]
                                              ELSE [at |-> "idle", v |-> 0]
    BY <2>1 DEF SetPeriodLoad
  <2>3. InRange(period_ms) => period_ms \in 0 .. MaxPeriod
    BY Range0 DEF InRange, TypeOK
  <2>4. r \in StRecs
    BY <2>2, <2>3, Range0 DEF StRecs
  <2>5. storing' \in [Storers -> StRecs]
    BY <2>2, <2>4 DEF TypeOK, StRecs
  <2> QED BY <1>0, <2>1, <2>5 DEF TypeOK, SetPeriodLoad, confVars, periodVars, StRecs
<1>13. CASE \E p \in Storers : SetPeriodStore(p)
  <2>1. PICK p \in Storers : SetPeriodStore(p)
    BY <1>13
  <2>2. storing \in [Storers -> StRecs] /\ storing[p] \in StRecs /\ storing[p].v \in 0 .. MaxPeriod
    BY DEF TypeOK, StRecs
  <2>3. /\ storing' = [storing EXCEPT ![p] = [storing[p] EXCEPT !.at = "half"]]
        /\ period' = ms_to_ktime(storing[p].v)
    BY <2>1 DEF SetPeriodStore
  <2>4. [storing[p] EXCEPT !.at = "half"] \in StRecs
    BY <2>2 DEF StRecs
  <2>5. storing' \in [Storers -> StRecs]
    BY <2>2, <2>3, <2>4
  <2>6. period' \in 0 .. ms_to_ktime(MaxPeriod)
    BY <2>2, <2>3, Halves
  <2> QED BY <1>0, <2>1, <2>5, <2>6 DEF TypeOK, SetPeriodStore, confVars, StRecs
<1>14. CASE \E p \in Storers : SetPeriodHalf(p)
  <2>1. PICK p \in Storers : SetPeriodHalf(p)
    BY <1>14
  <2>2. storing \in [Storers -> StRecs] /\ storing[p].v \in 0 .. MaxPeriod
        /\ period \in 0 .. ms_to_ktime(MaxPeriod)
    BY DEF TypeOK, StRecs
  <2>3. /\ storing' = [storing EXCEPT ![p] = [at |-> "idle", v |-> 0]]
        /\ half_period' \in {ms_to_ktime(storing[p].v) \div 2, period \div 2}
    BY <2>1 DEF SetPeriodHalf
  <2>4. [at |-> "idle", v |-> 0] \in StRecs
    BY Range0 DEF StRecs
  <2>5. storing' \in [Storers -> StRecs]
    BY <2>2, <2>3, <2>4
  <2>6. half_period' \in 0 .. MaxPeriod
    BY <2>2, <2>3, Halves, HalfType
  <2> QED BY <1>0, <2>1, <2>5, <2>6 DEF TypeOK, SetPeriodHalf, confVars, StRecs
<1>15. CASE UNCHANGED vars
  BY <1>15 DEF TypeOK, vars, confVars, periodVars
<1> QED BY <1>1, <1>2, <1>3, <1>4, <1>5, <1>6, <1>7, <1>8, <1>9, <1>10, <1>11, <1>12, <1>13,
           <1>14, <1>15, DriverSteps DEF Beside

----------------------------------------------------------------------------
(* Timers                                                                  *)

(***************************************************************************)
(* Unless it is unbound under an open file, the device is open only while  *)
(* the driver is bound, so no timer is started beside probe or remove, and *)
(* those that are armed when remove begins are still to be cancelled.      *)
(***************************************************************************)
TimerInv ==
    /\ Probing /\ Ord(pc) > 8 => uart
    /\ ~yanked =>
          /\ opened => pc = "bound"
          /\ pc \notin {"bound", "removing"} => armed = {}
          /\ pc = "removing" => armed \subseteq Pending
          /\ ~uart => armed = {}

(* Every step keeps the timers on memory that is still there.              *)
LEMMA TimerStep == ASSUME TypeOK, HeldInv, TimerInv, [Next]_vars PROVE TimerInv'
<1>0. armed \subseteq Timers
  BY DEF TypeOK
<1>1. CASE \E v \in Params, rxp, txp \in BOOLEAN : StartProbe(v, rxp, txp)
  <2>1. /\ pc \in {"unloaded", "unbound"} /\ pc' = "region"
        /\ UNCHANGED <<uart, armed, opened, yanked>>
    BY <1>1, StepOrder DEF StartProbe
  <2>2. ~(Ord(pc') > 8)
    BY <2>1, OrdValues
  <2> QED BY <2>1, <2>2 DEF TimerInv
<1>2. CASE \E s \in StepSet : ProbeStepOk(s)
  <2>1. PICK s \in StepSet : ProbeStepOk(s)
    BY <1>2
  <2>2. /\ pc = s /\ Advance(s) /\ UNCHANGED <<armed, opened, yanked>>
        /\ uart' = (IF s = "uart" THEN TRUE ELSE uart)
    BY <2>1 DEF ProbeStepOk
  <2>3. Ord(pc') = Ord(s) + 1 /\ Ord(s) \in 1 .. 13 /\ pc' \in StepSet \union {"bound"}
    BY <2>2, OrdNext, OrdInjective
  <2>4. ASSUME Ord(pc') > 8 PROVE uart'
    <3>1. Ord(s) > 8 \/ Ord(s) = 8
      BY <2>3, <2>4
    <3>2. CASE Ord(s) > 8
      BY <2>2, <3>2 DEF TimerInv, Probing
    <3>3. CASE Ord(s) = 8
      <4>1. "uart" \in StepSet /\ Ord("uart") = 8
        BY OrdValues DEF StepSet
      <4>2. s = "uart"
        BY <3>3, <4>1, OrdInjective
      <4> QED BY <2>2, <4>2
    <3> QED BY <3>1, <3>2, <3>3
  <2>5. pc \notin {"bound", "removing"}
    BY <2>2 DEF StepSet
  <2>6. pc' # "removing"
    BY <2>3 DEF StepSet
  <2> QED BY <2>2, <2>4, <2>5, <2>6 DEF TimerInv
<1>3. CASE \E s \in StepSet : ProbeStepFails(s)
  <2>1. PICK s \in StepSet : ProbeStepFails(s)
    BY <1>3
  <2>2. pc = s /\ pc' = "undoing" /\ UNCHANGED <<uart, armed, opened, yanked>>
    BY <2>1 DEF ProbeStepFails
  <2>3. pc \notin {"bound", "removing"} /\ ~Probing'
    BY <2>2 DEF StepSet, Probing
  <2> QED BY <2>2, <2>3 DEF TimerInv
<1>4. CASE ProcFails
  <2>0. "proc" \in StepSet /\ Ord("proc") = 7
    BY OrdValues DEF StepSet
  <2>1. pc = "proc" /\ Advance("proc") /\ UNCHANGED <<uart, armed, opened, yanked>>
    BY <1>4 DEF ProcFails
  <2>2. Ord(pc') = 8 /\ pc' \in StepSet \union {"bound"}
    BY <2>0, <2>1, OrdNext
  <2>3. pc' # "removing" /\ ~(Ord(pc') > 8)
    BY <2>2 DEF StepSet
  <2> QED BY <2>1, <2>3 DEF TimerInv
<1>5. CASE Undo
  <2>1. /\ Releasing /\ todo # <<>> /\ todo' = Tail(todo) /\ armed' = armed \ {Head(todo)}
        /\ UNCHANGED <<pc, uart, opened, yanked>>
    BY <1>5 DEF Undo
  <2>2. Once(todo', Pending \ {Head(todo)})
    BY <2>1, OnceTail DEF HeldInv
  <2>3. Pending' = Pending \ {Head(todo)}
    BY <2>2 DEF Once, Pending
  <2>4. ~Probing'
    BY <2>1 DEF Probing, Releasing, StepSet
  <2> QED BY <2>1, <2>3, <2>4 DEF TimerInv
<1>6. CASE Released
  <2>1. /\ Releasing /\ todo = <<>> /\ UNCHANGED <<armed, opened, yanked>> /\ uart' = FALSE
        /\ pc' \in {"unloaded", "unbound"}
    BY <1>6 DEF Released
  <2>2. Pending = {}
    BY <2>1, NothingLeft DEF HeldInv
  <2>3. ~yanked => armed = {} /\ ~opened
    BY <2>1, <2>2 DEF TimerInv, Releasing
  <2>4. ~Probing'
    BY <2>1 DEF Probing, StepSet
  <2> QED BY <2>1, <2>3, <2>4 DEF TimerInv
<1>7. CASE Unbind
  <2>1. /\ pc = "bound" /\ pc' = "removing" /\ todo' = RemoveOrder /\ UNCHANGED <<held, stuck>>
        /\ yanked' = (yanked \/ opened) /\ UNCHANGED <<uart, armed, opened>>
    BY <1>7 DEF Unbind
  <2>2. Timers \subseteq Pending'
    BY <2>1, HeldRemove
  <2>3. ~Probing'
    BY <2>1 DEF Probing, StepSet
  <2> QED BY <1>0, <2>1, <2>2, <2>3 DEF TimerInv
<1>8. CASE Unload
  <2>1. /\ pc \in {"bound", "unbound"} /\ ~opened /\ pc' = "removing"
        /\ todo' = (IF pc = "bound" THEN RemoveOrder ELSE <<>>)
        /\ UNCHANGED <<held, stuck, uart, armed, opened, yanked>>
    BY <1>8 DEF Unload
  <2>2. pc = "bound" => Timers \subseteq Pending'
    BY <2>1, HeldRemove
  <2>3. ~Probing'
    BY <2>1 DEF Probing, StepSet
  <2> QED BY <1>0, <2>1, <2>2, <2>3 DEF TimerInv
<1>9. CASE Beside
  <2>1. UNCHANGED <<pc, todo, held, uart>>
    BY <1>9, BesideKeeps
  <2>2. Pending' = Pending /\ (Probing' <=> Probing)
    BY <2>1 DEF Pending, Probing
  <2>3. CASE OpenFile
    <3>1. opened' = TRUE /\ yanked' = (yanked \/ pc = "removing") /\ armed' = armed
          /\ pc \in {"bound", "removing"}
      BY <2>3 DEF OpenFile
    <3> QED BY <2>1, <2>2, <3>1 DEF TimerInv
  <2>4. CASE CloseFile
    BY <2>1, <2>2, <2>4 DEF TimerInv, CloseFile
  <2>5. CASE \E t \in Timers : StartTimer(t)
    <3>1. uart /\ opened /\ UNCHANGED <<opened, yanked>>
      BY <2>5 DEF StartTimer
    <3> QED BY <2>1, <2>2, <3>1 DEF TimerInv
  <2>6. CASE \E t \in Timers : TimerStops(t)
    <3>1. armed' \subseteq armed /\ UNCHANGED <<opened, yanked>>
      BY <2>6 DEF TimerStops
    <3> QED BY <2>1, <2>2, <3>1 DEF TimerInv
  <2>7. CASE UNCHANGED <<armed, opened, yanked>>
    BY <2>1, <2>2, <2>7 DEF TimerInv
  <2> QED BY <1>9, <2>3, <2>4, <2>5, <2>6, <2>7
          DEF Beside, period_store, SetPeriodLoad, SetPeriodStore, SetPeriodHalf, vars
<1> QED BY <1>1, <1>2, <1>3, <1>4, <1>5, <1>6, <1>7, <1>8, <1>9, DriverSteps

----------------------------------------------------------------------------
(* The theorem of the life cycle                                           *)

(* Before the module is loaded.                                            *)
LEMMA InitAll == ASSUME Init PROVE TypeOK /\ HeldInv /\ TimerInv
<1>1. /\ pc = "unloaded" /\ todo = <<>> /\ unloading = FALSE /\ held = {} /\ armed = {}
      /\ opened = FALSE /\ uart = FALSE
  BY DEF Init
<1>2. ~Probing /\ Pending = {} /\ Once(todo, Pending)
  <2>1. ~Probing
    BY <1>1 DEF Probing, StepSet
  <2>2. Pending = {}
    BY <1>1, OnceEmpty DEF Once, Pending
  <2> QED BY <1>1, <2>1, <2>2, OnceEmpty
<1>3. HeldInv /\ TimerInv
  BY <1>1, <1>2 DEF HeldInv, TimerInv
<1>4. TypeOK
  <2>1. [at |-> "idle", v |-> 0] \in StRecs
    BY Range0 DEF StRecs
  <2>2. storing \in [Storers -> StRecs]
    BY <2>1 DEF Init
  <2>3. 0 \in 0 .. ms_to_ktime(MaxPeriod) /\ 0 \in 0 .. MaxPeriod
    BY Range0 DEF ms_to_ktime
  <2>4. todo \in Seq(Resources \union Timers) /\ held \subseteq Resources /\ armed \subseteq Timers
    BY <1>1
  <2>5. /\ rx_pin \in BOOLEAN /\ tx_pin \in BOOLEAN /\ yanked \in BOOLEAN /\ uart \in BOOLEAN
        /\ opened \in BOOLEAN /\ unloading \in BOOLEAN /\ stuck \subseteq {"rx_gpio", "tx_gpio"}
        /\ alone \in BOOLEAN
    BY DEF Init
  <2>6. period_ms = 0 /\ period = 0 /\ half_period = 0
    BY DEF Init
  <2> QED BY <1>1, <2>2, <2>3, <2>4, <2>5, <2>6 DEF TypeOK, StRecs
<1> QED BY <1>3, <1>4

(* The three parts together are inductive.                                 *)
THEOREM LifecycleInductive == Spec => [](TypeOK /\ HeldInv /\ TimerInv)
<1>1. Init => TypeOK /\ HeldInv /\ TimerInv
  BY InitAll
<1>2. (TypeOK /\ HeldInv /\ TimerInv) /\ [Next]_vars => (TypeOK /\ HeldInv /\ TimerInv)'
  BY HeldStep, TypeStep, TimerStep
<1> QED BY <1>1, <1>2, PTL DEF Spec

(***************************************************************************)
(* What bitbang_probe acquires is given back, once, on every path, with    *)
(* any failures and any number of binds and unbinds: by its labels, by     *)
(* bitbang_uart_init for itself, by remove and at unload.  What stays is   *)
(* dbg and the stuck pins, and no timer outlives the memory it uses.       *)
(***************************************************************************)
THEOREM LifecycleCorrect == Spec => []LifecycleInv
<1>1. ASSUME TypeOK, HeldInv, TimerInv PROVE LifecycleInv
  <2>0. todo \in Seq(Todo) /\ DOMAIN todo = 1 .. Len(todo)
    BY <1>1 DEF HeldInv, Once
  <2>1. UndoesOnlyHeld
    <3> SUFFICES ASSUME NEW i \in DOMAIN todo, todo[i] \in Resources \ {"proc"}
                 PROVE  /\ todo[i] \in held
                        /\ \A j \in DOMAIN todo : todo[j] = todo[i] => j = i
      BY DEF UndoesOnlyHeld
    <3>1. todo[i] \in Pending
      BY <2>0 DEF Pending
    <3>2. todo[i] \notin Timers
      BY StepRange DEF Timers
    <3>3. todo[i] \in held
      BY <1>1, <3>1, <3>2 DEF HeldInv
    <3> QED BY <1>1, <2>0, <3>3 DEF HeldInv, Once
  <2>2. OnlyKnownLeaks
    <3>1. ASSUME pc \in {"unbound", "unloaded"} PROVE held \subseteq {"dbg"} \union stuck
      <4>1. ~Probing /\ ~Releasing
        BY <3>1 DEF Probing, Releasing, StepSet
      <4>2. Pending = {}
        BY <1>1, <4>1, NothingLeft DEF HeldInv
      <4> QED BY <1>1, <4>1, <4>2 DEF HeldInv
    <3> QED BY <1>1, <3>1 DEF HeldInv, OnlyKnownLeaks
  <2>3. TimersStopped
    BY <1>1 DEF TimerInv, TimersStopped
  <2> QED BY <1>1, <2>1, <2>2, <2>3 DEF LifecycleInv
<1> QED BY <1>1, LifecycleInductive, PTL

----------------------------------------------------------------------------
(* The period                                                              *)

Idle == \A p \in Storers : storing[p].at = "idle"

(* A store is under way only while the attribute is there to be written.   *)
StoreInv == ~Idle => pc \in {"bound", "removing"} /\ "period" \in held

(* A store in progress has the attribute it came through.                  *)
LEMMA StoreStep == ASSUME TypeOK, HeldInv, StoreInv, [Next]_vars PROVE StoreInv'
<1>1. CASE UNCHANGED storing /\ ~Idle
  <2>0. pc \in {"bound", "removing"} /\ "period" \in held
    BY <1>1 DEF StoreInv
  <2>1. CASE Undo
    <3>1. Head(todo) # "period" /\ held' = held \ {Head(todo)} /\ pc' = pc
      BY <1>1, <2>1 DEF Undo, Idle
    <3> QED BY <2>0, <3>1 DEF StoreInv
  <2>2. CASE Released
    <3>1. Pending = {} /\ ~Probing
      BY <2>2, NothingLeft DEF Released, HeldInv, Releasing, Probing, StepSet
    <3>2. "period" \in {"dbg"} \union stuck
      BY <2>0, <3>1 DEF HeldInv
    <3> QED BY <3>2 DEF TypeOK
  <2>3. CASE Unbind \/ Unload
    BY <2>0, <2>3 DEF Unbind, Unload, StoreInv
  <2>4. CASE Beside
    BY <2>0, <2>4, BesideKeeps DEF StoreInv
  <2>5. pc \notin StepSet /\ pc \notin {"unloaded", "unbound", "undoing"} /\ pc # "proc"
    BY <2>0 DEF StepSet
  <2> QED BY <2>1, <2>2, <2>3, <2>4, <2>5, DriverSteps
          DEF StartProbe, ProbeStepOk, ProbeStepFails, ProcFails
<1>2. CASE UNCHANGED storing /\ Idle
  BY <1>2 DEF StoreInv, Idle
<1>3. ASSUME NEW p \in Storers, NEW v \in Values, period_store(p, v) PROVE StoreInv'
  BY <1>3 DEF period_store, StoreInv
<1>4. ASSUME NEW p \in Storers, SetPeriodLoad(p) \/ SetPeriodStore(p) \/ SetPeriodHalf(p)
      PROVE  StoreInv'
  <2>1. ~Idle /\ UNCHANGED <<pc, held>>
    BY <1>4 DEF SetPeriodLoad, SetPeriodStore, SetPeriodHalf, Idle
  <2> QED BY <2>1 DEF StoreInv
<1>5. \/ UNCHANGED storing
      \/ \E p \in Storers : \/ \E v \in Values : period_store(p, v)
                            \/ SetPeriodLoad(p) \/ SetPeriodStore(p) \/ SetPeriodHalf(p)
  BY DriverSteps DEF Beside, StartProbe, ProbeStepOk, ProbeStepFails, ProcFails, Undo, Released,
                     Unbind, Unload, OpenFile, CloseFile, StartTimer, TimerStops, vars
<1> QED BY <1>1, <1>2, <1>3, <1>4, <1>5

(* While the period is set by one alone: from the step that sets the UART  *)
(* up, the driver runs at the period that is shown, and a store under way  *)
(* is the only one and carries that period.                                *)
(***************************************************************************)
PeriodInv ==
    alone =>
        /\ period_ms \in 1 .. MaxPeriod
        /\ Probing /\ Ord(pc) > 8 /\ Idle => period = ms_to_ktime(period_ms) /\ half_period = period_ms
        /\ \A p, q \in Storers : storing[p].at # "idle" /\ storing[q].at # "idle" => p = q
        /\ \A p \in Storers :
              /\ storing[p].at \in {"store", "half"} => storing[p].v = period_ms
              /\ storing[p].at = "half" => period = ms_to_ktime(period_ms)

(* What is shown and what is used move together.                           *)
LEMMA PeriodStep ==
  ASSUME TypeOK, StoreInv, PeriodInv, [Next]_vars
  PROVE  PeriodInv'
<1>0. storing \in [Storers -> StRecs] /\ alone \in BOOLEAN
  BY DEF TypeOK, StRecs
<1> SUFFICES ASSUME alone' PROVE PeriodInv'
  BY DEF PeriodInv
<1>1. CASE \E v \in Params, rxp, txp \in BOOLEAN : StartProbe(v, rxp, txp)
  <2>1. PICK v \in Params, rxp \in BOOLEAN, txp \in BOOLEAN : StartProbe(v, rxp, txp)
    BY <1>1
  <2>2. /\ pc \in {"unloaded", "unbound"} /\ pc' = "region" /\ UNCHANGED <<storing, period>>
        /\ period_ms' = IF v = 0 THEN PERIOD_MS ELSE v
        /\ InRange(period_ms')
    BY <2>1, StepOrder DEF StartProbe
  <2>3. period_ms' \in 1 .. MaxPeriod
    <3>1. v \in Nat
      BY LifecycleAssumption
    <3>2. period_ms' \in Nat /\ period_ms' # 0 /\ period_ms' <= MaxPeriod
      BY <2>2, <3>1, Range0 DEF InRange
    <3> QED BY <3>2, Range0
  <2>4. Idle
    BY <2>2 DEF StoreInv
  <2>5. ~(Ord(pc') > 8)
    BY <2>2, OrdValues
  <2> QED BY <2>2, <2>3, <2>4, <2>5 DEF PeriodInv, Idle
<1>2. CASE \E s \in StepSet : ProbeStepOk(s)
  <2>1. PICK s \in StepSet : ProbeStepOk(s)
    BY <1>2
  <2>2. pc = s /\ Advance(s) /\ UNCHANGED <<period_ms, storing, alone>>
    BY <2>1 DEF ProbeStepOk
  <2>3. Ord(pc') = Ord(s) + 1 /\ Ord(s) \in 1 .. 13
    BY <2>2, OrdNext, OrdInjective
  <2>4. pc \notin {"unloaded", "bound", "removing"} /\ Probing
    BY <2>2 DEF StepSet, Probing
  <2>5. Idle /\ period_ms \in 1 .. MaxPeriod
    BY <2>2, <2>4 DEF StoreInv, PeriodInv
  <2>6. ASSUME Ord(pc') > 8
        PROVE  period' = ms_to_ktime(period_ms) /\ half_period' = period_ms
    <3>1. CASE s = "uart"
      <4>1. period' = ms_to_ktime(period_ms) /\ half_period' = period' \div 2
        <5>1. InRange(period_ms)
          BY <2>5, Range0 DEF InRange
        <5> QED BY <2>1, <3>1, <5>1 DEF ProbeStepOk
      <4>2. period_ms \in 0 .. MaxPeriod
        BY <2>5, Range0
      <4> QED BY <4>1, <4>2, Halves
    <3>2. CASE s # "uart"
      <4>1. "uart" \in StepSet /\ Ord("uart") = 8
        BY OrdValues DEF StepSet
      <4>2. Ord(s) # 8
        BY <3>2, <4>1, OrdInjective
      <4>3. Ord(s) > 8
        BY <2>3, <2>6, <4>2
      <4>4. UNCHANGED <<period, half_period>>
        BY <2>1, <3>2 DEF ProbeStepOk
      <4> QED BY <2>2, <2>4, <2>5, <4>3, <4>4 DEF PeriodInv
    <3> QED BY <3>1, <3>2
  <2> QED BY <2>2, <2>5, <2>6 DEF PeriodInv, Idle
<1>3. CASE \E s \in StepSet : ProbeStepFails(s)
  <2>1. /\ pc \in StepSet /\ pc' = "undoing"
        /\ UNCHANGED <<period_ms, storing, period, half_period, alone>>
    BY <1>3 DEF ProbeStepFails, periodVars
  <2>2. ~Probing'
    BY <2>1 DEF StepSet, Probing
  <2> QED BY <2>1, <2>2 DEF PeriodInv
<1>4. CASE ProcFails
  <2>0. "proc" \in StepSet /\ Ord("proc") = 7
    BY OrdValues DEF StepSet
  <2>1. /\ pc = "proc" /\ Advance("proc")
        /\ UNCHANGED <<period_ms, storing, period, half_period, alone>>
    BY <1>4 DEF ProcFails, periodVars
  <2>2. ~(Ord(pc') > 8)
    BY <2>0, <2>1, OrdNext
  <2> QED BY <2>1, <2>2 DEF PeriodInv
<1>5. CASE Undo \/ Released \/ Unbind \/ Unload
  <2>1. /\ pc' \in {"undoing", "removing", "unloaded", "unbound"}
        /\ UNCHANGED <<period_ms, storing, period, half_period, alone>>
    BY <1>5 DEF Undo, Released, Unbind, Unload, Releasing, periodVars
  <2>2. ~Probing'
    BY <2>1 DEF StepSet, Probing
  <2> QED BY <2>1, <2>2 DEF PeriodInv
<1>6. CASE UNCHANGED <<pc, period_ms, storing, period, half_period, alone>>
  BY <1>6 DEF PeriodInv, Probing, Idle
<1>7. ASSUME NEW p \in Storers, NEW v \in Values, period_store(p, v) PROVE PeriodInv'
  <2>1. /\ storing' = [storing EXCEPT ![p] = [at |-> "load", v |-> 0]] /\ period_ms' = v
        /\ v >= 1 /\ v <= MaxPeriod /\ v \in Nat
        /\ \A q \in Storers : storing[q].at = "idle"
    BY <1>7, LifecycleAssumption DEF period_store
  <2>2. storing'[p].at = "load" /\ v \in 1 .. MaxPeriod
    BY <1>0, <2>1, Range0
  <2>3. \A q \in Storers : q # p => storing'[q].at = "idle"
    BY <1>0, <2>1
  <2>4. ~Idle'
    BY <2>2 DEF Idle
  <2>5. \A q \in Storers : storing'[q].at \notin {"store", "half"}
    BY <2>2, <2>3
  <2> QED BY <2>1, <2>2, <2>3, <2>4, <2>5 DEF PeriodInv
<1>8. ASSUME NEW p \in Storers, SetPeriodLoad(p) PROVE PeriodInv'
  <2>1. storing[p].at = "load" /\ alone
    BY <1>8 DEF SetPeriodLoad, periodVars
  <2>2. /\ period_ms \in 1 .. MaxPeriod
        /\ \A q \in Storers : q # p => storing[q].at = "idle"
    BY <2>1 DEF PeriodInv
  <2>3. InRange(period_ms)
    BY <2>2, Range0 DEF InRange
  <2>4. /\ storing' = [storing EXCEPT ![p] = [at |-> "store", v |-> period_ms]]
        /\ UNCHANGED <<pc, period_ms, period, half_period>>
    BY <1>8, <2>3 DEF SetPeriodLoad, periodVars
  <2>5. /\ storing'[p].at = "store" /\ storing'[p].v = period_ms
        /\ \A q \in Storers : q # p => storing'[q].at = "idle"
    BY <1>0, <2>2, <2>4
  <2>6. ~Idle'
    BY <2>5 DEF Idle
  <2> QED BY <2>2, <2>4, <2>5, <2>6 DEF PeriodInv
<1>9. ASSUME NEW p \in Storers, SetPeriodStore(p) PROVE PeriodInv'
  <2>1. /\ storing[p].at = "store" /\ period' = ms_to_ktime(storing[p].v) /\ alone
        /\ storing' = [storing EXCEPT ![p] = [storing[p] EXCEPT !.at = "half"]]
        /\ UNCHANGED <<pc, period_ms, half_period>>
    BY <1>9 DEF SetPeriodStore
  <2>2. /\ storing[p].v = period_ms /\ period_ms \in 1 .. MaxPeriod
        /\ \A q \in Storers : q # p => storing[q].at = "idle"
    BY <2>1 DEF PeriodInv
  <2>3. /\ storing'[p].at = "half" /\ storing'[p].v = period_ms
        /\ \A q \in Storers : q # p => storing'[q].at = "idle"
    BY <1>0, <2>1, <2>2 DEF StRecs
  <2>4. ~Idle'
    BY <2>3 DEF Idle
  <2> QED BY <2>1, <2>2, <2>3, <2>4 DEF PeriodInv
<1>10. ASSUME NEW p \in Storers, SetPeriodHalf(p) PROVE PeriodInv'
  <2>1. /\ storing[p].at = "half" /\ UNCHANGED <<pc, period_ms, period>> /\ alone
        /\ half_period' \in {ms_to_ktime(storing[p].v) \div 2, period \div 2}
        /\ storing' = [storing EXCEPT ![p] = [at |-> "idle", v |-> 0]]
    BY <1>10 DEF SetPeriodHalf
  <2>2. /\ storing[p].v = period_ms /\ period = ms_to_ktime(period_ms)
        /\ period_ms \in 1 .. MaxPeriod
        /\ \A q \in Storers : q # p => storing[q].at = "idle"
    BY <2>1 DEF PeriodInv
  <2>3. half_period' = period_ms
    <3>1. period_ms \in 0 .. MaxPeriod
      BY <2>2, Range0
    <3> QED BY <2>1, <2>2, <3>1, Halves
  <2>4. \A q \in Storers : storing'[q].at = "idle"
    BY <1>0, <2>1, <2>2
  <2> QED BY <2>1, <2>2, <2>3, <2>4 DEF PeriodInv
<1> QED BY <1>1, <1>2, <1>3, <1>4, <1>5, <1>6, <1>7, <1>8, <1>9, <1>10, DriverSteps
        DEF Beside, OpenFile, CloseFile, StartTimer, TimerStops, vars, periodVars

(***************************************************************************)
(* For any parameters and any number of processes that write the attribute *)
(* at once: after a parameter in range, and after a store that met no      *)
(* other, whatever went before, the driver runs at the period it shows and *)
(* samples in the middle of a bit.  PeriodInv adds to that the stores      *)
(* under way, between the load and the two stores of                       *)
(* bitbang_uart_set_period.                                                *)
(***************************************************************************)
THEOREM PeriodTakesEffect == Spec => []PeriodSettles
<1>1. Init => StoreInv /\ PeriodInv
  <2> SUFFICES ASSUME Init PROVE StoreInv /\ PeriodInv
    OBVIOUS
  <2>1. Idle /\ ~alone
    BY DEF Init, Idle
  <2> QED BY <2>1 DEF StoreInv, PeriodInv
<1>2. (TypeOK /\ HeldInv /\ TimerInv) /\ StoreInv /\ PeriodInv /\ [Next]_vars
         => StoreInv' /\ PeriodInv'
  BY StoreStep, PeriodStep
<1>3. TypeOK /\ StoreInv /\ PeriodInv => PeriodSettles
  <2> SUFFICES ASSUME TypeOK, PeriodInv, pc = "bound", alone, Idle
               PROVE  period = ms_to_ktime(period_ms) /\ 2 * half_period = period
    BY DEF PeriodSettles, Idle
  <2>1. Probing /\ Ord(pc) > 8
    BY OrdValues DEF Probing
  <2>2. period = ms_to_ktime(period_ms) /\ half_period = period_ms
    BY <2>1 DEF PeriodInv
  <2> QED BY <2>2 DEF ms_to_ktime
<1> QED BY <1>1, <1>2, <1>3, LifecycleInductive, PTL DEF Spec
=============================================================================
