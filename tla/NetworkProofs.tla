---------------------------- MODULE NetworkProofs ----------------------------
(***************************************************************************)
(* Proofs about the two network components, each with its inductive        *)
(* invariant: the UDP proxies of UdpProxy (ProxyInv: whose a socket is,    *)
(* what is on its way through it, and what each thread holds) and the      *)
(* scripts of NetnsScripts (NetInv: what a run at each of its commands has *)
(* done, whose a rule is, and what a command that failed has left).        *)
(***************************************************************************)
EXTENDS UdpProxy, NetnsScripts, FiniteSetTheorems, SequenceTheorems, TLAPS

-----------------------------------------------------------------------------
(* Masking *)

\* Exclusive or with the same byte twice gives the byte back.
LEMMA XorTwice ==
  ASSUME NEW a \in Byte, NEW b \in Byte
  PROVE  Xor(a, b) \in Byte /\ Xor(Xor(a, b), b) = a
<1> DEFINE x == Xor(a, b)
           y == Xor(x, b)
<1>1. ASSUME NEW p \in {0, 1}, NEW q \in {0, 1}
      PROVE  (p + q) % 2 \in {0, 1} /\ (((p + q) % 2) + q) % 2 = p
  OBVIOUS
<1>2. \A j \in 0 .. 7 : a[j] \in {0, 1} /\ b[j] \in {0, 1}
  BY DEF Byte
<1>3. x = [j \in 0 .. 7 |-> (a[j] + b[j]) % 2]
  BY DEF Xor
<1>4. x \in Byte
  <2>1. \A j \in 0 .. 7 : (a[j] + b[j]) % 2 \in {0, 1}
    BY <1>1, <1>2
  <2> QED BY ONLY <1>3, <2>1 DEF Byte
<1>5. y = [j \in 0 .. 7 |-> (x[j] + b[j]) % 2]
  BY DEF Xor
<1>6. ASSUME NEW j \in 0 .. 7 PROVE y[j] = a[j]
  <2>1. y[j] = (((a[j] + b[j]) % 2) + b[j]) % 2
    BY ONLY <1>3, <1>5, <1>6
  <2> QED BY <2>1, <1>1, <1>2
<1> HIDE DEF x, y
<1>7. y = a
  <2>1. a = [j \in 0 .. 7 |-> a[j]]
    BY DEF Byte
  <2>2. y = [j \in 0 .. 7 |-> y[j]]
    BY <1>5
  <2> QED BY ONLY <1>6, <2>1, <2>2
<1> QED BY <1>4, <1>7 DEF x, y

\* Masking with a byte of the key for each byte of a datagram, whichever byte
\* that is, gives a datagram of the same length, and done twice the datagram.
LEMMA MaskTwice ==
  ASSUME NEW d \in Seq(Byte), NEW k, \A i \in 1 .. Len(d) : k[i] \in Byte,
         NEW e, e = [i \in 1 .. Len(d) |-> Xor(d[i], k[i])]
  PROVE  /\ e \in Seq(Byte) /\ Len(e) = Len(d)
         /\ [i \in 1 .. Len(d) |-> Xor(e[i], k[i])] = d
<1>1. \A i \in 1 .. Len(d) : d[i] \in Byte
  OBVIOUS
<1>2. \A i \in 1 .. Len(d) : e[i] = Xor(d[i], k[i])
  OBVIOUS
<1>3. \A i \in 1 .. Len(d) : e[i] \in Byte /\ Xor(e[i], k[i]) = d[i]
  BY <1>1, <1>2, XorTwice
<1>4. e \in Seq(Byte) /\ Len(e) = Len(d)
  BY <1>3
<1>5. d = [i \in 1 .. Len(d) |-> d[i]]
  OBVIOUS
<1> QED BY <1>3, <1>4, <1>5

\* xor_buffer with the key, twice, is the identity, and so is xor_bytes: what a
\* client gets is what the remote end decoded.
LEMMA Unmasked ==
  ASSUME NEW d \in Seq(Byte)
  PROVE  /\ xor_buffer(d, Key) \in Seq(Byte)
         /\ xor_buffer(xor_buffer(d, Key), Key) = d
         /\ xor_bytes(xor_bytes(d, Key), Key) = d
<1>0. Key \in Seq(Byte) /\ Len(Key) \in Nat \ {0} /\ Len(d) \in Nat /\ Key # <<>>
  BY ProxyAssumption
<1> DEFINE n == Len(Key)
           k == [i \in 1 .. Len(d) |-> Key[((i - 1) % n) + 1]]
           e == [i \in 1 .. Len(d) |-> Xor(d[i], k[i])]
           l == [i \in 1 .. Len(d) |-> Key[1 + ((i + n - 1) % n)]]
           f == [i \in 1 .. Len(d) |-> Xor(d[i], l[i])]
<1>1. ASSUME NEW i \in 1 .. Len(d)
      PROVE  ((i - 1) % n) + 1 \in 1 .. n /\ 1 + ((i + n - 1) % n) \in 1 .. n
  BY <1>0
<1>2. \A i \in 1 .. Len(d) : k[i] \in Byte /\ l[i] \in Byte
  <2> TAKE i \in 1 .. Len(d)
  <2>1. k[i] = Key[((i - 1) % n) + 1] /\ l[i] = Key[1 + ((i + n - 1) % n)]
    OBVIOUS
  <2>2. \A j \in 1 .. n : Key[j] \in Byte
    BY <1>0
  <2> HIDE DEF k, l
  <2> QED BY <1>1, <2>1, <2>2
<1>3. e \in Seq(Byte) /\ Len(e) = Len(d) /\ [i \in 1 .. Len(d) |-> Xor(e[i], k[i])] = d
  <2>1. \A i \in 1 .. Len(d) : k[i] \in Byte
    BY <1>2
  <2>2. e = [i \in 1 .. Len(d) |-> Xor(d[i], k[i])]
    OBVIOUS
  <2> HIDE DEF k, e
  <2> QED BY ONLY <2>1, <2>2, d \in Seq(Byte), MaskTwice
<1>4. f \in Seq(Byte) /\ Len(f) = Len(d) /\ [i \in 1 .. Len(d) |-> Xor(f[i], l[i])] = d
  <2>1. \A i \in 1 .. Len(d) : l[i] \in Byte
    BY <1>2
  <2>2. f = [i \in 1 .. Len(d) |-> Xor(d[i], l[i])]
    OBVIOUS
  <2> HIDE DEF l, f
  <2> QED BY ONLY <2>1, <2>2, d \in Seq(Byte), MaskTwice
<1>5. xor_buffer(d, Key) = e
  BY DEF xor_buffer
<1>6. xor_bytes(d, Key) = f
  <2>1. xor_bytes(d, Key) = [i \in DOMAIN d |-> Xor(d[i], Key[1 + ((i + n - 1) % n)])]
    BY <1>0 DEF xor_bytes
  <2>2. DOMAIN d = 1 .. Len(d)
    OBVIOUS
  <2>3. \A i \in 1 .. Len(d) : l[i] = Key[1 + ((i + n - 1) % n)]
    OBVIOUS
  <2> HIDE DEF l, n
  <2> QED BY ONLY <2>1, <2>2, <2>3 DEF f
<1>7. xor_buffer(e, Key) = [i \in 1 .. Len(d) |-> Xor(e[i], k[i])]
  <2>1. Len(e) = Len(d)
    BY <1>3
  <2> HIDE DEF e
  <2> QED BY <2>1 DEF xor_buffer
<1>8. xor_bytes(f, Key) = [i \in 1 .. Len(d) |-> Xor(f[i], l[i])]
  <2>1. DOMAIN f = 1 .. Len(d)
    OBVIOUS
  <2> HIDE DEF f
  <2> QED BY <1>0, <2>1 DEF xor_bytes
<1> HIDE DEF e, f, k, l
<1> QED BY <1>3, <1>4, <1>5, <1>6, <1>7, <1>8

-----------------------------------------------------------------------------
(* The proxies' inductive invariant *)

\* What is under way upstream and downstream is masked.
Masked == {xor_buffer(d, Key) : d \in Payloads}
Datagrams == (0 .. MaxSent) \X Clients \X Masked

ClientRecords == [addr : Clients, fd : 1 .. MaxSent, seen : 0 .. time]

\* Where the main thread is, and what it holds there.
MainHolds ==
  \/ main = Idle
  \/ main \in [at : {"got"}, from : Clients, buf : Masked]
  \/ variant = "single" /\ main \in [at : {"have"}, from : heard, buf : Masked]
  \/ /\ variant # "single"
     /\ main \in [at : {"have", "sent"}, client : clients, from : Clients, buf : Masked]
     /\ main.client.addr = main.from
     /\ time <= main.client.seen + CLIENT_TIMEOUT

\* The same of the second thread.
BackHolds ==
  \/ back = Idle
  \/ variant = "single" /\ back \in [at : {"got"}, for : heard, buf : Payloads]
  \/ variant = "cleanup" /\ back \in [at : {"now"}, now : 0 .. time]

ProxyTypes ==
  /\ variant \in {"single", "multi", "cleanup"}
  /\ localQ \in Seq(Clients \X Payloads)
  /\ upstream \subseteq Datagrams /\ waiting \subseteq Datagrams
  /\ clients \subseteq ClientRecords
  /\ last \in Clients \cup {NoClient}
  /\ sent \in 0 .. MaxSent /\ time \in 0 .. MaxTime

\* multi and cleanup: clients and sockets are one to one, and what is under way
\* on a client's socket is that client's.
Owners ==
  variant # "single" =>
    /\ \A c, d \in clients : c.addr = d.addr \/ c.fd = d.fd => c = d
    /\ open = {c.fd : c \in clients}
    /\ \A m \in waiting : m[1] \in open
    /\ \A m \in upstream \cup waiting, c \in clients : m[1] = c.fd => m[2] = c.addr

\* single: every datagram under way is from a client that was heard.
Heard ==
  variant = "single" =>
    /\ clients = {} /\ open = {0}
    /\ heard \subseteq Clients
    /\ last \in heard \cup {NoClient}
    /\ \A m \in upstream \cup waiting : m[2] \in heard

\* multi and cleanup: the sockets that are open or have a datagram under way
\* are never more than the datagrams the clients sent, less those not yet
\* handled: a fresh number for a socket is left.
Used == open \cup {m[1] : m \in upstream}
Room ==
  variant # "single" =>
    /\ IsFiniteSet(Used)
    /\ Cardinality(Used) + Len(localQ) + (IF main.at = "got" THEN 1 ELSE 0) <= sent

ProxyInv ==
  ProxyTypes /\ MainHolds /\ BackHolds /\ Owners /\ Heard /\ Room /\ ReplyToOwner

\* The invariant says what the run checks.
LEMMA ProxyInvImplies ==
  ASSUME ProxyInv
  PROVE  ClientInv /\ ReplyToOwner
<1> USE DEF ProxyInv
<1>1. open \subseteq 0 .. MaxSent /\ \A c \in clients : c.fd \in open
  <2>1. CASE variant = "single"
    BY <2>1, ProxyAssumption DEF Heard
  <2>2. CASE variant # "single"
    BY <2>2 DEF Owners, ProxyTypes, ClientRecords
  <2> QED BY <2>1, <2>2
<1>2. \A m \in upstream \cup waiting : m[1] \in 0 .. MaxSent /\ m[2] \in Clients
  BY DEF ProxyTypes, Datagrams
<1>3. \A c \in clients : c.addr \in Clients /\ c.fd \in open /\ c.seen \in 0 .. time
  BY <1>1 DEF ProxyTypes, ClientRecords
<1>4. \A c, d \in clients : c.addr = d.addr => c = d
  BY DEF Owners, Heard
<1>5. main.at \in {"recv", "got", "have", "sent"}
  BY DEF MainHolds, Idle
<1>6. back.at \in {"recv", "got", "now"}
  BY DEF BackHolds, Idle
<1>7. ProxyTypeOK
  BY <1>1, <1>2, <1>3, <1>4, <1>5, <1>6 DEF ProxyTypes, ProxyTypeOK, NoClient
<1>8. ClientInUseLives
  <2> SUFFICES ASSUME main.at \in {"have", "sent"}, variant # "single"
               PROVE  /\ \E c \in clients : c.addr = main.client.addr /\ c.fd = main.client.fd
                      /\ main.client.fd \in open
    BY DEF ClientInUseLives
  <2>1. main.client \in clients
    BY DEF MainHolds, Idle
  <2> QED BY <2>1, <1>3
<1>9. SocketsOwned
  BY DEF Owners, SocketsOwned
<1> QED BY <1>7, <1>8, <1>9 DEF ClientInv

\* All three proxies start in it.
LEMMA ProxyStart ==
  ASSUME ProxyInit
  PROVE  ProxyInv
<1> USE DEF ProxyInit, SingleMain, MultiMain
<1>1. ProxyTypes
  BY ProxyAssumption DEF ProxyTypes
<1>2. MainHolds /\ BackHolds
  BY DEF MainHolds, BackHolds
<1>3. Owners
  BY DEF Owners
<1>4. Heard
  BY DEF Heard
<1>5. Room
  <2> SUFFICES ASSUME variant # "single"
               PROVE  IsFiniteSet(Used) /\ Cardinality(Used) + Len(localQ)
                        + (IF main.at = "got" THEN 1 ELSE 0) <= sent
    BY DEF Room
  <2>1. Used = {}
    BY DEF Used
  <2>2. IsFiniteSet(Used) /\ Cardinality(Used) = 0
    BY <2>1, FS_EmptySet
  <2>3. main.at # "got" /\ Len(localQ) = 0
    BY DEF Idle
  <2> QED BY <2>2, <2>3
<1>6. ReplyToOwner
  BY DEF ReplyToOwner
<1> QED BY <1>1, <1>2, <1>3, <1>4, <1>5, <1>6 DEF ProxyInv

-----------------------------------------------------------------------------
(* The steps *)

\* What the remote end answers is masked as the datagram was.
LEMMA MaskedAnswer ==
  ASSUME NEW d \in Masked
  PROVE  /\ xor_bytes(xor_bytes(d, Key), Key) \in Masked
         /\ xor_buffer(d, Key) \in Payloads
<1>1. PICK p \in Payloads : d = xor_buffer(p, Key)
  BY DEF Masked
<1>2. p \in Seq(Byte)
  BY ProxyAssumption
<1>3. d \in Seq(Byte) /\ xor_buffer(d, Key) = p
  BY <1>1, <1>2, Unmasked
<1>4. xor_bytes(xor_bytes(d, Key), Key) = d
  BY <1>3, Unmasked
<1> QED BY <1>3, <1>4

\* Room is kept when no socket is added and no datagram comes in.
LEMMA RoomKept ==
  ASSUME ProxyTypes, Room, variant' = variant, Used' \subseteq Used,
         localQ' = localQ, sent' = sent, main'.at = "got" => main.at = "got"
  PROVE  Room'
<1> SUFFICES ASSUME variant # "single" PROVE Room'
  BY DEF Room
<1>1. IsFiniteSet(Used) /\ Cardinality(Used) + Len(localQ) + (IF main.at = "got" THEN 1 ELSE 0) <= sent
  BY DEF Room
<1>2. /\ IsFiniteSet(Used') /\ Cardinality(Used') <= Cardinality(Used)
      /\ Cardinality(Used') \in Nat /\ Cardinality(Used) \in Nat
  BY <1>1, FS_Subset, FS_CardinalityType
<1>3. Len(localQ) \in Nat /\ sent \in Nat
  BY ProxyAssumption DEF ProxyTypes
<1>4. Cardinality(Used') + Len(localQ) + (IF main'.at = "got" THEN 1 ELSE 0) <= sent
  BY <1>1, <1>2, <1>3
<1> QED BY <1>2, <1>4 DEF Room

\* A client sends a datagram.
LEMMA StepClientSends ==
  ASSUME ProxyInv, NEW c \in Clients, NEW d \in Payloads,
         ClientSends(c, d)
  PROVE  ProxyInv'
<1> USE DEF ProxyInv, ClientSends
<1>0. localQ \in Seq(Clients \X Payloads) /\ Len(localQ) \in Nat /\ sent \in Nat /\ sent < MaxSent
  BY ProxyAssumption DEF ProxyTypes
<1>1. localQ' \in Seq(Clients \X Payloads) /\ Len(localQ') = Len(localQ) + 1
  BY <1>0, <<c, d>> \in Clients \X Payloads, AppendProperties
<1>2. ProxyTypes'
  BY <1>0, <1>1, ProxyAssumption DEF ProxyTypes, Datagrams, Masked, ClientRecords
<1>3. MainHolds' /\ BackHolds'
  BY DEF MainHolds, BackHolds, Masked
<1>4. Owners' /\ Heard'
  BY DEF Owners, Heard
<1>5. Room'
  <2> SUFFICES ASSUME variant # "single" PROVE Room'
    BY DEF Room
  <2>1. Used' = Used
    BY DEF Used
  <2>2. IsFiniteSet(Used) /\ Cardinality(Used) + Len(localQ) + (IF main.at = "got" THEN 1 ELSE 0) <= sent
    BY DEF Room
  <2>3. Cardinality(Used) \in Nat
    BY <2>2, FS_CardinalityType
  <2>4. Cardinality(Used) + Len(localQ') + (IF main.at = "got" THEN 1 ELSE 0) <= sent'
    BY <2>2, <2>3, <1>0, <1>1
  <2> QED BY <2>1, <2>2, <2>4 DEF Room
<1>6. ReplyToOwner'
  BY DEF ReplyToOwner
<1> QED BY <1>2, <1>3, <1>4, <1>5, <1>6

\* The remote end answers, or the datagram is lost: a datagram leaves upstream,
\* and its answer arrives at most at the socket it came from.
LEMMA StepRemote ==
  ASSUME ProxyInv, NEW m \in upstream,
         RemoteAnswers(m) \/ Lost(m)
  PROVE  ProxyInv'
<1> USE DEF ProxyInv
<1>0. UNCHANGED <<variant, localQ, open, clients, main, back, last, delivered, heard, sent, time>>
  BY DEF RemoteAnswers, Lost
<1>1. upstream' = upstream \ {m}
  BY DEF RemoteAnswers, Lost
<1> DEFINE a == <<m[1], m[2], xor_bytes(xor_bytes(m[3], Key), Key)>>
<1>2. m \in Datagrams /\ m[1] \in 0 .. MaxSent /\ m[2] \in Clients /\ m[3] \in Masked
  BY DEF ProxyTypes, Datagrams
<1>3. a \in Datagrams /\ a[1] = m[1] /\ a[2] = m[2]
  <2>1. xor_bytes(xor_bytes(m[3], Key), Key) \in Masked
    BY <1>2, MaskedAnswer
  <2> QED BY <1>2, <2>1 DEF Datagrams
<1>4. waiting' = waiting \/ (m[1] \in open /\ waiting' = waiting \cup {a})
  BY DEF RemoteAnswers, Lost
<1> HIDE DEF a
<1>5. ProxyTypes'
  BY <1>0, <1>1, <1>3, <1>4 DEF ProxyTypes, Datagrams, Masked, ClientRecords
<1>6. MainHolds' /\ BackHolds'
  BY <1>0 DEF MainHolds, BackHolds, Masked
<1>7. Owners'
  BY <1>0, <1>1, <1>3, <1>4 DEF Owners
<1>8. Heard'
  BY <1>0, <1>1, <1>3, <1>4 DEF Heard
<1>9. Room'
  <2>1. Used' \subseteq Used
    BY <1>0, <1>1 DEF Used
  <2> QED BY <1>0, <2>1, RoomKept
<1>10. ReplyToOwner'
  BY <1>0 DEF ReplyToOwner
<1> QED BY <1>5, <1>6, <1>7, <1>8, <1>9, <1>10

\* The clock: a thread that has a client is not overtaken by the timeout.
LEMMA StepTick ==
  ASSUME ProxyInv, Tick
  PROVE  ProxyInv'
<1> USE DEF ProxyInv, Tick
<1>0. time \in Nat /\ time' = time + 1 /\ time < MaxTime /\ CLIENT_TIMEOUT \in Nat
      /\ MaxTime \in Nat
  BY ProxyAssumption DEF ProxyTypes
<1>1. ProxyTypes'
  <2>1. clients' \subseteq ClientRecords'
    <3>1. (0 .. time) \subseteq 0 .. time'
      BY <1>0
    <3> QED BY <3>1 DEF ProxyTypes, ClientRecords
  <2>2. time' \in 0 .. MaxTime
    BY <1>0
  <2> QED BY <2>1, <2>2 DEF ProxyTypes, Datagrams, Masked
<1>2. MainHolds'
  <2>1. CASE main.at \in {"have", "sent"}
    <3>1. time' <= main.client.seen + CLIENT_TIMEOUT
      BY <2>1, <1>0 DEF NoStall
    <3> QED BY <2>1, <3>1 DEF MainHolds, Masked, Idle
  <2>2. CASE main.at \notin {"have", "sent"}
    BY <2>2 DEF MainHolds, Masked
  <2> QED BY <2>1, <2>2
<1>3. BackHolds'
  <2>1. (0 .. time) \subseteq 0 .. time'
    BY <1>0
  <2> QED BY <2>1 DEF BackHolds
<1>4. Owners' /\ Heard'
  BY DEF Owners, Heard
<1>5. Room'
  BY DEF Room, Used
<1>6. ReplyToOwner'
  BY DEF ReplyToOwner
<1> QED BY <1>1, <1>2, <1>3, <1>4, <1>5, <1>6

\* A datagram is read from the listening socket and masked.
LEMMA StepRecvLocal ==
  ASSUME ProxyInv, RecvLocal
  PROVE  ProxyInv'
<1> USE DEF ProxyInv, RecvLocal
<1>0. /\ localQ \in Seq(Clients \X Payloads) /\ localQ # <<>> /\ main.at = "recv"
      /\ sent \in Nat
  BY ProxyAssumption DEF ProxyTypes
<1>1. /\ Head(localQ) \in Clients \X Payloads
      /\ localQ' \in Seq(Clients \X Payloads) /\ Len(localQ) \in Nat
      /\ Len(localQ') = Len(localQ) - 1
  BY <1>0, HeadTailProperties
<1>2. main' \in [at : {"got"}, from : Clients, buf : Masked]
  <2>1. Head(localQ)[1] \in Clients /\ Head(localQ)[2] \in Payloads
    BY <1>1
  <2>2. xor_buffer(Head(localQ)[2], Key) \in Masked
    BY <2>1 DEF Masked
  <2> QED BY <2>1, <2>2
<1>3. ProxyTypes'
  BY <1>1 DEF ProxyTypes, Datagrams, Masked, ClientRecords
<1>4. MainHolds'
  BY <1>2 DEF MainHolds, Masked
<1>5. BackHolds'
  BY DEF BackHolds
<1>6. Owners' /\ Heard'
  BY DEF Owners, Heard
<1>7. Room'
  <2> SUFFICES ASSUME variant # "single" PROVE Room'
    BY DEF Room
  <2>1. Used' = Used
    BY DEF Used
  <2>2. IsFiniteSet(Used) /\ Cardinality(Used) + Len(localQ) + 0 <= sent
    BY <1>0 DEF Room
  <2>3. Cardinality(Used) \in Nat
    BY <2>2, FS_CardinalityType
  <2>4. Cardinality(Used) + Len(localQ') + 1 <= sent'
    BY <2>2, <2>3, <1>0, <1>1
  <2>5. main'.at = "got"
    BY <1>2
  <2> QED BY <2>1, <2>2, <2>4, <2>5 DEF Room
<1>8. ReplyToOwner'
  BY DEF ReplyToOwner
<1> QED BY <1>3, <1>4, <1>5, <1>6, <1>7, <1>8

\* single: the client is remembered, then the datagram goes out.
LEMMA StepStoreClient ==
  ASSUME ProxyInv, StoreClient
  PROVE  ProxyInv'
<1> USE DEF ProxyInv, StoreClient
<1>0. /\ main \in [at : {"got"}, from : Clients, buf : Masked]
      /\ heard \subseteq Clients
  BY DEF MainHolds, Heard, Idle
<1>1. heard' = heard \cup {main.from} /\ heard' \subseteq Clients
  BY <1>0
<1>3. ProxyTypes'
  BY <1>0 DEF ProxyTypes, Datagrams, Masked, ClientRecords
<1>4. MainHolds'
  <2>1. main' \in [at : {"have"}, from : heard', buf : Masked]
    BY <1>0
  <2> QED BY <2>1 DEF MainHolds, Masked
<1>5. BackHolds'
  BY <1>1 DEF BackHolds
<1>6. Owners' /\ Heard'
  BY <1>1 DEF Owners, Heard
<1>7. Room'
  BY DEF Room
<1>8. ReplyToOwner'
  BY <1>1 DEF ReplyToOwner
<1> QED BY <1>3, <1>4, <1>5, <1>6, <1>7, <1>8

\* The single client's main thread sends to the remote end.
LEMMA StepSendRemote ==
  ASSUME ProxyInv, SendRemote
  PROVE  ProxyInv'
<1> USE DEF ProxyInv, SendRemote
<1>0. main \in [at : {"have"}, from : heard, buf : Masked] /\ heard \subseteq Clients
  BY DEF MainHolds, Heard, Idle
<1> DEFINE m == <<0, main.from, main.buf>>
<1>1. m \in Datagrams /\ m[2] \in heard /\ upstream' = upstream \cup {m}
  BY <1>0, ProxyAssumption DEF Datagrams
<1> HIDE DEF m
<1>2. ProxyTypes'
  BY <1>1 DEF ProxyTypes, Datagrams, Masked, ClientRecords
<1>3. MainHolds' /\ BackHolds'
  BY DEF MainHolds, BackHolds
<1>4. Owners' /\ Heard'
  BY <1>1 DEF Owners, Heard
<1>5. Room'
  BY DEF Room
<1>6. ReplyToOwner'
  BY DEF ReplyToOwner
<1> QED BY <1>2, <1>3, <1>4, <1>5, <1>6

\* single: a reply is read and unmasked, and goes to the last client.
LEMMA StepRecvRemote ==
  ASSUME ProxyInv, NEW m \in waiting, RecvRemote(m)
  PROVE  ProxyInv'
<1> USE DEF ProxyInv, RecvRemote
<1>0. m[2] \in heard /\ m[3] \in Masked
  BY DEF Heard, ProxyTypes, Datagrams
<1>1. back' \in [at : {"got"}, for : heard, buf : Payloads]
  <2>1. xor_buffer(m[3], Key) \in Payloads
    BY <1>0, MaskedAnswer
  <2> QED BY <1>0, <2>1
<1>2. ProxyTypes'
  BY DEF ProxyTypes, Datagrams, Masked, ClientRecords
<1>3. MainHolds'
  BY DEF MainHolds, Masked
<1>4. BackHolds'
  BY <1>1 DEF BackHolds
<1>5. Owners' /\ Heard'
  BY DEF Owners, Heard
<1>6. Room'
  BY DEF Room
<1>7. ReplyToOwner'
  BY DEF ReplyToOwner
<1> QED BY <1>2, <1>3, <1>4, <1>5, <1>6, <1>7

\* The thread of the single client sends to the client it holds.
LEMMA StepSendLocal ==
  ASSUME ProxyInv, SendLocal
  PROVE  ProxyInv'
<1> USE DEF ProxyInv, SendLocal
<1>0. /\ back \in [at : {"got"}, for : heard, buf : Payloads]
      /\ last \in heard \cup {NoClient}
  BY DEF BackHolds, Heard, Idle
<1>2. ProxyTypes'
  BY DEF ProxyTypes, Datagrams, Masked, ClientRecords
<1>3. MainHolds'
  BY DEF MainHolds, Masked
<1>4. BackHolds'
  BY DEF BackHolds
<1>5. Owners' /\ Heard'
  BY DEF Owners, Heard
<1>6. Room'
  BY DEF Room
<1>7. ReplyToOwner'
  <2> DEFINE r == [to |-> last, for |-> back.for, data |-> back.buf]
  <2>1. delivered' = delivered \/ (last # NoClient /\ delivered' = delivered \cup {r})
    OBVIOUS
  <2>2. r.to = last /\ r.for = back.for /\ r.data \in Payloads
    BY <1>0
  <2> HIDE DEF r
  <2> QED BY <1>0, <2>1, <2>2 DEF ReplyToOwner
<1> QED BY <1>2, <1>3, <1>4, <1>5, <1>6, <1>7

\* When a client is to be made there is a number for its socket.
LEMMA SocketLeft ==
  ASSUME ProxyInv, variant # "single", main.at = "got"
  PROVE  NewSocket \in 1 .. MaxSent /\ NewSocket \notin Used
<1>1. /\ IsFiniteSet(Used) /\ Cardinality(Used) + Len(localQ) + 1 <= sent
      /\ Len(localQ) \in Nat /\ sent \in 0 .. MaxSent /\ MaxSent \in Nat
  BY ProxyAssumption DEF ProxyInv, Room, ProxyTypes
<1>2. Cardinality(Used) \in Nat /\ Cardinality(Used) < MaxSent
  <2>1. Cardinality(Used) \in Nat
    BY <1>1, FS_CardinalityType
  <2> QED BY ONLY <1>1, <2>1
<1>3. ~((1 .. MaxSent) \subseteq Used)
  <2> SUFFICES ASSUME (1 .. MaxSent) \subseteq Used PROVE FALSE
    OBVIOUS
  <2>1. Cardinality(1 .. MaxSent) = MaxSent
    BY <1>1, FS_Interval
  <2>2. Cardinality(1 .. MaxSent) <= Cardinality(Used)
    BY <1>1, FS_Subset
  <2> QED BY <1>1, <1>2, <2>1, <2>2
<1>4. \E n \in 1 .. MaxSent : n \notin open /\ \A m \in upstream : m[1] # n
  BY <1>3 DEF Used
<1> HIDE DEF ProxyInv
<1>5. /\ NewSocket \in 1 .. MaxSent /\ NewSocket \notin open
      /\ \A m \in upstream : m[1] # NewSocket
  BY <1>4 DEF NewSocket
<1> QED BY <1>5 DEF Used

\* multi: a client of the list is taken and its time renewed.
LEMMA StepKnownClient ==
  ASSUME ProxyInv, get_client, KnownClient
  PROVE  ProxyInv'
<1> USE DEF ProxyInv
<1>0. /\ main \in [at : {"got"}, from : Clients, buf : Masked] /\ variant # "single"
      /\ UNCHANGED <<variant, localQ, upstream, waiting, back, last, delivered, heard, sent, time>>
  BY DEF MainHolds, get_client, Idle
<1>1. PICK c \in clients :
        LET found == [c EXCEPT !.seen = time] IN
        /\ c.addr = main.from
        /\ clients' = (clients \ {c}) \cup {found}
        /\ main' = [at |-> "have", client |-> found, from |-> main.from, buf |-> main.buf]
        /\ open' = open
  BY DEF KnownClient
<1> DEFINE f == [c EXCEPT !.seen = time]
<1>2. c \in ClientRecords /\ time \in Nat
  BY ProxyAssumption DEF ProxyTypes
<1>3. f \in ClientRecords /\ f.addr = c.addr /\ f.fd = c.fd /\ f.seen = time
  BY <1>2 DEF ClientRecords
<1>4. /\ c.addr = main.from /\ clients' = (clients \ {c}) \cup {f} /\ open' = open
      /\ main' = [at |-> "have", client |-> f, from |-> main.from, buf |-> main.buf]
  BY <1>1
<1> HIDE DEF f
<1>5. ProxyTypes'
  BY <1>0, <1>3, <1>4 DEF ProxyTypes, Datagrams, Masked, ClientRecords
<1>6. MainHolds'
  <2>1. main' \in [at : {"have", "sent"}, client : clients', from : Clients, buf : Masked]
    BY <1>0, <1>4
  <2>2. main'.client = f /\ main'.from = c.addr
    BY <1>4
  <2>3. time <= f.seen + CLIENT_TIMEOUT
    BY <1>2, <1>3, ProxyAssumption
  <2> QED BY <1>0, <1>3, <2>1, <2>2, <2>3 DEF MainHolds, Masked
<1>7. BackHolds'
  BY <1>0 DEF BackHolds
<1>8. Owners'
  <2>1. open' = {x.fd : x \in clients'}
    BY <1>0, <1>3, <1>4 DEF Owners
  <2>2. \A x, d \in clients' : x.addr = d.addr \/ x.fd = d.fd => x = d
    BY <1>0, <1>3, <1>4 DEF Owners
  <2>3. \A m \in upstream \cup waiting, x \in clients' : m[1] = x.fd => m[2] = x.addr
    BY <1>0, <1>3, <1>4 DEF Owners
  <2> QED BY <1>0, <1>4, <2>1, <2>2, <2>3 DEF Owners
<1>9. Heard'
  BY <1>0 DEF Heard
<1>10. Room'
  <2>1. Used' = Used /\ main'.at = "have"
    BY <1>0, <1>4 DEF Used
  <2> QED BY <1>0, <2>1, RoomKept
<1>11. ReplyToOwner'
  BY <1>0 DEF ReplyToOwner
<1> QED BY <1>5, <1>6, <1>7, <1>8, <1>9, <1>10, <1>11

\* multi: a new client gets a socket that no datagram under way has, or the
\* datagram is dropped.
LEMMA StepNewClient ==
  ASSUME ProxyInv, get_client, NewClient
  PROVE  ProxyInv'
<1> USE DEF ProxyInv
<1>0. /\ main \in [at : {"got"}, from : Clients, buf : Masked] /\ variant # "single"
      /\ UNCHANGED <<variant, localQ, upstream, waiting, back, last, delivered, heard, sent, time>>
  BY DEF MainHolds, get_client, Idle
<1>1. CASE main' = Idle /\ UNCHANGED <<clients, open>>
  <2>1. ProxyTypes'
    BY <1>0, <1>1 DEF ProxyTypes, Datagrams, Masked, ClientRecords
  <2>2. MainHolds' /\ BackHolds'
    BY <1>0, <1>1 DEF MainHolds, BackHolds
  <2>3. Owners' /\ Heard'
    BY <1>0, <1>1 DEF Owners, Heard
  <2>4. Room'
    <3>1. Used' = Used /\ main'.at = "recv"
      BY <1>0, <1>1 DEF Used, Idle
    <3> QED BY <1>0, <3>1, RoomKept
  <2>5. ReplyToOwner'
    BY <1>0 DEF ReplyToOwner
  <2> QED BY <2>1, <2>2, <2>3, <2>4, <2>5
<1>2. ASSUME NEW fd, fd = NewSocket,
             NEW new, new = [addr |-> main.from, fd |-> fd, seen |-> time],
             clients' = clients \cup {new}, open' = open \cup {new.fd},
             main' = [at |-> "have", client |-> new, from |-> main.from, buf |-> main.buf]
      PROVE  ProxyInv'
  <2>1. fd \in 1 .. MaxSent /\ fd \notin Used
    BY <1>0, <1>2, SocketLeft
  <2>2. \A c \in clients : c.addr # main.from
    BY DEF NewClient
  <2>3. fd \notin open /\ \A m \in upstream : m[1] # fd
    BY <2>1 DEF Used
  <2>4. time \in 0 .. MaxTime /\ time \in 0 .. time
    BY ProxyAssumption DEF ProxyTypes
  <2>5. new \in ClientRecords /\ new.addr = main.from /\ new.fd = fd /\ new.seen = time
    BY <1>0, <1>2, <2>1, <2>4 DEF ClientRecords
  <2>6. ProxyTypes'
    BY <1>0, <1>2, <2>5 DEF ProxyTypes, Datagrams, Masked, ClientRecords
  <2>7. MainHolds'
    <3>1. main' \in [at : {"have", "sent"}, client : clients', from : Clients, buf : Masked]
      BY <1>0, <1>2
    <3>2. main'.client = new /\ main'.from = main.from
      BY <1>2
    <3>3. time <= new.seen + CLIENT_TIMEOUT
      BY <2>4, <2>5, ProxyAssumption
    <3> QED BY <1>0, <2>5, <3>1, <3>2, <3>3 DEF MainHolds, Masked
  <2>8. BackHolds'
    BY <1>0 DEF BackHolds
  <2>9. Owners'
    <3>1. open' = {c.fd : c \in clients'}
      BY <1>0, <1>2 DEF Owners
    <3>2. \A c, d \in clients' : c.addr = d.addr \/ c.fd = d.fd => c = d
      <4>1. \A c \in clients : c.fd # fd
        BY <1>0, <2>3 DEF Owners
      <4> QED BY <1>0, <1>2, <2>2, <2>5, <4>1 DEF Owners
    <3>3. \A m \in upstream \cup waiting : m[1] # fd
      BY <1>0, <2>3 DEF Owners
    <3>4. \A m \in upstream \cup waiting, c \in clients' : m[1] = c.fd => m[2] = c.addr
      BY <1>0, <1>2, <2>5, <3>3 DEF Owners
    <3> QED BY <1>0, <1>2, <3>1, <3>2, <3>4 DEF Owners
  <2>10. Heard'
    BY <1>0 DEF Heard
  <2>11. Room'
    <3>1. Used' = Used \cup {fd}
      BY <1>0, <1>2, <2>5 DEF Used
    <3>2. /\ IsFiniteSet(Used) /\ Cardinality(Used) + Len(localQ) + 1 <= sent
          /\ Len(localQ) \in Nat /\ sent \in Nat
      BY <1>0, ProxyAssumption DEF Room, ProxyTypes
    <3>3. IsFiniteSet(Used') /\ Cardinality(Used') = Cardinality(Used) + 1
      BY <2>1, <3>1, <3>2, FS_AddElement
    <3>4. Cardinality(Used) \in Nat
      BY <3>2, FS_CardinalityType
    <3>5. Cardinality(Used') + Len(localQ) + 0 <= sent
      BY ONLY <3>2, <3>3, <3>4
    <3>6. main'.at = "have"
      BY <1>2
    <3> QED BY <1>0, <3>3, <3>5, <3>6 DEF Room
  <2>12. ReplyToOwner'
    BY <1>0 DEF ReplyToOwner
  <2> QED BY <2>6, <2>7, <2>8, <2>9, <2>10, <2>11, <2>12
<1> QED BY <1>1, <1>2 DEF NewClient

\* multi: the datagram goes out on the client's socket ...
LEMMA StepSendUpstream ==
  ASSUME ProxyInv, SendUpstream
  PROVE  ProxyInv'
<1> USE DEF ProxyInv, SendUpstream
<1>0. /\ main \in [at : {"have", "sent"}, client : clients, from : Clients, buf : Masked]
      /\ main.client.addr = main.from /\ time <= main.client.seen + CLIENT_TIMEOUT
      /\ variant # "single"
  BY DEF MainHolds, Idle
<1> DEFINE m == <<main.client.fd, main.from, main.buf>>
<1>1. main.client \in clients /\ main.client.fd \in 1 .. MaxSent /\ main.client.fd \in open
  BY <1>0 DEF ProxyTypes, ClientRecords, Owners
<1>2. /\ m \in Datagrams /\ m[1] = main.client.fd /\ m[2] = main.client.addr
      /\ upstream' = upstream \cup {m}
  BY <1>0, <1>1, ProxyAssumption DEF Datagrams
<1> HIDE DEF m
<1>3. ProxyTypes'
  BY <1>2 DEF ProxyTypes, Datagrams, Masked, ClientRecords
<1>4. MainHolds'
  <2>1. main' \in [at : {"have", "sent"}, client : clients, from : Clients, buf : Masked]
        /\ main'.client = main.client /\ main'.from = main.from
    BY <1>0
  <2> QED BY <1>0, <2>1 DEF MainHolds, Masked
<1>5. BackHolds'
  BY DEF BackHolds
<1>6. Owners'
  BY <1>0, <1>1, <1>2 DEF Owners
<1>7. Heard'
  BY <1>0 DEF Heard
<1>8. Room'
  <2>1. Used' \subseteq Used /\ main'.at = "sent"
    BY <1>0, <1>1, <1>2 DEF Used
  <2> QED BY <2>1, RoomKept
<1>9. ReplyToOwner'
  BY DEF ReplyToOwner
<1> QED BY <1>3, <1>4, <1>5, <1>6, <1>7, <1>8, <1>9

\* ... and a reply that is there is the client's own.
LEMMA StepPollReply ==
  ASSUME ProxyInv, PollReply
  PROVE  ProxyInv'
<1> USE DEF ProxyInv
<1>0. /\ main.client \in clients /\ variant # "single" /\ main' = Idle
      /\ UNCHANGED <<variant, localQ, upstream, open, clients, back, last, heard, sent, time>>
  BY DEF MainHolds, Idle, PollReply
<1>1. /\ waiting' \subseteq waiting
      /\ \/ delivered' = delivered
         \/ \E m \in waiting :
              /\ m[1] = main.client.fd
              /\ delivered' = delivered \cup
                   {[to |-> main.client.addr, for |-> m[2], data |-> xor_buffer(m[3], Key)]}
  BY DEF PollReply
<1>2. ProxyTypes'
  BY <1>0, <1>1 DEF ProxyTypes, Datagrams, Masked, ClientRecords
<1>3. MainHolds' /\ BackHolds'
  BY <1>0 DEF MainHolds, BackHolds
<1>4. Owners' /\ Heard'
  BY <1>0, <1>1 DEF Owners, Heard
<1>5. Room'
  <2>1. Used' \subseteq Used /\ main'.at = "recv"
    BY <1>0 DEF Used, Idle
  <2> QED BY <1>0, <2>1, RoomKept
<1>6. ReplyToOwner'
  <2>1. CASE delivered' = delivered
    BY <1>0, <2>1 DEF ReplyToOwner
  <2>2. ASSUME NEW m \in waiting, m[1] = main.client.fd, NEW r,
               r = [to |-> main.client.addr, for |-> m[2], data |-> xor_buffer(m[3], Key)],
               delivered' = delivered \cup {r}
        PROVE  ReplyToOwner'
    <3>1. m[2] = main.client.addr /\ m[3] \in Masked
      BY <1>0, <2>2 DEF Owners, ProxyTypes, Datagrams
    <3>2. r.to = r.for /\ r.data \in Payloads
      BY <2>2, <3>1, MaskedAnswer
    <3> QED BY <1>0, <2>2, <3>2 DEF ReplyToOwner
  <2> QED BY <1>1, <2>1, <2>2
<1> QED BY <1>2, <1>3, <1>4, <1>5, <1>6

\* The cleanup thread reads the clock ...
LEMMA StepCleanupWakes ==
  ASSUME ProxyInv, CleanupWakes
  PROVE  ProxyInv'
<1> USE DEF ProxyInv, CleanupWakes
<1>1. back' \in [at : {"now"}, now : 0 .. time]
  BY ProxyAssumption DEF ProxyTypes
<1>2. ProxyTypes'
  BY DEF ProxyTypes, Datagrams, Masked, ClientRecords
<1>3. MainHolds'
  BY DEF MainHolds, Masked
<1>4. BackHolds'
  BY <1>1 DEF BackHolds
<1>5. Owners' /\ Heard' /\ Room'
  BY DEF Owners, Heard, Room, Used
<1>6. ReplyToOwner'
  BY DEF ReplyToOwner
<1> QED BY <1>2, <1>3, <1>4, <1>5, <1>6

\* ... and closes the idle clients, never the one in use: its time is not
\* older than CLIENT_TIMEOUT.
LEMMA StepCleanupSweeps ==
  ASSUME ProxyInv, CleanupSweeps
  PROVE  ProxyInv'
<1> USE DEF ProxyInv
<1> DEFINE idle == {c \in clients : Expired(c)}
           closed == {c.fd : c \in idle}
<1>0. /\ variant = "cleanup" /\ back' = Idle
      /\ clients' = clients \ idle /\ open' = open \ closed
      /\ waiting' = {m \in waiting : m[1] \notin closed}
      /\ UNCHANGED <<variant, localQ, upstream, main, last, delivered, heard, sent, time>>
      /\ back \in [at : {"now"}, now : 0 .. time]
  BY DEF BackHolds, Idle, CleanupSweeps
<1>1. ASSUME main.at \in {"have", "sent"} PROVE main.client \in clients'
  <2>1. /\ main.client \in clients /\ time <= main.client.seen + CLIENT_TIMEOUT
        /\ main.client.seen \in Nat /\ time \in Nat
    BY <1>0, <1>1, ProxyAssumption DEF MainHolds, Idle, ProxyTypes, ClientRecords
  <2>2. ~Expired(main.client)
    BY <1>0, <2>1, ProxyAssumption DEF Expired
  <2> QED BY <1>0, <2>1, <2>2
<1>2. ProxyTypes'
  BY <1>0 DEF ProxyTypes, Datagrams, Masked, ClientRecords
<1>3. MainHolds'
  <2>1. CASE main.at \in {"have", "sent"}
    <3>1. /\ main \in [at : {"have", "sent"}, client : clients, from : Clients, buf : Masked]
          /\ main.client.addr = main.from /\ time <= main.client.seen + CLIENT_TIMEOUT
      BY <1>0, <2>1 DEF MainHolds, Idle
    <3>2. main \in [at : {"have", "sent"}, client : clients', from : Clients, buf : Masked]
      BY <1>1, <2>1, <3>1
    <3> QED BY <1>0, <3>1, <3>2 DEF MainHolds, Masked
  <2>2. CASE main.at \notin {"have", "sent"}
    BY <1>0, <2>2 DEF MainHolds, Masked
  <2> QED BY <2>1, <2>2
<1>4. BackHolds'
  BY <1>0 DEF BackHolds
<1>5. Owners'
  <2>1. open' = {c.fd : c \in clients'}
    <3>1. \A c \in clients : c.fd \in closed <=> c \in idle
      BY <1>0 DEF Owners
    <3>2. open = {c.fd : c \in clients}
      BY <1>0 DEF Owners
    <3> HIDE DEF idle, closed
    <3> QED BY <1>0, <3>1, <3>2
  <2>2. waiting' \subseteq waiting /\ clients' \subseteq clients
    BY <1>0
  <2>3. \A m \in waiting' : m[1] \in open'
    BY <1>0 DEF Owners
  <2> HIDE DEF idle, closed
  <2>4. /\ \A c, d \in clients' : c.addr = d.addr \/ c.fd = d.fd => c = d
        /\ \A m \in upstream \cup waiting', c \in clients' : m[1] = c.fd => m[2] = c.addr
    BY <1>0, <2>2 DEF Owners
  <2> QED BY <1>0, <2>1, <2>3, <2>4 DEF Owners
<1>6. Heard'
  BY <1>0 DEF Heard
<1>7. Room'
  <2>1. Used' \subseteq Used
    BY <1>0 DEF Used
  <2> QED BY <1>0, <2>1, RoomKept
<1>8. ReplyToOwner'
  BY <1>0 DEF ReplyToOwner
<1> QED BY <1>2, <1>3, <1>4, <1>5, <1>6, <1>7, <1>8

\* No step leaves the invariant.
LEMMA ProxyStep ==
  ASSUME ProxyInv, [ProxyNext]_proxyVars
  PROVE  ProxyInv'
<1>1. CASE \E c \in Clients, d \in Payloads : ClientSends(c, d)
  BY <1>1, StepClientSends
<1>2. CASE \E m \in upstream : RemoteAnswers(m) \/ Lost(m)
  BY <1>2, StepRemote
<1>3. CASE Tick
  BY <1>3, StepTick
<1>4. CASE Main
  <2>1. CASE get_client
    BY <2>1, StepKnownClient, StepNewClient DEF get_client
  <2> QED BY <1>4, <2>1, StepRecvLocal, StepStoreClient, StepSendRemote, StepSendUpstream,
             StepPollReply DEF Main
<1>5. CASE Back
  BY <1>5, StepRecvRemote, StepSendLocal, StepCleanupWakes, StepCleanupSweeps DEF Back
<1>6. CASE UNCHANGED proxyVars
  BY <1>6 DEF proxyVars, ProxyInv, ProxyTypes, MainHolds, BackHolds, Owners, Heard, Room, Used,
     Masked, Datagrams, ClientRecords, ReplyToOwner
<1> QED BY <1>1, <1>2, <1>3, <1>4, <1>5, <1>6 DEF ProxyNext

(***************************************************************************)
(* The proxies keep their clients, sockets and threads consistent: for any *)
(* number of clients and any timeout the cleanup thread frees no client    *)
(* that the main thread got from get_client and still uses, as long as     *)
(* that thread is not stopped for longer than the timeout, and every       *)
(* socket is one client's.                                                 *)
(***************************************************************************)
THEOREM ProxyClientsSafe == ProxySpec => []ClientInv
<1>1. ProxyInit => ProxyInv
  BY ProxyStart
<1>2. ProxyInv /\ [ProxyNext]_proxyVars => ProxyInv'
  BY ProxyStep
<1>3. ProxyInv => ClientInv
  BY ProxyInvImplies
<1> QED BY <1>1, <1>2, <1>3, PTL DEF ProxySpec

(***************************************************************************)
(* A reply reaches the client it answers with the datagram the remote end  *)
(* decoded, for every key and every datagram: both masks cancel although   *)
(* xor_buffer and xor_bytes index the key differently, and a socket number *)
(* used again carries no old client's datagram.                            *)
(***************************************************************************)
THEOREM ProxyRepliesSafe == ProxySpec => []ReplyToOwner
<1>1. ProxyInit => ProxyInv
  BY ProxyStart
<1>2. ProxyInv /\ [ProxyNext]_proxyVars => ProxyInv'
  BY ProxyStep
<1>3. ProxyInv => ReplyToOwner
  BY ProxyInvImplies
<1> QED BY <1>1, <1>2, <1>3, PTL DEF ProxySpec

-----------------------------------------------------------------------------
(* The scripts, command by command *)

\* netns_multi.sh up with a veth pair and no VPN.
LEMMA UpMultiVeth ==
  ASSUME NEW r, r.op = "up", ~r.wg, ~r.iface
  PROVE  LET c == Program("multi", r) IN
         /\ Len(c) = 8 /\ c[1] = "absent" /\ c[2] = "count" /\ c[3] = "add" /\ c[4] = "veth"
         /\ c[5] = "route" /\ c[6] = "nat" /\ c[7] = "resolve" /\ c[8] = "dns"
BY DEF Program, up_multi, net_physical, net_veth_create, vpn_start

\* netns_multi.sh up with a veth pair and a VPN.
LEMMA UpMultiVethVpn ==
  ASSUME NEW r, r.op = "up", r.wg, ~r.iface
  PROVE  LET c == Program("multi", r) IN
         /\ Len(c) = 11 /\ c[1] = "absent" /\ c[2] = "count" /\ c[3] = "add"
         /\ c[4] = "veth" /\ c[5] = "route" /\ c[6] = "nat" /\ c[7] = "resolve"
         /\ c[8] = "dns" /\ c[9] = "vpn_config" /\ c[10] = "tmp" /\ c[11] = "wg_up"
BY DEF Program, up_multi, net_physical, net_veth_create, vpn_start

\* netns_multi.sh up with a physical interface and no VPN.
LEMMA UpMultiPhys ==
  ASSUME NEW r, r.op = "up", ~r.wg, r.iface
  PROVE  LET c == Program("multi", r) IN
         /\ Len(c) = 7 /\ c[1] = "absent" /\ c[2] = "count" /\ c[3] = "add"
         /\ c[4] = "iface" /\ c[5] = "resolve" /\ c[6] = "move" /\ c[7] = "dns"
BY DEF Program, up_multi, net_physical, net_veth_create, vpn_start

\* netns_multi.sh up with a physical interface and a VPN.
LEMMA UpMultiPhysVpn ==
  ASSUME NEW r, r.op = "up", r.wg, r.iface
  PROVE  LET c == Program("multi", r) IN
         /\ Len(c) = 11 /\ c[1] = "absent" /\ c[2] = "count" /\ c[3] = "add"
         /\ c[4] = "iface" /\ c[5] = "resolve" /\ c[6] = "move" /\ c[7] = "empty_gateway"
         /\ c[8] = "dns" /\ c[9] = "vpn_config" /\ c[10] = "tmp" /\ c[11] = "wg_up"
BY DEF Program, up_multi, net_physical, net_veth_create, vpn_start

\* netns.sh up without a VPN.
LEMMA UpSingle ==
  ASSUME NEW r, r.op = "up", ~r.wg
  PROVE  LET c == Program("single", r) IN
         /\ Len(c) = 7 /\ c[1] = "absent" /\ c[2] = "iface" /\ c[3] = "add" /\ c[4] = "move"
         /\ c[5] = "dns" /\ c[6] = "resolve" /\ c[7] = "default_route"
BY DEF Program, up_single, vpn_start

\* netns.sh up with a VPN.
LEMMA UpSingleVpn ==
  ASSUME NEW r, r.op = "up", r.wg
  PROVE  LET c == Program("single", r) IN
         /\ Len(c) = 9 /\ c[1] = "absent" /\ c[2] = "iface" /\ c[3] = "add" /\ c[4] = "move"
         /\ c[5] = "dns" /\ c[6] = "resolve" /\ c[7] = "vpn_config" /\ c[8] = "tmp"
         /\ c[9] = "wg_up"
BY DEF Program, up_single, vpn_start

\* netns_veth.sh up without a VPN.
LEMMA UpVeth ==
  ASSUME NEW r, r.op = "up", ~r.wg
  PROVE  LET c == Program("veth", r) IN
         /\ Len(c) = 8 /\ c[1] = "absent" /\ c[2] = "count" /\ c[3] = "add" /\ c[4] = "veth"
         /\ c[5] = "resolve" /\ c[6] = "route" /\ c[7] = "nat" /\ c[8] = "dns"
BY DEF Program, up_veth, netns_create

\* netns_veth.sh up with a VPN.
LEMMA UpVethVpn ==
  ASSUME NEW r, r.op = "up", r.wg
  PROVE  LET c == Program("veth", r) IN
         /\ Len(c) = 11 /\ c[1] = "absent" /\ c[2] = "count" /\ c[3] = "add"
         /\ c[4] = "veth" /\ c[5] = "resolve" /\ c[6] = "route" /\ c[7] = "nat"
         /\ c[8] = "dns" /\ c[9] = "tmp" /\ c[10] = "wg_up_kept" /\ c[11] = "rmtmp"
BY DEF Program, up_veth, netns_create

\* netns_multi.sh down.
LEMMA DownMulti ==
  ASSUME NEW r, r.op = "down"
  PROVE  LET c == Program("multi", r) IN
         /\ Len(c) = 11 /\ c[1] = "present" /\ c[2] = "detect" /\ c[3] = "vpn_stop"
         /\ c[4] = "rmtmp" /\ c[5] = "pids" /\ c[6] = "kill" /\ c[7] = "pids"
         /\ c[8] = "kill_or_fail" /\ c[9] = "route_del" /\ c[10] = "nat_del"
         /\ c[11] = "ns_del"
BY DEF Program, down_multi, vpn_stop, kill_multi, net_veth_destroy

\* netns.sh down.
LEMMA DownSingle ==
  ASSUME NEW r, r.op = "down"
  PROVE  LET c == Program("single", r) IN
         /\ Len(c) = 8 /\ c[1] = "present" /\ c[2] = "vpn_stop" /\ c[3] = "rmtmp"
         /\ c[4] = "pids" /\ c[5] = "kill" /\ c[6] = "pids" /\ c[7] = "kill"
         /\ c[8] = "ns_del"
BY DEF Program, down_single, vpn_stop, kill_single

\* netns_veth.sh down.
LEMMA DownVeth ==
  ASSUME NEW r, r.op = "down"
  PROVE  LET c == Program("veth", r) IN
         /\ Len(c) = 10 /\ c[1] = "present" /\ c[2] = "detect" /\ c[3] = "vpn_stop"
         /\ c[4] = "pids" /\ c[5] = "kill" /\ c[6] = "pids" /\ c[7] = "kill"
         /\ c[8] = "route_del" /\ c[9] = "nat_del" /\ c[10] = "ns_del"
BY DEF Program, down_veth, netns_destroy, kill_single

Scripts == {"multi", "single", "veth"}

\* A run of script s, at one of its commands.
WellRun(s, r) ==
  /\ r \in [op : {"up", "down"}, wg : BOOLEAN, iface : BOOLEAN, pc : Nat, id : Nat, pids : BOOLEAN]
  /\ r.iface => s = "multi" /\ r.op = "up"
  /\ r.wg => r.op = "up"
  /\ r.pc \in 1 .. Len(Program(s, r))

\* An up that makes a veth pair, and where the commands are that the invariant
\* speaks of.
VethRun(s, r) == r.op = "up" /\ s # "single" /\ ~r.iface
NatAt(s) == IF s = "multi" THEN 6 ELSE 7
VpnStopAt(s) == IF s = "single" THEN 2 ELSE 3
PidsAt(s) == IF s = "multi" THEN 5 ELSE 4
RouteDelAt(s) == IF s = "multi" THEN 9 ELSE 8

\* The commands of an up, by their places.
LEMMA UpAt ==
  ASSUME NEW s \in Scripts, NEW r, WellRun(s, r), r.op = "up",
         NEW p, p = Program(s, r), NEW c, c = p[r.pc]
  PROVE  /\ Len(p) \in Nat /\ Len(p) >= 7 /\ (VethRun(s, r) => Len(p) >= 8)
         /\ c \in {"absent", "iface", "resolve", "dns", "vpn_config", "default_route", "count",
                   "add", "veth", "route", "nat", "move", "wg_up", "wg_up_kept", "tmp", "rmtmp",
                   "empty_gateway"}
         /\ c = "absent" <=> r.pc = 1
         /\ c = "count" <=> r.pc = 2 /\ s # "single"
         /\ c = "add" <=> r.pc = 3
         /\ c = "veth" <=> r.pc = 4 /\ VethRun(s, r)
         /\ c = "nat" <=> r.pc = NatAt(s) /\ VethRun(s, r)
         /\ c = "route" => r.pc \in 5 .. NatAt(s) - 1 /\ VethRun(s, r)
         /\ c = "move" => r.pc >= 4 /\ ~VethRun(s, r)
         /\ c \in {"iface", "empty_gateway"} => ~VethRun(s, r)
         /\ c \in {"tmp", "wg_up", "wg_up_kept", "rmtmp"} => r.pc >= 8
         /\ c = "wg_up" => s # "veth"
         /\ c = "tmp" => r.pc < Len(p) /\ p[r.pc + 1] \in {"wg_up", "wg_up_kept"}
         /\ c = "wg_up_kept" => r.pc < Len(p) /\ p[r.pc + 1] = "rmtmp"
<1>0. r.pc \in 1 .. Len(p) /\ r.wg \in BOOLEAN /\ r.iface \in BOOLEAN /\ (r.iface => s = "multi")
  BY DEF WellRun
<1>1. CASE s = "multi" /\ ~r.wg /\ ~r.iface
  <2>1. /\ Len(p) = 8 /\ p[1] = "absent" /\ p[2] = "count" /\ p[3] = "add" /\ p[4] = "veth"
        /\ p[5] = "route" /\ p[6] = "nat" /\ p[7] = "resolve" /\ p[8] = "dns"
    BY <1>1, UpMultiVeth
  <2>2. \/ (r.pc = 1 /\ c = "absent") \/ (r.pc = 2 /\ c = "count") \/ (r.pc = 3 /\ c = "add")
        \/ (r.pc = 4 /\ c = "veth") \/ (r.pc = 5 /\ c = "route") \/ (r.pc = 6 /\ c = "nat")
        \/ (r.pc = 7 /\ c = "resolve") \/ (r.pc = 8 /\ c = "dns")
    BY <1>0, <2>1
  <2>3. VethRun(s, r) /\ NatAt(s) = 6 /\ s = "multi"
    BY <1>0, <1>1 DEF VethRun, NatAt
  <2> QED BY ONLY <2>1, <2>2, <2>3
<1>2. CASE s = "multi" /\ r.wg /\ ~r.iface
  <2>1. /\ Len(p) = 11 /\ p[1] = "absent" /\ p[2] = "count" /\ p[3] = "add"
        /\ p[4] = "veth" /\ p[5] = "route" /\ p[6] = "nat" /\ p[7] = "resolve"
        /\ p[8] = "dns" /\ p[9] = "vpn_config" /\ p[10] = "tmp" /\ p[11] = "wg_up"
    BY <1>2, UpMultiVethVpn
  <2>2. \/ (r.pc = 1 /\ c = "absent") \/ (r.pc = 2 /\ c = "count") \/ (r.pc = 3 /\ c = "add")
        \/ (r.pc = 4 /\ c = "veth") \/ (r.pc = 5 /\ c = "route") \/ (r.pc = 6 /\ c = "nat")
        \/ (r.pc = 7 /\ c = "resolve") \/ (r.pc = 8 /\ c = "dns") \/ (r.pc = 9 /\ c = "vpn_config")
        \/ (r.pc = 10 /\ c = "tmp") \/ (r.pc = 11 /\ c = "wg_up")
    BY <1>0, <2>1
  <2>3. VethRun(s, r) /\ NatAt(s) = 6 /\ s = "multi"
    BY <1>0, <1>2 DEF VethRun, NatAt
  <2> QED BY ONLY <2>1, <2>2, <2>3
<1>3. CASE s = "multi" /\ ~r.wg /\ r.iface
  <2>1. /\ Len(p) = 7 /\ p[1] = "absent" /\ p[2] = "count" /\ p[3] = "add"
        /\ p[4] = "iface" /\ p[5] = "resolve" /\ p[6] = "move" /\ p[7] = "dns"
    BY <1>3, UpMultiPhys
  <2>2. \/ (r.pc = 1 /\ c = "absent") \/ (r.pc = 2 /\ c = "count") \/ (r.pc = 3 /\ c = "add")
        \/ (r.pc = 4 /\ c = "iface") \/ (r.pc = 5 /\ c = "resolve") \/ (r.pc = 6 /\ c = "move")
        \/ (r.pc = 7 /\ c = "dns")
    BY <1>0, <2>1
  <2>3. ~VethRun(s, r) /\ NatAt(s) = 6 /\ s = "multi"
    BY <1>0, <1>3 DEF VethRun, NatAt
  <2> QED BY ONLY <2>1, <2>2, <2>3
<1>4. CASE s = "multi" /\ r.wg /\ r.iface
  <2>1. /\ Len(p) = 11 /\ p[1] = "absent" /\ p[2] = "count" /\ p[3] = "add"
        /\ p[4] = "iface" /\ p[5] = "resolve" /\ p[6] = "move" /\ p[7] = "empty_gateway"
        /\ p[8] = "dns" /\ p[9] = "vpn_config" /\ p[10] = "tmp" /\ p[11] = "wg_up"
    BY <1>4, UpMultiPhysVpn
  <2>2. \/ (r.pc = 1 /\ c = "absent") \/ (r.pc = 2 /\ c = "count") \/ (r.pc = 3 /\ c = "add")
        \/ (r.pc = 4 /\ c = "iface") \/ (r.pc = 5 /\ c = "resolve") \/ (r.pc = 6 /\ c = "move")
        \/ (r.pc = 7 /\ c = "empty_gateway") \/ (r.pc = 8 /\ c = "dns") \/ (r.pc = 9 /\ c = "vpn_config")
        \/ (r.pc = 10 /\ c = "tmp") \/ (r.pc = 11 /\ c = "wg_up")
    BY <1>0, <2>1
  <2>3. ~VethRun(s, r) /\ NatAt(s) = 6 /\ s = "multi"
    BY <1>0, <1>4 DEF VethRun, NatAt
  <2> QED BY ONLY <2>1, <2>2, <2>3
<1>5. CASE s = "single" /\ ~r.wg
  <2>1. /\ Len(p) = 7 /\ p[1] = "absent" /\ p[2] = "iface" /\ p[3] = "add" /\ p[4] = "move"
        /\ p[5] = "dns" /\ p[6] = "resolve" /\ p[7] = "default_route"
    BY <1>5, UpSingle
  <2>2. \/ (r.pc = 1 /\ c = "absent") \/ (r.pc = 2 /\ c = "iface") \/ (r.pc = 3 /\ c = "add")
        \/ (r.pc = 4 /\ c = "move") \/ (r.pc = 5 /\ c = "dns") \/ (r.pc = 6 /\ c = "resolve")
        \/ (r.pc = 7 /\ c = "default_route")
    BY <1>0, <2>1
  <2>3. ~VethRun(s, r) /\ NatAt(s) = 7 /\ s = "single"
    BY <1>0, <1>5 DEF VethRun, NatAt
  <2> QED BY ONLY <2>1, <2>2, <2>3
<1>6. CASE s = "single" /\ r.wg
  <2>1. /\ Len(p) = 9 /\ p[1] = "absent" /\ p[2] = "iface" /\ p[3] = "add" /\ p[4] = "move"
        /\ p[5] = "dns" /\ p[6] = "resolve" /\ p[7] = "vpn_config" /\ p[8] = "tmp"
        /\ p[9] = "wg_up"
    BY <1>6, UpSingleVpn
  <2>2. \/ (r.pc = 1 /\ c = "absent") \/ (r.pc = 2 /\ c = "iface") \/ (r.pc = 3 /\ c = "add")
        \/ (r.pc = 4 /\ c = "move") \/ (r.pc = 5 /\ c = "dns") \/ (r.pc = 6 /\ c = "resolve")
        \/ (r.pc = 7 /\ c = "vpn_config") \/ (r.pc = 8 /\ c = "tmp") \/ (r.pc = 9 /\ c = "wg_up")
    BY <1>0, <2>1
  <2>3. ~VethRun(s, r) /\ NatAt(s) = 7 /\ s = "single"
    BY <1>0, <1>6 DEF VethRun, NatAt
  <2> QED BY ONLY <2>1, <2>2, <2>3
<1>7. CASE s = "veth" /\ ~r.wg
  <2>1. /\ Len(p) = 8 /\ p[1] = "absent" /\ p[2] = "count" /\ p[3] = "add" /\ p[4] = "veth"
        /\ p[5] = "resolve" /\ p[6] = "route" /\ p[7] = "nat" /\ p[8] = "dns"
    BY <1>7, UpVeth
  <2>2. \/ (r.pc = 1 /\ c = "absent") \/ (r.pc = 2 /\ c = "count") \/ (r.pc = 3 /\ c = "add")
        \/ (r.pc = 4 /\ c = "veth") \/ (r.pc = 5 /\ c = "resolve") \/ (r.pc = 6 /\ c = "route")
        \/ (r.pc = 7 /\ c = "nat") \/ (r.pc = 8 /\ c = "dns")
    BY <1>0, <2>1
  <2>3. VethRun(s, r) /\ NatAt(s) = 7 /\ s = "veth"
    BY <1>0, <1>7 DEF VethRun, NatAt
  <2> QED BY ONLY <2>1, <2>2, <2>3
<1>8. CASE s = "veth" /\ r.wg
  <2>1. /\ Len(p) = 11 /\ p[1] = "absent" /\ p[2] = "count" /\ p[3] = "add"
        /\ p[4] = "veth" /\ p[5] = "resolve" /\ p[6] = "route" /\ p[7] = "nat"
        /\ p[8] = "dns" /\ p[9] = "tmp" /\ p[10] = "wg_up_kept" /\ p[11] = "rmtmp"
    BY <1>8, UpVethVpn
  <2>2. \/ (r.pc = 1 /\ c = "absent") \/ (r.pc = 2 /\ c = "count") \/ (r.pc = 3 /\ c = "add")
        \/ (r.pc = 4 /\ c = "veth") \/ (r.pc = 5 /\ c = "resolve") \/ (r.pc = 6 /\ c = "route")
        \/ (r.pc = 7 /\ c = "nat") \/ (r.pc = 8 /\ c = "dns") \/ (r.pc = 9 /\ c = "tmp")
        \/ (r.pc = 10 /\ c = "wg_up_kept") \/ (r.pc = 11 /\ c = "rmtmp")
    BY <1>0, <2>1
  <2>3. VethRun(s, r) /\ NatAt(s) = 7 /\ s = "veth"
    BY <1>0, <1>8 DEF VethRun, NatAt
  <2> QED BY ONLY <2>1, <2>2, <2>3
<1> QED BY <1>0, <1>1, <1>2, <1>3, <1>4, <1>5, <1>6, <1>7, <1>8 DEF Scripts

\* The commands of a down, by their places.
LEMMA DownAt ==
  ASSUME NEW s \in Scripts, NEW r, WellRun(s, r), r.op = "down",
         NEW p, p = Program(s, r), NEW c, c = p[r.pc]
  PROVE  /\ Len(p) = IF s = "single" THEN 8 ELSE RouteDelAt(s) + 2
         /\ c \in {"present", "detect", "vpn_stop", "rmtmp", "pids", "kill", "kill_or_fail",
                   "route_del", "nat_del", "ns_del"}
         /\ c = "present" <=> r.pc = 1
         /\ c = "detect" <=> r.pc = 2 /\ s # "single"
         /\ c = "vpn_stop" <=> r.pc = VpnStopAt(s)
         /\ c = "vpn_stop" /\ s # "veth" => r.pc < Len(p) /\ p[r.pc + 1] = "rmtmp"
         /\ c = "rmtmp" <=> s # "veth" /\ r.pc = PidsAt(s) - 1
         /\ c = "pids" <=> r.pc \in {PidsAt(s), PidsAt(s) + 2}
         /\ c \in {"kill", "kill_or_fail"} <=> r.pc \in {PidsAt(s) + 1, PidsAt(s) + 3}
         /\ c = "kill_or_fail" => s = "multi" /\ r.pc = PidsAt(s) + 3
         /\ c \in {"kill", "kill_or_fail"} =>
              (r.pc > 4 /\ p[r.pc - 2] = "kill" <=> r.pc = PidsAt(s) + 3)
         /\ c = "route_del" <=> s # "single" /\ r.pc = RouteDelAt(s)
         /\ c = "nat_del" <=> s # "single" /\ r.pc = RouteDelAt(s) + 1
         /\ c = "ns_del" <=> r.pc = Len(p)
<1>0. r.pc \in 1 .. Len(p)
  BY DEF WellRun
<1>1. CASE s = "multi"
  <2>1. /\ Len(p) = 11 /\ p[1] = "present" /\ p[2] = "detect" /\ p[3] = "vpn_stop"
        /\ p[4] = "rmtmp" /\ p[5] = "pids" /\ p[6] = "kill" /\ p[7] = "pids"
        /\ p[8] = "kill_or_fail" /\ p[9] = "route_del" /\ p[10] = "nat_del"
        /\ p[11] = "ns_del"
    BY <1>1, DownMulti
  <2>2. \/ (r.pc = 1 /\ c = "present") \/ (r.pc = 2 /\ c = "detect") \/ (r.pc = 3 /\ c = "vpn_stop")
        \/ (r.pc = 4 /\ c = "rmtmp") \/ (r.pc = 5 /\ c = "pids") \/ (r.pc = 6 /\ c = "kill")
        \/ (r.pc = 7 /\ c = "pids") \/ (r.pc = 8 /\ c = "kill_or_fail") \/ (r.pc = 9 /\ c = "route_del")
        \/ (r.pc = 10 /\ c = "nat_del") \/ (r.pc = 11 /\ c = "ns_del")
    BY <1>0, <2>1
  <2>3. VpnStopAt(s) = 3 /\ PidsAt(s) = 5 /\ RouteDelAt(s) = 9 /\ s = "multi"
    BY <1>1 DEF VpnStopAt, PidsAt, RouteDelAt
  <2> QED BY ONLY <2>1, <2>2, <2>3
<1>2. CASE s = "single"
  <2>1. /\ Len(p) = 8 /\ p[1] = "present" /\ p[2] = "vpn_stop" /\ p[3] = "rmtmp"
        /\ p[4] = "pids" /\ p[5] = "kill" /\ p[6] = "pids" /\ p[7] = "kill"
        /\ p[8] = "ns_del"
    BY <1>2, DownSingle
  <2>2. \/ (r.pc = 1 /\ c = "present") \/ (r.pc = 2 /\ c = "vpn_stop") \/ (r.pc = 3 /\ c = "rmtmp")
        \/ (r.pc = 4 /\ c = "pids") \/ (r.pc = 5 /\ c = "kill") \/ (r.pc = 6 /\ c = "pids")
        \/ (r.pc = 7 /\ c = "kill") \/ (r.pc = 8 /\ c = "ns_del")
    BY <1>0, <2>1
  <2>3. VpnStopAt(s) = 2 /\ PidsAt(s) = 4 /\ RouteDelAt(s) = 8 /\ s = "single"
    BY <1>2 DEF VpnStopAt, PidsAt, RouteDelAt
  <2> QED BY ONLY <2>1, <2>2, <2>3
<1>3. CASE s = "veth"
  <2>1. /\ Len(p) = 10 /\ p[1] = "present" /\ p[2] = "detect" /\ p[3] = "vpn_stop"
        /\ p[4] = "pids" /\ p[5] = "kill" /\ p[6] = "pids" /\ p[7] = "kill"
        /\ p[8] = "route_del" /\ p[9] = "nat_del" /\ p[10] = "ns_del"
    BY <1>3, DownVeth
  <2>2. \/ (r.pc = 1 /\ c = "present") \/ (r.pc = 2 /\ c = "detect") \/ (r.pc = 3 /\ c = "vpn_stop")
        \/ (r.pc = 4 /\ c = "pids") \/ (r.pc = 5 /\ c = "kill") \/ (r.pc = 6 /\ c = "pids")
        \/ (r.pc = 7 /\ c = "kill") \/ (r.pc = 8 /\ c = "route_del") \/ (r.pc = 9 /\ c = "nat_del")
        \/ (r.pc = 10 /\ c = "ns_del")
    BY <1>0, <2>1
  <2>3. VpnStopAt(s) = 3 /\ PidsAt(s) = 4 /\ RouteDelAt(s) = 8 /\ s = "veth"
    BY <1>3 DEF VpnStopAt, PidsAt, RouteDelAt
  <2> QED BY ONLY <2>1, <2>2, <2>3
<1> QED BY <1>1, <1>2, <1>3 DEF Scripts

-----------------------------------------------------------------------------
(* The scripts' inductive invariant *)

\* A namespace with a network but without its rule: between the two commands
\* of up that make them, or of down that remove them.
Pending(s, r) ==
  \/ VethRun(s, r) /\ r.pc \in 5 .. NatAt(s)
  \/ r.op = "down" /\ s # "single" /\ r.pc > RouteDelAt(s) + 1

\* A down that could not read network k and will not delete its rule.
Blind(s, r, k) == r.op = "down" /\ s # "single" /\ r.pc >= 3 /\ r.id # k

\* What an up has done when it is at its command pc.
UpDone(n, r) ==
  r.op = "up" =>
    /\ r.pc \in {2, 3} => n \notin ns
    /\ r.pc >= 4 => n \in ns
    /\ r.pc \in {2, 3, 4} => net[n] = 0
    /\ r.pc >= 2 /\ r.iface => net[n] = 0
    /\ r.pc >= 3 /\ script # "single" => r.id \in Networks
    /\ r.pc = 4 /\ VethRun(script, r) => phys # n
    /\ r.pc >= 5 /\ VethRun(script, r) => net[n] = r.id

\* The same of a down: what it read still holds, or reading failed.
DownDone(n, r) ==
  r.op = "down" =>
    /\ r.pc >= 3 /\ script # "single" => r.id = net[n] \/ (r.id = 0 /\ faults # 0)
    /\ r.pc >= PidsAt(script) /\ script # "veth" => n \notin tmp
    /\ r.pc > PidsAt(script) /\ ~r.pids => users[n] = None
    /\ r.pc > PidsAt(script) + 3 => users[n] = None

\* A run is at one of its commands and has done what stands before it.
RunOK(n) ==
  run[n] # NoRun =>
    /\ WellRun(script, run[n])
    /\ UpDone(n, run[n]) /\ DownDone(n, run[n])

\* A namespace, during a run and between the runs.
Place(n) ==
  /\ n \notin ns => net[n] = 0 /\ users[n] = None
  /\ n \in vpn => n \in ns
  /\ phys = n => n \in ns /\ net[n] = 0
  /\ script = "single" => net[n] = 0

\* Whose configuration lies in /run, when no failing command left it there.
Kept(n) ==
  n \in tmp /\ n \notin stray =>
    \/ script # "veth" /\ n \in vpn
    \/ run[n] # NoRun
       /\ Program(script, run[n])[run[n].pc] \in {"wg_up", "wg_up_kept", "rmtmp"}

NetTypes ==
  /\ script \in Scripts
  /\ ns \subseteq Names /\ tmp \subseteq Names /\ vpn \subseteq Names /\ stray \subseteq Names
  /\ net \in [Names -> {0} \cup Networks]
  /\ route \in [Networks -> Names \cup {None}]
  /\ nat \in [Networks -> Nat] /\ stale \in [Networks -> Nat]
  /\ phys \in Names \cup {"host"}
  /\ users \in [Names -> {None, "polite", "stubborn"}]
  /\ run = [n \in Names |-> run[n]] /\ left = [n \in Names |-> left[n]]
  /\ nruns \in 0 .. MaxRuns /\ faults \in 0 .. MaxFaults

\* A namespace whose rule is there and will be deleted with it.
Holding(n) ==
  run[n] # NoRun => ~Pending(script, run[n]) /\ ~Blind(script, run[n], net[n])

\* Each rule of a network belongs to such a namespace or is stale, and as long
\* as nothing failed each such namespace has a rule.
Ruled(i) == {n \in Names : net[n] = i /\ Holding(n)}
Rules ==
  \A i \in Networks : /\ nat[i] <= Cardinality(Ruled(i)) + stale[i]
                      /\ faults = 0 => Cardinality(Ruled(i)) <= nat[i]

NetInv ==
  /\ NetTypes
  /\ \A n \in Names : RunOK(n) /\ Place(n) /\ Kept(n)
  /\ Rules

\* The number of namespaces, and of those with a network.
LEMMA Counts ==
  /\ Cardinality(Names) \in Nat /\ 0 \notin Networks /\ Networks \subseteq Nat
  /\ \A S : S \subseteq Names =>
        IsFiniteSet(S) /\ Cardinality(S) \in Nat /\ Cardinality(S) <= Cardinality(Names)
<1>1. Cardinality(Names) \in Nat
  BY NetnsAssumption, FS_CardinalityType
<1> QED BY <1>1, NetnsAssumption, FS_Subset, FS_CardinalityType DEF Networks

\* A run is no run or a record.
LEMMA RunShape ==
  ASSUME NEW s, NEW r, WellRun(s, r)
  PROVE  r # NoRun /\ r.op \in {"up", "down"} /\ r.pc \in Nat /\ r.pc >= 1
<1>1. r.op \in {"up", "down"} /\ r.pc \in Nat
  BY DEF WellRun
<1>2. r.pc >= 1
  <2> DEFINE l == Len(Program(s, r))
  <2>1. r.pc \in 1 .. l
    BY DEF WellRun
  <2> HIDE DEF l
  <2> QED BY <1>1, <2>1
<1> QED BY <1>1, <1>2 DEF NoRun, None

\* The invariant says what the run checks.
LEMMA NetInvImplies ==
  ASSUME NetInv
  PROVE  LeftoverInv /\ NamespacesKeepRules
<1> USE DEF NetInv
<1>1. ASSUME NEW i \in Networks
      PROVE  /\ nat[i] <= Cardinality({n \in Names : net[n] = i}) + stale[i]
             /\ faults = 0 => Cardinality({n \in Names : net[n] = i /\ run[n] = NoRun}) <= nat[i]
  <2> DEFINE S == {n \in Names : net[n] = i}
             T == {n \in Names : net[n] = i /\ run[n] = NoRun}
  <2>1. /\ nat[i] <= Cardinality(Ruled(i)) + stale[i] /\ nat[i] \in Nat /\ stale[i] \in Nat
        /\ faults = 0 => Cardinality(Ruled(i)) <= nat[i]
    BY DEF Rules, NetTypes
  <2>2. Ruled(i) \subseteq S /\ T \subseteq Ruled(i) /\ S \subseteq Names
    BY DEF Ruled, Holding
  <2> HIDE DEF S, T
  <2>3. Cardinality(Ruled(i)) <= Cardinality(S) /\ Cardinality(T) <= Cardinality(Ruled(i))
    BY <2>2, Counts, FS_Subset
  <2>4. Cardinality(S) \in Nat /\ Cardinality(Ruled(i)) \in Nat /\ Cardinality(T) \in Nat
    BY <2>2, Counts
  <2>5. /\ nat[i] <= Cardinality(S) + stale[i]
        /\ faults = 0 => Cardinality(T) <= nat[i]
    BY <2>1, <2>3, <2>4
  <2> QED BY <2>5 DEF S, T
<1>2. NoStrayConfig
  BY DEF NoStrayConfig, Kept, NetTypes
<1>3. TypeOK
  <2>1. \A n \in Names : run[n] # NoRun => run[n].pc \in 1 .. Len(Commands(run[n]))
    BY DEF RunOK, WellRun, Commands
  <2>2. vpn \subseteq ns /\ phys \in ns \union {"host"}
    BY DEF Place, NetTypes
  <2>3. \A n \in Names : n \notin ns => net[n] = 0 /\ users[n] = None
    BY DEF Place
  <2> QED BY <2>1, <2>2, <2>3 DEF TypeOK, NetTypes, Scripts
<1> QED BY <1>1, <1>2, <1>3 DEF LeftoverInv, RulesHaveNamespaces, NamespacesKeepRules

\* It holds at first.
LEMMA NetStart == Init => NetInv
<1> SUFFICES ASSUME Init PROVE NetInv
  OBVIOUS
<1>1. NetTypes
  <2>1. run = [n \in Names |-> run[n]] /\ left = [n \in Names |-> left[n]]
    BY DEF Init
  <2>2. nruns \in 0 .. MaxRuns /\ faults \in 0 .. MaxFaults
    BY NetnsAssumption DEF Init
  <2>3. /\ nat \in [Networks -> Nat] /\ net \in [Names -> {0} \cup Networks]
        /\ stale \in [Networks -> Nat]
    BY DEF Init
  <2> QED BY <2>1, <2>2, <2>3 DEF Init, NetTypes, Scripts
<1>2. ASSUME NEW n \in Names PROVE RunOK(n) /\ Place(n) /\ Kept(n)
  BY NetnsAssumption DEF Init, RunOK, Place, Kept
<1>3. Rules
  <2> SUFFICES ASSUME NEW i \in Networks
               PROVE  /\ 0 <= Cardinality(Ruled(i)) + 0
                      /\ Cardinality(Ruled(i)) <= 0
    BY DEF Init, Rules
  <2>1. Ruled(i) = {}
    BY Counts DEF Ruled, Init
  <2>2. Cardinality(Ruled(i)) = 0
    BY <2>1, FS_EmptySet
  <2> QED BY <2>2
<1> QED BY <1>1, <1>2, <1>3 DEF NetInv

-----------------------------------------------------------------------------
(* One command *)

\* A run moves on to its next command, or ends after its last.
Moves(n, q) ==
  /\ run' = [run EXCEPT ![n] = run'[n]] /\ left' = [left EXCEPT ![n] = left'[n]]
  /\ \/ /\ run[n].pc = Len(Program(script, run[n]))
        /\ run'[n] = NoRun /\ left'[n] = None
     \/ /\ run[n].pc < Len(Program(script, run[n]))
        /\ WellRun(script, run'[n]) /\ Program(script, run'[n]) = Program(script, run[n])
        /\ run'[n].op = run[n].op /\ run'[n].wg = run[n].wg /\ run'[n].iface = run[n].iface
        /\ run'[n].pc = run[n].pc + 1 /\ run'[n].id = q.id /\ run'[n].pids = q.pids
        /\ left'[n] = left[n]

\* What is read changes the number and the flag of a run, nothing else.
LEMMA GoMoves ==
  ASSUME NEW n \in Names, NetTypes, WellRun(script, run[n]),
         NEW q, NEW i \in Nat, NEW b \in BOOLEAN,
         q = [op |-> run[n].op, wg |-> run[n].wg, iface |-> run[n].iface, pc |-> run[n].pc,
              id |-> i, pids |-> b], Go(n, q)
  PROVE  Moves(n, q)
<1> DEFINE p == Program(script, run[n])
<1>0. /\ run[n].pc \in 1 .. Len(p) /\ run[n].op \in {"up", "down"} /\ run[n].wg \in BOOLEAN
      /\ run[n].iface \in BOOLEAN
      /\ (run[n].iface => script = "multi" /\ run[n].op = "up")
      /\ (run[n].wg => run[n].op = "up")
  BY DEF WellRun
<1>1. Commands(run[n]) = p
  BY DEF Commands
<1>2. run = [m \in Names |-> run[m]] /\ left = [m \in Names |-> left[m]]
  BY DEF NetTypes
<1>3. CASE run[n].pc = Len(p)
  <2>1. run' = [run EXCEPT ![n] = NoRun] /\ left' = [left EXCEPT ![n] = None]
    BY <1>1, <1>3 DEF Go
  <2> HIDE DEF p
  <2>2. run'[n] = NoRun /\ left'[n] = None
    BY <1>2, <2>1
  <2> QED BY <1>3, <2>1, <2>2 DEF Moves, p
<1>4. CASE run[n].pc # Len(p)
  <2> DEFINE r == [q EXCEPT !.pc = @ + 1]
  <2>1. run' = [run EXCEPT ![n] = r] /\ left' = left
    BY <1>1, <1>4 DEF Go
  <2>2. run'[n] = r /\ left' = [left EXCEPT ![n] = left'[n]]
    BY <1>2, <2>1
  <2>3. /\ r.op = run[n].op /\ r.wg = run[n].wg /\ r.iface = run[n].iface
        /\ r.pc = run[n].pc + 1 /\ r.id = q.id /\ r.pids = q.pids /\ q.id = i /\ q.pids = b
    OBVIOUS
  <2>4. r = [op |-> run[n].op, wg |-> run[n].wg, iface |-> run[n].iface, pc |-> run[n].pc + 1,
             id |-> i, pids |-> b]
    OBVIOUS
  <2> HIDE DEF r
  <2>5. Program(script, r) = p
    BY <2>3 DEF Program
  <2>6. run[n].pc \in Nat /\ Len(p) \in Nat
    <3> HIDE DEF p
    <3>1. run[n].pc \in Nat
      BY DEF WellRun
    <3> QED BY <1>0, <3>1
  <2> HIDE DEF p
  <2>7. run[n].pc < Len(p) /\ r.pc \in 1 .. Len(p) /\ run[n].pc + 1 \in Nat
    BY <1>0, <1>4, <2>3, <2>6
  <2>8. WellRun(script, r)
    <3>1. r \in [op : {"up", "down"}, wg : BOOLEAN, iface : BOOLEAN, pc : Nat, id : Nat,
                 pids : BOOLEAN]
      BY <1>0, <2>4, <2>7
    <3> QED BY <1>0, <2>3, <2>5, <2>7, <3>1 DEF WellRun
  <2> QED BY <2>1, <2>2, <2>3, <2>5, <2>7, <2>8 DEF Moves, p
<1> QED BY <1>3, <1>4

\* A run ends at its command.
Stops(n) ==
  /\ run' = [run EXCEPT ![n] = run'[n]] /\ left' = [left EXCEPT ![n] = left'[n]]
  /\ run'[n] = NoRun /\ left'[n] = Program(script, run[n])[run[n].pc]

\* A command that fails under set -e ends the run.
LEMMA AbortStops ==
  ASSUME NEW n \in Names, NetTypes, Abort(n)
  PROVE  Stops(n)
<1>1. run = [m \in Names |-> run[m]] /\ left = [m \in Names |-> left[m]]
  BY DEF NetTypes
<1>2. /\ run' = [run EXCEPT ![n] = NoRun]
      /\ left' = [left EXCEPT ![n] = Program(script, run[n])[run[n].pc]]
  BY DEF Abort, Cmd, Commands
<1>3. run'[n] = NoRun /\ left'[n] = Program(script, run[n])[run[n].pc]
  BY ONLY <1>1, <1>2, n \in Names
<1> QED BY <1>2, <1>3 DEF Stops

\* The record a Go without a reading works on.
LEMMA GoSame ==
  ASSUME NEW n \in Names, NetTypes, WellRun(script, run[n]), Go(n, run[n])
  PROVE  Moves(n, run[n])
<1>1. run[n] = [op |-> run[n].op, wg |-> run[n].wg, iface |-> run[n].iface, pc |-> run[n].pc,
                id |-> run[n].id, pids |-> run[n].pids]
      /\ run[n].id \in Nat /\ run[n].pids \in BOOLEAN
  BY DEF WellRun
<1> QED BY <1>1, GoMoves

\* The run of a namespace and its command.
RunsOnly(n) == \A m \in Names \ {n} : run'[m] = run[m] /\ left'[m] = left[m]

\* A command of one run changes no other run.
LEMMA OnlyThisRun ==
  ASSUME NEW n \in Names, NetTypes, Stops(n) \/ \E q : Moves(n, q)
  PROVE  /\ RunsOnly(n)
         /\ run' = [m \in Names |-> run'[m]] /\ left' = [m \in Names |-> left'[m]]
<1>1. run = [m \in Names |-> run[m]] /\ left = [m \in Names |-> left[m]]
  BY DEF NetTypes
<1>2. run' = [run EXCEPT ![n] = run'[n]] /\ left' = [left EXCEPT ![n] = left'[n]]
  BY DEF Moves, Stops
<1> QED BY ONLY <1>1, <1>2, n \in Names DEF RunsOnly

\* A step for one namespace leaves the others as they are.
LEMMA OthersKept ==
  ASSUME NEW m \in Names, RunOK(m), Place(m), Kept(m), script' = script, run'[m] = run[m],
         (m \in ns') <=> (m \in ns), net'[m] = net[m], users'[m] = users[m],
         (m \in vpn') <=> (m \in vpn), (m \in tmp') <=> (m \in tmp),
         (m \in stray') <=> (m \in stray), (phys' = m) <=> (phys = m), faults' = 0 => faults = 0
  PROVE  RunOK(m)' /\ Place(m)' /\ Kept(m)'
<1>1. RunOK(m)'
  <2> SUFFICES ASSUME run[m] # NoRun
               PROVE  WellRun(script, run[m]) /\ UpDone(m, run[m])' /\ DownDone(m, run[m])'
    BY DEF RunOK
  <2>1. WellRun(script, run[m]) /\ UpDone(m, run[m]) /\ DownDone(m, run[m])
    BY DEF RunOK
  <2>2. UpDone(m, run[m])'
    BY <2>1 DEF UpDone
  <2>3. DownDone(m, run[m])'
    BY <2>1 DEF DownDone
  <2> QED BY <2>1, <2>2, <2>3
<1>2. Place(m)'
  BY DEF Place
<1>3. Kept(m)'
  BY DEF Kept
<1> QED BY <1>1, <1>2, <1>3

\* What a command must do for the run to have done what stands before its next
\* one.
CommandDone(n, c, q) ==
  /\ c = "absent" => n \notin ns
  /\ IF c = "add" THEN n \in ns' ELSE (n \in ns' <=> n \in ns)
  /\ net'[n] = IF c = "veth" THEN run[n].id ELSE net[n]
  /\ phys' = n => phys = n \/ c = "move"
  /\ n \in tmp' => c # "rmtmp" /\ (n \in tmp \/ c = "tmp")
  /\ users'[n] = users[n] \/ users'[n] = None
  /\ CASE c = "count" -> q.id \in Networks
       [] c = "detect" -> q.id = net[n] \/ (q.id = 0 /\ faults' # 0)
       [] OTHER -> q.id = run[n].id
  /\ IF c = "pids" THEN ~q.pids => users'[n] = None ELSE q.pids = run[n].pids
  /\ c \in {"kill", "kill_or_fail"} /\ run[n].pc = PidsAt(script) + 3 => users'[n] = None
  /\ faults' = 0 => faults = 0

\* A run that has done its command has done what stands before the next.
LEMMA RunMoves ==
  ASSUME NEW n \in Names, NetTypes, script' = script, run[n] # NoRun, RunOK(n), Place(n),
         NEW c, c = Program(script, run[n])[run[n].pc], NEW q, Moves(n, q), CommandDone(n, c, q)
  PROVE  RunOK(n)'
<1> DEFINE r == run[n]
           s == run'[n]
<1>0. script \in Scripts /\ WellRun(script, r) /\ UpDone(n, r) /\ DownDone(n, r)
  BY DEF NetTypes, RunOK
<1>1. r.pc \in Nat /\ r.pc >= 1 /\ r.op \in {"up", "down"}
  BY <1>0, RunShape
<1>2. SUFFICES ASSUME s # NoRun
               PROVE  WellRun(script, s) /\ UpDone(n, run[n])' /\ DownDone(n, run[n])'
  BY DEF RunOK
<1>3. /\ WellRun(script, s) /\ s.op = r.op /\ s.iface = r.iface
      /\ s.pc = r.pc + 1 /\ s.id = q.id /\ s.pids = q.pids
  BY <1>2 DEF Moves
<1>4. UpDone(n, run[n])'
  <2> SUFFICES ASSUME r.op = "up" PROVE UpDone(n, run[n])'
    BY <1>3 DEF UpDone
  <2>1. /\ c = "absent" <=> r.pc = 1
        /\ c = "count" <=> r.pc = 2 /\ script # "single"
        /\ c = "add" <=> r.pc = 3
        /\ c = "veth" <=> r.pc = 4 /\ VethRun(script, r)
        /\ c = "move" => r.pc >= 4 /\ ~VethRun(script, r)
        /\ c # "detect"
    BY <1>0, UpAt
  <2>2. VethRun(script, s) <=> VethRun(script, r)
    BY <1>3 DEF VethRun
  <2> HIDE DEF r, s
  <2>3. s.pc \in {2, 3} => n \notin ns'
    BY <1>0, <1>1, <1>3, <2>1 DEF UpDone, CommandDone
  <2>4. s.pc >= 4 => n \in ns'
    BY <1>0, <1>1, <1>3, <2>1 DEF UpDone, CommandDone
  <2>5. s.pc \in {2, 3, 4} => net'[n] = 0
    BY <1>0, <1>1, <1>3, <2>1 DEF UpDone, CommandDone, Place
  <2>6. s.pc >= 2 /\ s.iface => net'[n] = 0
    <3>1. r.iface => ~VethRun(script, r)
      BY DEF VethRun
    <3> QED BY <1>0, <1>1, <1>3, <2>1, <3>1 DEF UpDone, CommandDone, Place
  <2>7. s.pc >= 3 /\ script # "single" => s.id \in Networks
    BY <1>0, <1>1, <1>3, <2>1 DEF UpDone, CommandDone, r
  <2>8. s.pc = 4 /\ VethRun(script, s) => phys' # n
    BY <1>0, <1>1, <1>3, <2>1, <2>2 DEF UpDone, CommandDone, Place
  <2>9. s.pc >= 5 /\ VethRun(script, s) => net'[n] = s.id
    BY <1>0, <1>1, <1>3, <2>1, <2>2 DEF UpDone, CommandDone, r
  <2> QED BY <2>3, <2>4, <2>5, <2>6, <2>7, <2>8, <2>9 DEF UpDone, s
<1>5. DownDone(n, run[n])'
  <2> SUFFICES ASSUME r.op = "down" PROVE DownDone(n, run[n])'
    BY <1>3 DEF DownDone
  <2>1. /\ c = "detect" <=> r.pc = 2 /\ script # "single"
        /\ c = "rmtmp" <=> script # "veth" /\ r.pc = PidsAt(script) - 1
        /\ c = "pids" <=> r.pc \in {PidsAt(script), PidsAt(script) + 2}
        /\ c \in {"kill", "kill_or_fail"} <=> r.pc \in {PidsAt(script) + 1, PidsAt(script) + 3}
        /\ c # "count" /\ c # "veth" /\ c # "tmp"
    BY <1>0, DownAt
  <2>2. PidsAt(script) \in Nat
    BY DEF PidsAt
  <2> HIDE DEF r, s
  <2>3. s.pc >= 3 /\ script # "single" => s.id = net'[n] \/ (s.id = 0 /\ faults' # 0)
    <3>1. r.pc >= 3 /\ script # "single" => r.id = net[n] \/ (r.id = 0 /\ faults # 0)
      BY <1>0 DEF DownDone
    <3>2. s.pc >= 3 /\ script # "single" => (r.pc >= 3 /\ c # "detect") \/ c = "detect"
      BY <1>1, <1>3, <2>1
    <3> QED BY <1>3, <2>1, <3>1, <3>2 DEF CommandDone, r
  <2>4. s.pc >= PidsAt(script) /\ script # "veth" => n \notin tmp'
    <3>1. r.pc >= PidsAt(script) /\ script # "veth" => n \notin tmp
      BY <1>0 DEF DownDone
    <3>2. s.pc >= PidsAt(script) /\ script # "veth" => r.pc >= PidsAt(script) \/ c = "rmtmp"
      BY <1>1, <1>3, <2>1, <2>2
    <3> QED BY <2>1, <3>1, <3>2 DEF CommandDone
  <2>5. s.pc > PidsAt(script) /\ ~s.pids => users'[n] = None
    <3>1. r.pc > PidsAt(script) /\ ~r.pids => users[n] = None
      BY <1>0 DEF DownDone
    <3>2. s.pc > PidsAt(script) => r.pc > PidsAt(script) \/ c = "pids"
      BY <1>1, <1>3, <2>1, <2>2
    <3> QED BY <1>3, <3>1, <3>2 DEF CommandDone, r
  <2>6. s.pc > PidsAt(script) + 3 => users'[n] = None
    <3>1. r.pc > PidsAt(script) + 3 => users[n] = None
      BY <1>0 DEF DownDone
    <3>2. s.pc > PidsAt(script) + 3 =>
            \/ r.pc > PidsAt(script) + 3
            \/ c \in {"kill", "kill_or_fail"} /\ r.pc = PidsAt(script) + 3
      BY <1>1, <1>3, <2>1, <2>2
    <3> QED BY <3>1, <3>2 DEF CommandDone, r
  <2> QED BY <2>3, <2>4, <2>5, <2>6 DEF DownDone, s
<1> QED BY <1>3, <1>4, <1>5

\* The next command is that of the same program.
LEMMA NextCommand ==
  ASSUME NEW n \in Names, WellRun(script, run[n]), NEW q, Moves(n, q),
         NEW p, p = Program(script, run[n]), Len(p) \in Nat, run[n].pc < Len(p)
  PROVE  run'[n] # NoRun /\ Program(script, run'[n])[run'[n].pc] = p[run[n].pc + 1]
<1>1. run[n].pc \in Nat
  BY RunShape
<1>2. run[n].pc # Len(p)
  BY ONLY <1>1, Len(p) \in Nat, run[n].pc < Len(p)
<1>3. WellRun(script, run'[n]) /\ Program(script, run'[n]) = p /\ run'[n].pc = run[n].pc + 1
  BY <1>2 DEF Moves
<1> QED BY <1>3, RunShape

\* A command other than those that make and delete networks and rules leaves
\* its namespace with its rule, or without.
LEMMA HoldingMoves ==
  ASSUME NEW n \in Names, script \in Scripts, WellRun(script, run[n]), script' = script,
         NEW c, c = Program(script, run[n])[run[n].pc],
         c \notin {"veth", "nat", "nat_del", "ns_del"}, NEW q, Moves(n, q), net'[n] = net[n],
         run[n].op = "down" => q.id = IF c = "detect" THEN net[n] ELSE run[n].id
  PROVE  Holding(n)' <=> Holding(n)
<1> DEFINE r == run[n]
           s == run'[n]
           l == Len(Program(script, r))
<1>1. r.pc \in Nat /\ r.pc >= 1 /\ r.op \in {"up", "down"} /\ r # NoRun
  BY RunShape
<1>2. NatAt(script) \in {6, 7} /\ RouteDelAt(script) \in {8, 9}
  BY DEF NatAt, RouteDelAt
<1>3. CASE s = NoRun
  <2>0. r.pc = l
    <3>1. r.pc = l \/ WellRun(script, s)
      BY DEF Moves
    <3> QED BY <1>3, <3>1, RunShape
  <2>1. r.op = "up"
    <3>1. r.op = "down" => (c = "ns_del" <=> r.pc = l)
      BY DownAt
    <3> QED BY <1>1, <2>0, <3>1
  <2>2. VethRun(script, r) => l >= 8 /\ l \in Nat
    BY <2>1, UpAt
  <2> HIDE DEF l
  <2>3. ~(VethRun(script, r) /\ r.pc \in 5 .. NatAt(script))
    BY <1>1, <1>2, <2>0, <2>2
  <2>4. ~Pending(script, r) /\ ~Blind(script, r, net[n])
    BY <2>1, <2>3 DEF Pending, Blind
  <2> QED BY <1>3, <2>4 DEF Holding
<1>4. CASE s # NoRun
  <2>0. s.op = r.op /\ s.iface = r.iface /\ s.pc = r.pc + 1 /\ s.id = q.id
    BY <1>4 DEF Moves
  <2>1. CASE r.op = "up"
    <3>1. ~(r.pc = 4 /\ VethRun(script, r)) /\ ~(r.pc = NatAt(script) /\ VethRun(script, r))
      BY <2>1, UpAt
    <3>2. VethRun(script, s) <=> VethRun(script, r)
      BY <2>0 DEF VethRun
    <3>3. VethRun(script, r) => (s.pc \in 5 .. NatAt(script) <=> r.pc \in 5 .. NatAt(script))
      <4> HIDE DEF r, s
      <4> QED BY <1>1, <1>2, <2>0, <3>1
    <3>4. Pending(script, s) <=> Pending(script, r)
      BY <2>0, <2>1, <3>2, <3>3 DEF Pending
    <3>5. ~Blind(script, r, net[n]) /\ ~Blind(script, s, net[n])
      BY <2>0, <2>1 DEF Blind
    <3> QED BY <1>1, <1>4, <3>4, <3>5 DEF Holding
  <2>2. CASE r.op = "down"
    <3>1. /\ ~(script # "single" /\ r.pc = RouteDelAt(script) + 1)
          /\ c = "detect" <=> r.pc = 2 /\ script # "single"
      BY <2>2, DownAt
    <3>2. ~VethRun(script, s) /\ ~VethRun(script, r)
      BY <2>0, <2>2 DEF VethRun
    <3>3. script # "single" =>
            (s.pc > RouteDelAt(script) + 1 <=> r.pc > RouteDelAt(script) + 1)
      <4> HIDE DEF r, s
      <4> QED BY <1>1, <1>2, <2>0, <3>1
    <3>4. Pending(script, s) <=> Pending(script, r)
      BY <2>0, <2>2, <3>2, <3>3 DEF Pending
    <3>5. CASE script = "single"
      BY <1>1, <1>4, <3>4, <3>5 DEF Holding, Blind
    <3>6. CASE script # "single" /\ r.pc < 3
      <4>1. ~Blind(script, r, net[n])
        <5> HIDE DEF r
        <5> QED BY <1>1, <3>6 DEF Blind
      <4>2. s.pc >= 3 => s.id = net[n]
        <5>1. s.pc >= 3 => c = "detect"
          <6> HIDE DEF r, s
          <6> QED BY <1>1, <2>0, <3>1, <3>6
        <5> QED BY <2>0, <2>2, <5>1
      <4>3. ~Blind(script, s, net[n])
        BY <4>2 DEF Blind
      <4> QED BY <1>1, <1>4, <3>4, <4>1, <4>3 DEF Holding
    <3>7. CASE script # "single" /\ ~(r.pc < 3)
      <4>1. c # "detect" /\ r.pc >= 3 /\ s.pc >= 3
        <5> HIDE DEF r, s
        <5> QED BY <1>1, <2>0, <3>1, <3>7
      <4>2. s.id = r.id
        BY <2>0, <2>2, <4>1
      <4>3. Blind(script, s, net[n]) <=> Blind(script, r, net[n])
        BY <2>0, <4>1, <4>2 DEF Blind
      <4> QED BY <1>1, <1>4, <3>4, <4>3 DEF Holding
    <3> QED BY <3>5, <3>6, <3>7
  <2> QED BY <1>1, <2>1, <2>2
<1> QED BY <1>3, <1>4

\* The rules stay covered when a run does nothing to them.
LEMMA RulesKept ==
  ASSUME NEW n \in Names, NetTypes, Rules, RunsOnly(n), UNCHANGED <<script, net, nat, stale>>,
         faults' = 0 => faults = 0,
         net[n] # 0 /\ Holding(n) => Holding(n)',
         net[n] # 0 /\ faults' = 0 /\ Holding(n)' => Holding(n)
  PROVE  Rules'
<1> SUFFICES ASSUME NEW i \in Networks
             PROVE  /\ nat'[i] <= Cardinality(Ruled(i)') + stale'[i]
                    /\ faults' = 0 => Cardinality(Ruled(i)') <= nat'[i]
  BY DEF Rules
<1>1. /\ nat[i] <= Cardinality(Ruled(i)) + stale[i] /\ nat'[i] = nat[i] /\ nat[i] \in Nat
      /\ i # 0 /\ stale'[i] = stale[i] /\ stale[i] \in Nat
      /\ faults = 0 => Cardinality(Ruled(i)) <= nat[i]
  BY Counts DEF Rules, NetTypes
<1>2. \A m \in Names \ {n} : Holding(m)' <=> Holding(m)
  BY DEF Holding, RunsOnly
<1>3. Ruled(i) \subseteq Ruled(i)' /\ Ruled(i)' \subseteq Names /\ Ruled(i) \subseteq Names
  BY <1>1, <1>2 DEF Ruled
<1>4. faults' = 0 => Ruled(i)' \subseteq Ruled(i)
  BY <1>1, <1>2 DEF Ruled
<1>5. /\ Cardinality(Ruled(i)) <= Cardinality(Ruled(i)')
      /\ Cardinality(Ruled(i)) \in Nat /\ Cardinality(Ruled(i)') \in Nat
  BY <1>3, Counts, FS_Subset
<1>6. faults' = 0 => Cardinality(Ruled(i)') <= Cardinality(Ruled(i))
  BY <1>3, <1>4, Counts, FS_Subset
<1> QED BY <1>1, <1>5, <1>6

\* A rule that is passed over is stale.
LEMMA RulesPassed ==
  ASSUME NEW n \in Names, NetTypes, Rules, RunsOnly(n), UNCHANGED <<script, net, nat>>,
         faults' # 0, stale' \in [Networks -> Nat], \A i \in Networks : stale[i] <= stale'[i],
         net[n] # 0 /\ Holding(n) => Holding(n)' \/ stale'[net[n]] = stale[net[n]] + 1
  PROVE  Rules'
<1> SUFFICES ASSUME NEW i \in Networks PROVE nat'[i] <= Cardinality(Ruled(i)') + stale'[i]
  BY DEF Rules
<1>1. /\ nat[i] <= Cardinality(Ruled(i)) + stale[i] /\ nat'[i] = nat[i] /\ nat[i] \in Nat
      /\ i # 0 /\ stale[i] <= stale'[i] /\ stale[i] \in Nat /\ stale'[i] \in Nat
  BY Counts DEF Rules, NetTypes
<1>2. \A m \in Names \ {n} : Holding(m)' <=> Holding(m)
  BY DEF Holding, RunsOnly
<1>3. Ruled(i) \ {n} \subseteq Ruled(i)' /\ Ruled(i)' \subseteq Names /\ Ruled(i) \subseteq Names
  BY <1>1, <1>2 DEF Ruled
<1>4. IsFiniteSet(Ruled(i)) /\ Cardinality(Ruled(i)) \in Nat /\ Cardinality(Ruled(i)') \in Nat
  BY <1>3, Counts
<1>5. CASE Ruled(i) \subseteq Ruled(i)'
  <2>1. Cardinality(Ruled(i)) <= Cardinality(Ruled(i)')
    BY <1>3, <1>5, Counts, FS_Subset
  <2> QED BY <1>1, <1>4, <2>1
<1>6. CASE ~(Ruled(i) \subseteq Ruled(i)')
  <2>1. n \in Ruled(i) /\ n \notin Ruled(i)'
    BY <1>3, <1>6
  <2>2. stale'[i] = stale[i] + 1
    BY <1>1, <2>1 DEF Ruled
  <2>3. Cardinality(Ruled(i) \ {n}) = Cardinality(Ruled(i)) - 1
    BY <1>4, <2>1, FS_RemoveElement
  <2>4. Cardinality(Ruled(i) \ {n}) <= Cardinality(Ruled(i)')
    BY <1>3, Counts, FS_Subset
  <2> QED BY <1>1, <1>4, <2>2, <2>3, <2>4
<1> QED BY <1>5, <1>6

-----------------------------------------------------------------------------
(* The steps *)

\* A new run is at the first of its commands.
LEMMA FirstCommand ==
  ASSUME NEW s \in Scripts, NEW op \in {"up", "down"}, NEW wg \in BOOLEAN, NEW iface \in BOOLEAN,
         iface => s = "multi" /\ op = "up", wg => op = "up",
         NEW r, r = [op |-> op, wg |-> wg, iface |-> iface, pc |-> 1, id |-> 0, pids |-> FALSE]
  PROVE  WellRun(s, r)
<1>1. r.op = op /\ r.wg = wg /\ r.iface = iface /\ r.pc = 1
  OBVIOUS
<1>2. r \in [op : {"up", "down"}, wg : BOOLEAN, iface : BOOLEAN, pc : Nat, id : Nat, pids : BOOLEAN]
  OBVIOUS
<1>3. 1 \in 1 .. Len(Program(s, r))
  <2> DEFINE l == Len(Program(s, r))
  <2>1. CASE op = "down"
    <3>1. l \in {8, 10, 11}
      BY <1>1, <2>1, DownMulti, DownSingle, DownVeth DEF Scripts
    <3> HIDE DEF l
    <3>2. 1 \in 1 .. l
      BY <3>1
    <3> QED BY <3>2 DEF l
  <2>2. CASE op = "up"
    <3>1. l \in {7, 8, 9, 11}
      BY <1>1, <2>2, UpMultiVeth, UpMultiVethVpn, UpMultiPhys, UpMultiPhysVpn, UpSingle,
         UpSingleVpn, UpVeth, UpVethVpn DEF Scripts
    <3> HIDE DEF l
    <3>2. 1 \in 1 .. l
      BY <3>1
    <3> QED BY <3>2 DEF l
  <2> QED BY <2>1, <2>2
<1> QED BY <1>1, <1>2, <1>3 DEF WellRun

\* A script is started.
LEMMA StepStart ==
  ASSUME NetInv, NEW n \in Names, Start(n)
  PROVE  NetInv'
<1> USE DEF NetInv
<1>0. PICK op \in {"up", "down"}, wg \in BOOLEAN, iface \in BOOLEAN :
        /\ iface => script = "multi" /\ op = "up"
        /\ wg => op = "up"
        /\ run' = [run EXCEPT ![n] = [op |-> op, wg |-> wg, iface |-> iface, pc |-> 1,
                                      id |-> 0, pids |-> FALSE]]
  BY DEF Start
<1>1. /\ run[n] = NoRun /\ nruns < MaxRuns /\ nruns' = nruns + 1
      /\ UNCHANGED <<script, ns, net, route, nat, phys, vpn, tmp, users, left, faults, stale, stray>>
  BY DEF Start, kernel, faultVars
<1> DEFINE s == [op |-> op, wg |-> wg, iface |-> iface, pc |-> 1, id |-> 0, pids |-> FALSE]
<1>2. run = [m \in Names |-> run[m]] /\ left = [m \in Names |-> left[m]]
  BY DEF NetTypes
<1>3. WellRun(script, s) /\ s.pc = 1
  BY <1>0, FirstCommand DEF NetTypes
<1>4. run' = [run EXCEPT ![n] = s]
  BY <1>0
<1> HIDE DEF s
<1>5. /\ run' = [m \in Names |-> run'[m]] /\ left' = [m \in Names |-> left'[m]]
      /\ run'[n] = s /\ RunsOnly(n)
  BY <1>1, <1>2, <1>4 DEF RunsOnly
<1>6. NetTypes'
  <2>1. nruns' \in 0 .. MaxRuns
    BY <1>1, NetnsAssumption DEF NetTypes
  <2> QED BY <1>1, <1>5, <2>1 DEF NetTypes
<1>7. ASSUME NEW m \in Names PROVE RunOK(m)' /\ Place(m)' /\ Kept(m)'
  <2>1. CASE m # n
    BY <1>1, <1>5, <2>1, OthersKept DEF RunsOnly
  <2>2. CASE m = n
    <3>1. RunOK(n)'
      BY <1>1, <1>3, <1>5 DEF RunOK, UpDone, DownDone, PidsAt
    <3>2. Place(n)' /\ Kept(n)'
      BY <1>1 DEF Place, Kept
    <3> QED BY <2>2, <3>1, <3>2
  <2> QED BY <2>1, <2>2
<1>8. Rules'
  <2>1. ~Pending(script, s) /\ ~Blind(script, s, net[n])
    BY <1>3 DEF Pending, Blind, RouteDelAt
  <2>2. Holding(n) /\ Holding(n)'
    BY <1>1, <1>5, <2>1 DEF Holding
  <2> QED BY <1>1, <1>5, <2>2, RulesKept
<1> QED BY <1>6, <1>7, <1>8

\* A user's program starts or ends.
LEMMA StepUser ==
  ASSUME NetInv, NEW n \in Names, UserStarts(n) \/ UserEnds(n)
  PROVE  NetInv'
<1> USE DEF NetInv
<1>1. UNCHANGED <<script, ns, net, route, nat, phys, vpn, tmp, run, left, nruns, faults, stale,
                  stray>>
  BY DEF UserStarts, UserEnds, kernel, faultVars
<1>2. PICK u \in {None, "polite", "stubborn"} :
        /\ users' = [users EXCEPT ![n] = u]
        /\ u = None \/ (n \in ns /\ run[n] = NoRun)
  BY DEF UserStarts, UserEnds
<1>3. /\ users' \in [Names -> {None, "polite", "stubborn"}]
      /\ users'[n] = u /\ \A m \in Names \ {n} : users'[m] = users[m]
  BY <1>2 DEF NetTypes
<1>4. NetTypes'
  BY <1>1, <1>3 DEF NetTypes
<1>5. ASSUME NEW m \in Names PROVE RunOK(m)' /\ Place(m)' /\ Kept(m)'
  <2>1. CASE m # n
    BY <1>1, <1>3, <2>1, OthersKept
  <2>2. CASE m = n
    <3>1. RunOK(n)'
      BY <1>1, <1>2, <1>3 DEF RunOK, UpDone, DownDone
    <3>2. Place(n)' /\ Kept(n)'
      BY <1>1, <1>2, <1>3 DEF Place, Kept
    <3> QED BY <2>2, <3>1, <3>2
  <2> QED BY <2>1, <2>2
<1>6. Rules'
  BY <1>1 DEF Rules, Ruled, Holding
<1> QED BY <1>4, <1>5, <1>6

\* What the steps of a run share: its command, and that no other run moves.
LEMMA RunAt ==
  ASSUME NetInv, NEW n \in Names, run[n] # NoRun
  PROVE  /\ Cmd(n) = Program(script, run[n])[run[n].pc]
         /\ script \in Scripts /\ WellRun(script, run[n]) /\ NetTypes
         /\ RunOK(n) /\ Place(n) /\ Kept(n)
         /\ UpDone(n, run[n]) /\ DownDone(n, run[n])
         /\ run[n].op \in {"up", "down"} /\ run[n].pc \in Nat /\ run[n].pc >= 1
         /\ run[n].id \in Nat /\ run[n].pids \in BOOLEAN
<1>1. WellRun(script, run[n]) /\ script \in Scripts
  BY DEF NetInv, RunOK, NetTypes
<1>2. run[n].id \in Nat /\ run[n].pids \in BOOLEAN
  BY <1>1 DEF WellRun
<1> QED BY <1>1, <1>2, RunShape DEF NetInv, RunOK, Cmd, Commands

\* A command that changes nothing of the kernel's: the run moves on or stops.
LEMMA QuietMove ==
  ASSUME NetInv, NEW n \in Names, run[n] # NoRun, NEW c, c = Cmd(n), c \notin {"add", "veth"},
         NEW q, Moves(n, q), CommandDone(n, c, q),
         UNCHANGED <<script, ns, net, route, nat, phys, vpn, nruns>>,
         faults' \in 0 .. MaxFaults, stale' \in [Networks -> Nat],
         tmp' \subseteq Names, stray' \subseteq Names,
         users' \in [Names -> {None, "polite", "stubborn"}],
         \A m \in Names \ {n} : /\ users'[m] = users[m] /\ (m \in tmp' <=> m \in tmp)
                                /\ (m \in stray' <=> m \in stray),
         Kept(n)', Rules'
  PROVE  NetInv'
<1>0. /\ c = Program(script, run[n])[run[n].pc] /\ script \in Scripts
      /\ WellRun(script, run[n]) /\ NetTypes /\ RunOK(n) /\ Place(n)
  BY RunAt
<1>1. /\ RunsOnly(n)
      /\ run' = [m \in Names |-> run'[m]] /\ left' = [m \in Names |-> left'[m]]
  BY <1>0, OnlyThisRun
<1>2. NetTypes'
  BY <1>0, <1>1 DEF NetTypes
<1>3. ASSUME NEW m \in Names PROVE RunOK(m)' /\ Place(m)' /\ Kept(m)'
  <2>1. CASE m # n
    <3>1. RunOK(m) /\ Place(m) /\ Kept(m) /\ (faults' = 0 => faults = 0)
      BY DEF NetInv, CommandDone
    <3> QED BY <1>1, <2>1, <3>1, OthersKept DEF RunsOnly
  <2>2. CASE m = n
    <3>1. RunOK(n)'
      BY <1>0, RunMoves
    <3>2. Place(n)'
      BY <1>0 DEF Place, CommandDone
    <3> QED BY <2>2, <3>1, <3>2
  <2> QED BY <2>1, <2>2
<1> QED BY <1>2, <1>3 DEF NetInv

\* Such a command that has not failed does nothing to the rules.
LEMMA QuietRules ==
  ASSUME NetInv, NEW n \in Names, run[n] # NoRun, NEW c, c = Cmd(n),
         c \notin {"veth", "nat", "nat_del", "ns_del"}, NEW q, Moves(n, q),
         run[n].op = "down" => q.id = IF c = "detect" THEN net[n] ELSE run[n].id,
         UNCHANGED <<script, net, nat, stale, faults>>
  PROVE  Rules'
<1>0. /\ c = Program(script, run[n])[run[n].pc] /\ script \in Scripts
      /\ WellRun(script, run[n]) /\ NetTypes
  BY RunAt
<1>1. RunsOnly(n)
  BY <1>0, OnlyThisRun
<1>2. Holding(n)' <=> Holding(n)
  <2>1. net'[n] = net[n]
    OBVIOUS
  <2> QED BY <1>0, <2>1, HoldingMoves
<1>3. Rules
  BY DEF NetInv
<1> QED BY <1>0, <1>1, <1>2, <1>3, RulesKept

\* The same when the run stops at the command.
LEMMA QuietStop ==
  ASSUME NetInv, NEW n \in Names, run[n] # NoRun, Stops(n),
         UNCHANGED <<script, ns, net, route, nat, phys, vpn, nruns, stale>>,
         faults' \in 0 .. MaxFaults, faults' = 0 => faults = 0,
         tmp' \subseteq Names, stray' \subseteq Names,
         users' \in [Names -> {None, "polite", "stubborn"}],
         \A m \in Names \ {n} : /\ users'[m] = users[m] /\ (m \in tmp' <=> m \in tmp)
                                /\ (m \in stray' <=> m \in stray),
         n \notin ns => users'[n] = None,
         n \in tmp' /\ n \notin stray' => script # "veth" /\ n \in vpn,
         faults' = 0 => Holding(n)
  PROVE  NetInv'
<1>0. /\ Cmd(n) = Program(script, run[n])[run[n].pc] /\ script \in Scripts
      /\ WellRun(script, run[n]) /\ NetTypes /\ RunOK(n) /\ Place(n)
  BY RunAt
<1>1. /\ RunsOnly(n)
      /\ run' = [m \in Names |-> run'[m]] /\ left' = [m \in Names |-> left'[m]]
  BY <1>0, OnlyThisRun
<1>2. run'[n] = NoRun
  BY <1>0 DEF Stops
<1>3. NetTypes'
  BY <1>0, <1>1 DEF NetTypes
<1>4. ASSUME NEW m \in Names PROVE RunOK(m)' /\ Place(m)' /\ Kept(m)'
  <2>1. CASE m # n
    <3>1. RunOK(m) /\ Place(m) /\ Kept(m)
      BY DEF NetInv
    <3> QED BY <1>1, <2>1, <3>1, OthersKept DEF RunsOnly
  <2>2. CASE m = n
    BY <1>0, <1>2, <2>2 DEF RunOK, Place, Kept
  <2> QED BY <2>1, <2>2
<1>5. Rules'
  <2>1. Holding(n)' /\ Rules
    BY <1>2 DEF Holding, NetInv
  <2> QED BY <1>0, <1>1, <2>1, RulesKept
<1> QED BY <1>3, <1>4, <1>5 DEF NetInv

\* A test holds and the run moves on, or it ends the run.
LEMMA StepCheck ==
  ASSUME NetInv, NEW n \in Names, Check(n)
  PROVE  NetInv'
<1>0. /\ run[n] # NoRun
      /\ Cmd(n) \in {"absent", "present", "iface", "resolve", "dns", "vpn_config", "default_route"}
      /\ UNCHANGED <<script, ns, net, route, nat, phys, vpn, tmp, users, nruns, faults, stale, stray>>
  BY DEF Check, kernel, faultVars
<1> DEFINE c == Cmd(n)
<1>1. /\ c = Program(script, run[n])[run[n].pc] /\ script \in Scripts
      /\ WellRun(script, run[n]) /\ NetTypes /\ RunOK(n) /\ Place(n) /\ Kept(n)
      /\ run[n].op \in {"up", "down"}
  BY <1>0, RunAt
<1>2. /\ users' \in [Names -> {None, "polite", "stubborn"}] /\ tmp' \subseteq Names
      /\ stray' \subseteq Names /\ stale' \in [Networks -> Nat] /\ faults' \in 0 .. MaxFaults
  BY <1>0, <1>1 DEF NetTypes
<1>3. n \in tmp /\ n \notin stray => script # "veth" /\ n \in vpn
  BY <1>0, <1>1 DEF Kept
<1>4. CASE Holds(n)
  <2>1. Moves(n, run[n])
    <3>1. Go(n, run[n])
      BY <1>4 DEF Check
    <3> QED BY <1>1, <3>1, GoSame
  <2>2. c = "absent" => n \notin ns
    BY <1>4 DEF Holds
  <2> HIDE DEF c
  <2>3. CommandDone(n, c, run[n])
    BY <1>0, <2>2 DEF CommandDone, c
  <2>4. Kept(n)'
    BY <1>0, <1>3 DEF Kept
  <2>5. Rules'
    <3>1. c \notin {"veth", "nat", "nat_del", "ns_del", "detect"} /\ c = Cmd(n)
      BY <1>0 DEF c
    <3> QED BY <1>0, <2>1, <3>1, QuietRules
  <2> QED BY <1>0, <1>2, <2>1, <2>3, <2>4, <2>5, QuietMove DEF c
<1>5. CASE ~Holds(n)
  <2>1. Stops(n)
    <3>1. Abort(n)
      BY <1>5 DEF Check
    <3> QED BY <1>1, <3>1, AbortStops
  <2>2. c \in {"absent", "present", "iface"}
    BY <1>0, <1>5 DEF Holds
  <2>3. Holding(n)
    <3>1. CASE run[n].op = "up"
      <4>1. run[n].pc = 1 \/ ~VethRun(script, run[n])
        BY <1>1, <2>2, <3>1, UpAt
      <4> QED BY <3>1, <4>1 DEF Holding, Pending, Blind
    <3>2. CASE run[n].op = "down"
      <4>1. run[n].pc = 1
        BY <1>1, <2>2, <3>2, DownAt
      <4> QED BY <3>2, <4>1 DEF Holding, Pending, Blind, RouteDelAt, VethRun
    <3> QED BY <1>1, <3>1, <3>2
  <2>4. n \notin ns => users'[n] = None
    BY <1>0, <1>1 DEF Place
  <2> QED BY <1>0, <1>2, <1>3, <2>1, <2>3, <2>4, QuietStop
<1> QED BY <1>4, <1>5

\* When the namespace is not there yet the count plus one is a network.
LEMMA CountIsNetwork ==
  ASSUME NetTypes, NEW n \in Names, n \notin ns
  PROVE  network_id(n) \in Networks /\ network_id(n) \in Nat
<1>1. IsFiniteSet(ns) /\ Cardinality(ns) \in Nat /\ ns \cup {n} \subseteq Names
  BY Counts DEF NetTypes
<1>2. Cardinality(ns \cup {n}) = Cardinality(ns) + 1
  BY <1>1, FS_AddElement
<1>3. Cardinality(ns \cup {n}) <= Cardinality(Names) /\ Cardinality(Names) \in Nat
  BY <1>1, Counts
<1> QED BY <1>1, <1>2, <1>3 DEF network_id, Networks

\* The count, the network and the processes are read.
LEMMA StepRead ==
  ASSUME NetInv, NEW n \in Names, Read(n)
  PROVE  NetInv'
<1>0. /\ run[n] # NoRun /\ Cmd(n) \in {"count", "detect", "pids"}
      /\ UNCHANGED <<script, ns, net, route, nat, phys, vpn, tmp, users, nruns, faults, stale, stray>>
  BY DEF Read, kernel, faultVars
<1> DEFINE c == Cmd(n)
           r == run[n]
           id == IF c = "count" THEN network_id(n) ELSE IF c = "detect" THEN net[n] ELSE r.id
           pids == IF c = "pids" THEN users[n] # None ELSE r.pids
           q == [op |-> r.op, wg |-> r.wg, iface |-> r.iface, pc |-> r.pc, id |-> id, pids |-> pids]
<1>1. /\ c = Program(script, r)[r.pc] /\ script \in Scripts
      /\ WellRun(script, r) /\ NetTypes /\ RunOK(n) /\ Place(n) /\ Kept(n)
      /\ r.op \in {"up", "down"} /\ UpDone(n, r) /\ r.id \in Nat /\ r.pids \in BOOLEAN
  BY <1>0, RunAt
<1>2. /\ users' \in [Names -> {None, "polite", "stubborn"}] /\ tmp' \subseteq Names
      /\ stray' \subseteq Names /\ stale' \in [Networks -> Nat] /\ faults' \in 0 .. MaxFaults
  BY <1>0, <1>1 DEF NetTypes
<1>3. c = "count" => n \notin ns /\ r.op = "up"
  <2> SUFFICES ASSUME c = "count" PROVE n \notin ns /\ r.op = "up"
    OBVIOUS
  <2>1. r.op = "up"
    <3>1. r.op = "down" => c # "count"
      BY <1>1, DownAt
    <3> QED BY <1>1, <3>1
  <2>2. r.pc = 2
    BY <1>1, <2>1, UpAt
  <2> QED BY <1>1, <2>1, <2>2 DEF UpDone
<1>4. id \in Nat /\ (c = "count" => id \in Networks) /\ pids \in BOOLEAN
  <2>1. net[n] \in Nat
    BY <1>1, Counts DEF NetTypes
  <2> QED BY <1>1, <1>3, <2>1, CountIsNetwork
<1>5. Go(n, q)
  <2>1. r = [op |-> r.op, wg |-> r.wg, iface |-> r.iface, pc |-> r.pc, id |-> r.id, pids |-> r.pids]
    BY <1>1 DEF WellRun
  <2>2. (IF phys = n THEN 0 ELSE net[n]) = net[n]
    BY <1>1 DEF Place
  <2>3. CASE c = "count"
    <3>1. q = [r EXCEPT !.id = network_id(n)]
      BY <2>1, <2>3
    <3> QED BY <2>3, <3>1 DEF Read
  <2>4. CASE c = "detect"
    <3>1. q = [r EXCEPT !.id = IF phys = n THEN 0 ELSE net[n]]
      BY <2>1, <2>2, <2>4
    <3> QED BY <2>4, <3>1 DEF Read
  <2>5. CASE c = "pids"
    <3>1. q = [r EXCEPT !.pids = (users[n] # None)]
      BY <2>1, <2>5
    <3> QED BY <2>5, <3>1 DEF Read
  <2> QED BY <1>0, <2>3, <2>4, <2>5
<1> HIDE DEF c, id, pids
<1>6. Moves(n, q)
  BY <1>1, <1>4, <1>5, GoMoves
<1>7. q.id = id /\ q.pids = pids
  OBVIOUS
<1> HIDE DEF q
<1>8. c \in {"count", "detect", "pids"} /\ c = Cmd(n)
  BY <1>0 DEF c
<1>9. CommandDone(n, c, q)
  <2>1. /\ c = "count" => q.id \in Networks
        /\ c = "detect" => q.id = net[n]
        /\ c = "pids" => q.id = run[n].id
    BY <1>0, <1>4, <1>7 DEF id
  <2>2. IF c = "pids" THEN ~q.pids => users'[n] = None ELSE q.pids = run[n].pids
    BY <1>0, <1>7 DEF pids
  <2> HIDE DEF r
  <2> QED BY <1>0, <1>8, <2>1, <2>2 DEF CommandDone
<1>10. Kept(n)'
  <2>1. n \in tmp /\ n \notin stray => script # "veth" /\ n \in vpn
    BY <1>0, <1>1 DEF Kept, c
  <2> QED BY <1>0, <2>1 DEF Kept
<1>11. Rules'
  <2>1. r.op = "down" => q.id = IF c = "detect" THEN net[n] ELSE r.id
    BY <1>3, <1>7 DEF id
  <2> QED BY <1>0, <1>6, <1>8, <2>1, QuietRules DEF r
<1> HIDE DEF r
<1> QED BY <1>0, <1>2, <1>6, <1>8, <1>9, <1>10, <1>11, QuietMove

\* The configuration is written or removed.
LEMMA StepConfig ==
  ASSUME NetInv, NEW n \in Names, Config(n)
  PROVE  NetInv'
<1>0. /\ run[n] # NoRun /\ Cmd(n) \in {"tmp", "rmtmp"} /\ Go(n, run[n])
      /\ UNCHANGED <<script, ns, net, route, nat, phys, vpn, users, nruns, faults, stale>>
      /\ stray' = stray \ {n}
  BY DEF Config, kernel
<1> DEFINE c == Cmd(n)
<1>1. /\ c = Program(script, run[n])[run[n].pc] /\ script \in Scripts
      /\ WellRun(script, run[n]) /\ NetTypes /\ RunOK(n) /\ Place(n)
      /\ run[n].op \in {"up", "down"}
  BY <1>0, RunAt
<1>2. tmp' = IF c = "tmp" THEN tmp \cup {n} ELSE tmp \ {n}
  BY DEF Config
<1>3. /\ users' \in [Names -> {None, "polite", "stubborn"}] /\ tmp' \subseteq Names
      /\ stray' \subseteq Names /\ stale' \in [Networks -> Nat] /\ faults' \in 0 .. MaxFaults
      /\ \A m \in Names \ {n} : /\ users'[m] = users[m] /\ (m \in tmp' <=> m \in tmp)
                                /\ (m \in stray' <=> m \in stray)
  BY <1>0, <1>1, <1>2 DEF NetTypes
<1>4. Moves(n, run[n])
  BY <1>0, <1>1, GoSame
<1>5. Kept(n)'
  <2> SUFFICES ASSUME n \in tmp'
               PROVE  /\ run'[n] # NoRun
                      /\ Program(script, run'[n])[run'[n].pc] \in {"wg_up", "wg_up_kept"}
    BY <1>0 DEF Kept
  <2>1. c = "tmp"
    BY <1>2
  <2>2. run[n].op = "up"
    <3>1. run[n].op = "down" => c # "tmp"
      BY <1>1, DownAt
    <3> QED BY <1>1, <2>1, <3>1
  <2> HIDE DEF c
  <2>3. ASSUME NEW p, p = Program(script, run[n])
        PROVE  Len(p) \in Nat /\ run[n].pc < Len(p) /\ p[run[n].pc + 1] \in {"wg_up", "wg_up_kept"}
    <3>1. c = p[run[n].pc]
      BY <1>1, <2>3
    <3>2. /\ Len(p) \in Nat
          /\ c = "tmp" => run[n].pc < Len(p) /\ p[run[n].pc + 1] \in {"wg_up", "wg_up_kept"}
      BY ONLY <1>1, <2>2, <2>3, <3>1, UpAt
    <3> QED BY <2>1, <3>2
  <2> QED BY <1>1, <1>4, <2>3, NextCommand
<1> HIDE DEF c
<1>6. c \in {"tmp", "rmtmp"} /\ c = Cmd(n)
  BY <1>0 DEF c
<1>7. CommandDone(n, c, run[n])
  BY <1>0, <1>2, <1>6 DEF CommandDone
<1>8. Rules'
  BY <1>0, <1>4, <1>6, QuietRules
<1> QED BY <1>0, <1>3, <1>4, <1>5, <1>6, <1>7, <1>8, QuietMove

\* The processes are told to end.
LEMMA StepKill ==
  ASSUME NetInv, NEW n \in Names, Kill(n)
  PROVE  NetInv'
<1>0. /\ run[n] # NoRun /\ Cmd(n) \in {"kill", "kill_or_fail"}
      /\ UNCHANGED <<script, ns, net, route, nat, phys, vpn, tmp, nruns, faults, stale, stray>>
  BY DEF Kill, kernel, faultVars
<1> DEFINE c == Cmd(n)
           p == Program(script, run[n])
           second == run[n].pc > 4 /\ p[run[n].pc - 2] = "kill"
<1>1. /\ c = p[run[n].pc] /\ script \in Scripts
      /\ WellRun(script, run[n]) /\ NetTypes /\ RunOK(n) /\ Place(n) /\ Kept(n)
      /\ run[n].op \in {"up", "down"} /\ DownDone(n, run[n]) /\ run[n].pc \in Nat
      /\ run[n].pids \in BOOLEAN
  BY <1>0, RunAt
<1>2. run[n].op = "down"
  <2>1. run[n].op = "up" => c \notin {"kill", "kill_or_fail"}
    BY <1>1, UpAt
  <2> QED BY <1>0, <1>1, <2>1
<1>3. /\ run[n].pc \in {PidsAt(script) + 1, PidsAt(script) + 3}
      /\ second <=> run[n].pc = PidsAt(script) + 3
  BY <1>0, <1>1, <1>2, DownAt
<1>4. /\ run[n].pids =>
           /\ IF users[n] = None THEN Abort(n) ELSE Go(n, run[n])
           /\ users' = [users EXCEPT ![n] = IF @ = "stubborn" /\ ~second THEN @ ELSE None]
      /\ ~run[n].pids =>
           /\ IF c = "kill_or_fail" THEN Abort(n) ELSE Go(n, run[n])
           /\ users' = users
  BY DEF Kill, Commands
<1>5. /\ users' \in [Names -> {None, "polite", "stubborn"}] /\ tmp' \subseteq Names
      /\ stray' \subseteq Names /\ stale' \in [Networks -> Nat] /\ faults' \in 0 .. MaxFaults
      /\ \A m \in Names \ {n} : /\ users'[m] = users[m] /\ (m \in tmp' <=> m \in tmp)
                                /\ (m \in stray' <=> m \in stray)
      /\ users'[n] = users[n] \/ users'[n] = None
  BY <1>0, <1>1, <1>4 DEF NetTypes
<1>6. run[n].pc = PidsAt(script) + 3 => users'[n] = None
  <2> SUFFICES ASSUME run[n].pc = PidsAt(script) + 3 PROVE users'[n] = None
    OBVIOUS
  <2>1. CASE run[n].pids
    BY <1>1, <1>3, <1>4, <2>1 DEF NetTypes
  <2>2. CASE ~run[n].pids
    <3>1. run[n].pc > PidsAt(script)
      BY DEF PidsAt
    <3> QED BY <1>1, <1>2, <1>4, <2>2, <3>1 DEF DownDone
  <2> QED BY <2>1, <2>2
<1>7. n \in tmp /\ n \notin stray => script # "veth" /\ n \in vpn
  BY <1>0, <1>1 DEF Kept
<1> HIDE DEF c, p, second
<1>8. c \in {"kill", "kill_or_fail"} /\ c = Cmd(n)
  BY <1>0 DEF c
<1>9. CASE Go(n, run[n])
  <2>1. Moves(n, run[n])
    BY <1>1, <1>9, GoSame
  <2>2. CommandDone(n, c, run[n])
    BY <1>0, <1>5, <1>6, <1>8 DEF CommandDone
  <2>3. Kept(n)'
    BY <1>0, <1>7 DEF Kept
  <2>4. Rules'
    BY <1>0, <1>8, <2>1, QuietRules
  <2> QED BY <1>0, <1>5, <1>8, <2>1, <2>2, <2>3, <2>4, QuietMove
<1>10. CASE Abort(n)
  <2>1. Stops(n)
    BY <1>1, <1>10, AbortStops
  <2>2. faults = 0 => Holding(n)
    <3>1. ~Pending(script, run[n])
      BY <1>2, <1>3 DEF Pending, PidsAt, RouteDelAt, VethRun
    <3>2. faults = 0 => ~Blind(script, run[n], net[n])
      BY <1>1, <1>2 DEF DownDone, Blind
    <3> QED BY <3>1, <3>2 DEF Holding
  <2>3. n \notin ns => users'[n] = None
    BY <1>1, <1>5 DEF Place
  <2>4. faults' = 0 => faults = 0 /\ Holding(n)
    BY <1>0, <2>2
  <2> QED BY <1>0, <1>5, <1>7, <2>1, <2>3, <2>4, QuietStop
<1> QED BY <1>1, <1>4, <1>9, <1>10

\* The route without a gateway ends the run.
LEMMA StepEmptyGateway ==
  ASSUME NetInv, NEW n \in Names, EmptyGateway(n)
  PROVE  NetInv'
<1>0. /\ run[n] # NoRun /\ Cmd(n) = "empty_gateway" /\ Abort(n)
      /\ UNCHANGED <<script, ns, net, route, nat, phys, vpn, tmp, users, nruns, faults, stale, stray>>
  BY DEF EmptyGateway, kernel, faultVars
<1>1. /\ Cmd(n) = Program(script, run[n])[run[n].pc] /\ script \in Scripts
      /\ WellRun(script, run[n]) /\ NetTypes /\ RunOK(n) /\ Place(n) /\ Kept(n)
      /\ run[n].op \in {"up", "down"}
  BY <1>0, RunAt
<1>2. run[n].op = "up" /\ ~VethRun(script, run[n])
  <2>1. run[n].op = "down" => Cmd(n) # "empty_gateway"
    BY <1>1, DownAt
  <2>2. run[n].op = "up" => ~VethRun(script, run[n])
    BY <1>0, <1>1, UpAt
  <2> QED BY <1>0, <1>1, <2>1, <2>2
<1>3. Stops(n)
  BY <1>0, <1>1, AbortStops
<1>4. Holding(n)
  BY <1>2 DEF Holding, Pending, Blind
<1>5. n \in tmp /\ n \notin stray => script # "veth" /\ n \in vpn
  BY <1>0, <1>1 DEF Kept
<1>6. /\ users' \in [Names -> {None, "polite", "stubborn"}] /\ tmp' \subseteq Names
      /\ stray' \subseteq Names /\ faults' \in 0 .. MaxFaults /\ (n \notin ns => users'[n] = None)
  BY <1>0, <1>1 DEF NetTypes, Place
<1> QED BY <1>0, <1>3, <1>4, <1>5, <1>6, QuietStop

\* A command fails and ends the run.
LEMMA StepFault ==
  ASSUME NetInv, NEW n \in Names, Fault(n)
  PROVE  NetInv'
<1> DEFINE c == Cmd(n)
<1>0. /\ run[n] # NoRun /\ Abort(n) /\ faults < MaxFaults /\ faults' = faults + 1
      /\ UNCHANGED <<script, ns, net, route, nat, phys, vpn, users, nruns, stale>>
      /\ Leaves(n)
  BY DEF Fault, kernel
<1>1. /\ c = Program(script, run[n])[run[n].pc] /\ script \in Scripts
      /\ WellRun(script, run[n]) /\ NetTypes /\ RunOK(n) /\ Place(n) /\ Kept(n)
      /\ run[n].op \in {"up", "down"}
  BY <1>0, RunAt
<1>2. /\ tmp' \in {tmp, tmp \ {n}, tmp \cup {n}} /\ stray' \in {stray, stray \cup {n}}
      /\ n \in tmp' => n \in stray' \/ (n \in tmp /\ c \notin {"wg_up", "rmtmp", "wg_up_kept"})
  BY <1>0 DEF Leaves
<1>3. n \in tmp' /\ n \notin stray' => script # "veth" /\ n \in vpn
  BY <1>1, <1>2 DEF Kept
<1>4. /\ users' \in [Names -> {None, "polite", "stubborn"}] /\ tmp' \subseteq Names
      /\ stray' \subseteq Names /\ (n \notin ns => users'[n] = None)
      /\ \A m \in Names \ {n} : /\ users'[m] = users[m] /\ (m \in tmp' <=> m \in tmp)
                                /\ (m \in stray' <=> m \in stray)
  BY <1>0, <1>1, <1>2 DEF NetTypes, Place
<1>5. faults' \in 0 .. MaxFaults /\ faults' # 0
  BY <1>0, <1>1, NetnsAssumption DEF NetTypes
<1>6. Stops(n)
  BY <1>0, <1>1, AbortStops
<1> QED BY <1>0, <1>3, <1>4, <1>5, <1>6, QuietStop

\* A command fails unnoticed and the run goes on.  A rule that is passed over,
\* at its deletion or because its network was not read, is stale.
LEMMA StepUnnoticed ==
  ASSUME NetInv, NEW n \in Names, FailsUnnoticed(n)
  PROVE  NetInv'
<1> DEFINE c == Cmd(n)
           r == run[n]
           id == IF c = "detect" THEN 0 ELSE r.id
           q == [op |-> r.op, wg |-> r.wg, iface |-> r.iface, pc |-> r.pc, id |-> id,
                 pids |-> r.pids]
           kept == CASE c = "detect" -> net[n] [] c = "nat_del" -> r.id [] OTHER -> 0
<1>0. /\ r # NoRun /\ faults < MaxFaults /\ faults' = faults + 1
      /\ c \in {"vpn_stop", "detect", "route_del", "nat_del", "ns_del"}
      /\ stale' = [i \in Networks |-> IF i = kept THEN stale[i] + 1 ELSE stale[i]]
      /\ Go(n, [r EXCEPT !.id = IF c = "detect" THEN 0 ELSE @])
      /\ UNCHANGED <<script, ns, net, route, nat, phys, vpn, tmp, users, nruns, stray>>
  BY DEF FailsUnnoticed, kernel
<1>1. /\ c = Program(script, r)[r.pc] /\ script \in Scripts
      /\ WellRun(script, r) /\ NetTypes /\ RunOK(n) /\ Place(n) /\ Kept(n)
      /\ r.op \in {"up", "down"} /\ DownDone(n, r) /\ r.id \in Nat /\ r.pids \in BOOLEAN
  BY <1>0, RunAt
<1>2. r.op = "down"
  <2>1. r.op = "up" =>
          c \in {"absent", "iface", "resolve", "dns", "vpn_config", "default_route", "count",
                 "add", "veth", "route", "nat", "move", "wg_up", "wg_up_kept", "tmp", "rmtmp",
                 "empty_gateway"}
    BY <1>1, UpAt
  <2> QED BY <1>0, <1>1, <2>1
<1>2a. /\ c = "nat_del" => script # "single" /\ r.pc = RouteDelAt(script) + 1
       /\ c = "ns_del" => r.pc = Len(Program(script, r))
  <2> HIDE DEF c
  <2> QED BY ONLY <1>1, <1>2, DownAt
<1>3. Moves(n, q) /\ q.id = id /\ q.pids = r.pids
  <2>1. r = [op |-> r.op, wg |-> r.wg, iface |-> r.iface, pc |-> r.pc, id |-> r.id, pids |-> r.pids]
    BY <1>1 DEF WellRun
  <2>2. q = [r EXCEPT !.id = IF c = "detect" THEN 0 ELSE @]
    BY <2>1
  <2>3. id \in Nat
    BY <1>1
  <2>4. Go(n, q)
    BY <1>0, <2>2
  <2> QED BY <1>1, <2>3, <2>4, GoMoves
<1>4. RunsOnly(n)
  BY <1>1, <1>3, OnlyThisRun
<1>5. faults' \in 0 .. MaxFaults /\ faults' # 0
  BY <1>0, <1>1, NetnsAssumption DEF NetTypes
<1>6. /\ stale' \in [Networks -> Nat] /\ \A i \in Networks : stale[i] <= stale'[i]
      /\ kept \in Networks => stale'[kept] = stale[kept] + 1
  <2>1. stale \in [Networks -> Nat]
    BY <1>1 DEF NetTypes
  <2> HIDE DEF kept
  <2> QED BY <1>0, <2>1
<1> HIDE DEF q
<1>7. CommandDone(n, c, q)
  <2> HIDE DEF c
  <2> QED BY <1>0, <1>3, <1>5 DEF CommandDone
<1>8. Kept(n)'
  <2>1. n \in tmp /\ n \notin stray => script # "veth" /\ n \in vpn
    BY <1>0, <1>1 DEF Kept
  <2> QED BY <1>0, <2>1 DEF Kept
<1>9. net[n] # 0 /\ Holding(n) => Holding(n)' \/ stale'[net[n]] = stale[net[n]] + 1
  <2> SUFFICES ASSUME net[n] # 0, Holding(n)
               PROVE  Holding(n)' \/ stale'[net[n]] = stale[net[n]] + 1
    OBVIOUS
  <2>0. net[n] \in Networks
    BY <1>1 DEF NetTypes
  <2>1. CASE c = "detect"
    BY <1>6, <2>0, <2>1
  <2>2. CASE c = "nat_del"
    <3>1. r.id = net[n]
      <4>1. ~Blind(script, r, net[n])
        BY <1>0 DEF Holding
      <4>2. script # "single" /\ r.pc = RouteDelAt(script) + 1
        BY <1>2a, <2>2
      <4>3. r.pc >= 3
        BY <4>2 DEF RouteDelAt
      <4> QED BY <1>2, <4>1, <4>2, <4>3 DEF Blind
    <3> QED BY <1>6, <2>0, <2>2, <3>1
  <2>3. CASE c = "ns_del"
    <3>1. run'[n] = NoRun
      <4> DEFINE l == Len(Program(script, r))
      <4>1. r.pc = l
        BY <1>2a, <2>3
      <4>2. r.pc \in Nat
        BY <1>1, RunShape
      <4> HIDE DEF l
      <4>3. ~(r.pc < l)
        BY <4>1, <4>2
      <4> QED BY <1>3, <4>3 DEF Moves, l
    <3> QED BY <3>1 DEF Holding
  <2>4. CASE c \in {"vpn_stop", "route_del"}
    <3>1. Holding(n)' <=> Holding(n)
      <4>1. q.id = IF c = "detect" THEN net[n] ELSE run[n].id
        BY <1>3, <2>4
      <4>2. net'[n] = net[n] /\ c \notin {"veth", "nat", "nat_del", "ns_del"}
        BY <1>0, <2>4
      <4> HIDE DEF c
      <4> QED BY <1>0, <1>1, <1>3, <4>1, <4>2, HoldingMoves
    <3> QED BY <3>1
  <2> QED BY <1>0, <2>1, <2>2, <2>3, <2>4
<1>10. Rules'
  <2>1. Rules
    BY DEF NetInv
  <2> QED BY <1>0, <1>1, <1>4, <1>5, <1>6, <1>9, <2>1, RulesPassed
<1>11. /\ users' \in [Names -> {None, "polite", "stubborn"}] /\ tmp' \subseteq Names
       /\ stray' \subseteq Names /\ c = Cmd(n) /\ c \notin {"add", "veth"}
  BY <1>0, <1>1 DEF NetTypes
<1> HIDE DEF c
<1> QED BY <1>0, <1>3, <1>5, <1>6, <1>7, <1>8, <1>10, <1>11, QuietMove

\* A command that changes what the kernel has for its namespace only.
LEMMA LocalMove ==
  ASSUME NetInv, NEW n \in Names, run[n] # NoRun, NEW c, c = Cmd(n),
         NEW q, Moves(n, q), CommandDone(n, c, q) \/ run'[n] = NoRun,
         UNCHANGED <<script, tmp, users, nruns, faults, stale, stray>>,
         \A m \in Names \ {n} : /\ net'[m] = net[m] /\ (m \in ns' <=> m \in ns)
                                /\ (m \in vpn' <=> m \in vpn) /\ (phys' = m <=> phys = m),
         ns' \subseteq Names, vpn' \subseteq Names, phys' \in Names \cup {"host"},
         net' \in [Names -> {0} \cup Networks], route' \in [Networks -> Names \cup {None}],
         nat' \in [Networks -> Nat],
         Place(n)', Kept(n)'
  PROVE  /\ NetTypes' /\ RunsOnly(n)
         /\ \A m \in Names : RunOK(m)' /\ Place(m)' /\ Kept(m)'
<1>0. /\ c = Program(script, run[n])[run[n].pc] /\ script \in Scripts
      /\ WellRun(script, run[n]) /\ NetTypes /\ RunOK(n) /\ Place(n)
  BY RunAt
<1>1. /\ RunsOnly(n)
      /\ run' = [m \in Names |-> run'[m]] /\ left' = [m \in Names |-> left'[m]]
  BY <1>0, OnlyThisRun
<1>2. NetTypes'
  BY <1>0, <1>1 DEF NetTypes
<1>3. ASSUME NEW m \in Names PROVE RunOK(m)' /\ Place(m)' /\ Kept(m)'
  <2>1. CASE m # n
    <3>1. RunOK(m) /\ Place(m) /\ Kept(m)
      BY DEF NetInv
    <3> QED BY <1>1, <2>1, <3>1, OthersKept DEF RunsOnly
  <2>2. CASE m = n
    <3>1. CASE run'[n] = NoRun
      BY <2>2, <3>1 DEF RunOK
    <3>2. CASE CommandDone(n, c, q)
      BY <1>0, <2>2, <3>2, RunMoves
    <3> QED BY <3>1, <3>2
  <2> QED BY <2>1, <2>2
<1> QED BY <1>1, <1>2, <1>3

\* The facts an up's command starts from.
LEMMA CreateAt ==
  ASSUME NetInv, NEW n \in Names, Create(n), NEW c, c = Cmd(n)
  PROVE  /\ c \in {"add", "veth", "route", "nat", "move", "wg_up", "wg_up_kept"}
         /\ run[n] # NoRun /\ run[n].op = "up" /\ script \in Scripts /\ WellRun(script, run[n])
         /\ c = Program(script, run[n])[run[n].pc] /\ run[n].pc \in Nat
         /\ NetTypes /\ RunOK(n) /\ Place(n) /\ Kept(n) /\ UpDone(n, run[n])
         /\ UNCHANGED <<script, tmp, users, reused, nruns, faults, stale, stray>>
         /\ c = "add" <=> run[n].pc = 3
         /\ c = "veth" <=> run[n].pc = 4 /\ VethRun(script, run[n])
         /\ c = "nat" <=> run[n].pc = NatAt(script) /\ VethRun(script, run[n])
         /\ c = "route" => run[n].pc >= 5 /\ VethRun(script, run[n])
         /\ c = "move" => run[n].pc >= 4 /\ ~VethRun(script, run[n])
         /\ c \in {"wg_up", "wg_up_kept"} => run[n].pc >= 8
         /\ c = "wg_up" => script # "veth"
<1>0. /\ c \in {"add", "veth", "route", "nat", "move", "wg_up", "wg_up_kept"} /\ run[n] # NoRun
      /\ UNCHANGED <<script, tmp, users, reused, nruns, faults, stale, stray>>
  BY DEF Create, faultVars
<1>1. /\ c = Program(script, run[n])[run[n].pc] /\ script \in Scripts
      /\ WellRun(script, run[n]) /\ NetTypes /\ RunOK(n) /\ Place(n) /\ Kept(n)
      /\ run[n].op \in {"up", "down"} /\ UpDone(n, run[n]) /\ run[n].pc \in Nat
  BY <1>0, RunAt
<1>2. run[n].op = "up"
  <2>1. run[n].op = "down" =>
          c \in {"present", "detect", "vpn_stop", "rmtmp", "pids", "kill", "kill_or_fail",
                 "route_del", "nat_del", "ns_del"}
    BY <1>1, DownAt
  <2> QED BY <1>0, <1>1, <2>1
<1>3. /\ c = "add" <=> run[n].pc = 3
      /\ c = "veth" <=> run[n].pc = 4 /\ VethRun(script, run[n])
      /\ c = "nat" <=> run[n].pc = NatAt(script) /\ VethRun(script, run[n])
      /\ c = "route" => run[n].pc \in 5 .. NatAt(script) - 1 /\ VethRun(script, run[n])
      /\ c = "move" => run[n].pc >= 4 /\ ~VethRun(script, run[n])
      /\ c \in {"wg_up", "wg_up_kept"} => run[n].pc >= 8
      /\ c = "wg_up" => script # "veth"
  BY <1>1, <1>2, UpAt
<1>4. c = "route" => run[n].pc >= 5
  BY <1>1, <1>3 DEF NatAt
<1> QED BY <1>0, <1>1, <1>2, <1>3, <1>4

\* The namespace is made.
LEMMA StepAdd ==
  ASSUME NetInv, NEW n \in Names, Create(n), Cmd(n) = "add"
  PROVE  NetInv'
<1> DEFINE c == Cmd(n)
           r == run[n]
<1>0. /\ c = "add" /\ r # NoRun /\ r.op = "up" /\ script \in Scripts /\ WellRun(script, r)
      /\ c = Program(script, r)[r.pc] /\ r.pc = 3
      /\ NetTypes /\ RunOK(n) /\ Place(n) /\ Kept(n) /\ UpDone(n, r)
      /\ UNCHANGED <<script, tmp, users, reused, nruns, faults, stale, stray>>
  BY CreateAt
<1>1. ns' = ns \cup {n} /\ UNCHANGED <<net, route, nat, phys, vpn>>
  BY <1>0 DEF Create
<1>2. Moves(n, r)
  <2>1. Go(n, r)
    BY <1>0 DEF Create, Holds
  <2> QED BY <1>0, <2>1, GoSame
<1>3. n \notin ns /\ net[n] = 0
  BY <1>0 DEF UpDone
<1>4. CommandDone(n, c, r)
  <2> HIDE DEF c
  <2> QED BY <1>0, <1>1 DEF CommandDone
<1>5. Place(n)' /\ Kept(n)'
  BY <1>0, <1>1 DEF Place, Kept
<1> HIDE DEF c, r
<1>6. /\ ns' \subseteq Names /\ vpn' \subseteq Names /\ phys' \in Names \cup {"host"}
      /\ net' \in [Names -> {0} \cup Networks] /\ route' \in [Networks -> Names \cup {None}]
      /\ nat' \in [Networks -> Nat]
  BY <1>0, <1>1 DEF NetTypes
<1>7. /\ NetTypes' /\ RunsOnly(n)
      /\ \A m \in Names : RunOK(m)' /\ Place(m)' /\ Kept(m)'
  <2>1. \A m \in Names \ {n} : /\ net'[m] = net[m] /\ (m \in ns' <=> m \in ns)
                               /\ (m \in vpn' <=> m \in vpn) /\ (phys' = m <=> phys = m)
    BY <1>1
  <2> QED BY <1>0, <1>2, <1>4, <1>5, <1>6, <2>1, LocalMove DEF c, r
<1>8. Rules'
  <2>1. Rules
    BY DEF NetInv
  <2> QED BY <1>0, <1>1, <1>3, <1>7, <2>1, RulesKept
<1> QED BY <1>7, <1>8 DEF NetInv

\* The veth pair is made: its network is the one counted, and a route comes
\* with it where there is none.
LEMMA StepVeth ==
  ASSUME NetInv, NEW n \in Names, Create(n), Cmd(n) = "veth"
  PROVE  NetInv'
<1> DEFINE c == Cmd(n)
           r == run[n]
<1>0. /\ c = "veth" /\ r # NoRun /\ r.op = "up" /\ script \in Scripts /\ WellRun(script, r)
      /\ c = Program(script, r)[r.pc] /\ r.pc = 4 /\ VethRun(script, r)
      /\ NetTypes /\ RunOK(n) /\ Place(n) /\ Kept(n) /\ UpDone(n, r)
      /\ UNCHANGED <<script, tmp, users, reused, nruns, faults, stale, stray>>
  BY CreateAt
<1>1. /\ net' = [net EXCEPT ![n] = r.id] /\ UNCHANGED <<ns, nat, phys, vpn>>
      /\ route' = IF route[r.id] = None THEN [route EXCEPT ![r.id] = n] ELSE route
  BY <1>0 DEF Create
<1>2. Moves(n, r)
  <2>1. Go(n, r)
    BY <1>0 DEF Create, Holds
  <2> QED BY <1>0, <2>1, GoSame
<1>3. n \in ns /\ net[n] = 0 /\ r.id \in Networks /\ phys # n /\ script # "single"
  BY <1>0 DEF UpDone, VethRun
<1>4. net'[n] = r.id /\ \A m \in Names \ {n} : net'[m] = net[m]
  BY <1>0, <1>1 DEF NetTypes
<1>5. CommandDone(n, c, r)
  <2> HIDE DEF c
  <2> QED BY <1>0, <1>1, <1>4 DEF CommandDone
<1>6. Place(n)' /\ Kept(n)'
  BY <1>0, <1>1, <1>3 DEF Place, Kept
<1> HIDE DEF c, r
<1>7. /\ ns' \subseteq Names /\ vpn' \subseteq Names /\ phys' \in Names \cup {"host"}
      /\ net' \in [Names -> {0} \cup Networks] /\ route' \in [Networks -> Names \cup {None}]
      /\ nat' \in [Networks -> Nat]
  BY <1>0, <1>1, <1>3 DEF NetTypes
<1>8. /\ NetTypes' /\ RunsOnly(n)
      /\ \A m \in Names : RunOK(m)' /\ Place(m)' /\ Kept(m)'
  <2>1. \A m \in Names \ {n} : /\ net'[m] = net[m] /\ (m \in ns' <=> m \in ns)
                               /\ (m \in vpn' <=> m \in vpn) /\ (phys' = m <=> phys = m)
    BY <1>1, <1>4
  <2> QED BY <1>0, <1>2, <1>5, <1>6, <1>7, <2>1, LocalMove DEF c, r
<1>9. r.pc < Len(Program(script, r)) /\ run'[n].pc = 5 /\ run'[n].op = "up" /\ run'[n] # NoRun
      /\ run'[n].id = r.id /\ VethRun(script, run'[n])
  <2>1. Len(Program(script, r)) \in Nat /\ Len(Program(script, r)) >= 7
    BY <1>0, UpAt
  <2>2. r.pc < Len(Program(script, r)) /\ r.pc # Len(Program(script, r))
    <3> DEFINE l == Len(Program(script, r))
    <3>1. l \in Nat /\ l >= 7 /\ r.pc = 4
      BY <1>0, <2>1
    <3> HIDE DEF l
    <3>2. r.pc < l /\ r.pc # l
      BY <3>1
    <3> QED BY <3>2 DEF l
  <2>3. WellRun(script, run'[n]) /\ run'[n].pc = 5 /\ run'[n].op = "up" /\ run'[n].id = r.id
        /\ run'[n].iface = r.iface
    BY <1>0, <1>2, <2>2 DEF Moves, r
  <2> QED BY <1>0, <2>2, <2>3, RunShape DEF VethRun
<1>10. Rules'
  <2> SUFFICES ASSUME NEW i \in Networks
               PROVE  /\ nat'[i] <= Cardinality(Ruled(i)') + stale'[i]
                      /\ faults' = 0 => Cardinality(Ruled(i)') <= nat'[i]
    BY DEF Rules
  <2>1. i # 0
    BY Counts
  <2>2. ~Holding(n)'
    <3>1. Pending(script, run'[n])
      BY <1>9 DEF Pending, NatAt
    <3> QED BY <1>0, <1>9, <3>1 DEF Holding
  <2>3. Ruled(i)' = Ruled(i)
    <3>1. n \notin Ruled(i) /\ n \notin Ruled(i)'
      BY <1>3, <2>1, <2>2 DEF Ruled
    <3>2. \A m \in Names \ {n} : m \in Ruled(i)' <=> m \in Ruled(i)
      BY <1>0, <1>4, <1>8 DEF Ruled, RunsOnly, Holding
    <3> QED BY <3>1, <3>2 DEF Ruled
  <2> QED BY <1>0, <1>1, <2>3 DEF NetInv, Rules
<1> QED BY <1>8, <1>10 DEF NetInv

\* A command that leaves the namespaces and their networks as they are.
LEMMA HostMove ==
  ASSUME NetInv, NEW n \in Names, run[n] # NoRun, NEW c, c = Cmd(n), Moves(n, run[n]),
         c \in {"route", "nat", "move", "wg_up", "wg_up_kept", "vpn_stop", "route_del", "nat_del"},
         UNCHANGED <<script, ns, net, tmp, users, nruns, faults, stale, stray>>,
         \A m \in Names \ {n} : (m \in vpn' <=> m \in vpn) /\ (phys' = m <=> phys = m),
         vpn' \subseteq Names, phys' \in Names \cup {"host"},
         route' \in [Networks -> Names \cup {None}], nat' \in [Networks -> Nat],
         n \in vpn' => n \in ns /\ (run[n].op = "up" \/ (n \in vpn /\ c # "vpn_stop")),
         phys' = n => phys = n \/ (c = "move" /\ n \in ns /\ net[n] = 0),
         Kept(n)', Rules'
  PROVE  NetInv'
<1>0. /\ c = Program(script, run[n])[run[n].pc] /\ script \in Scripts
      /\ WellRun(script, run[n]) /\ NetTypes /\ RunOK(n) /\ Place(n)
  BY RunAt
<1>1. CommandDone(n, c, run[n])
  BY DEF CommandDone
<1>2. Place(n)'
  BY <1>0 DEF Place
<1>3. ns' \subseteq Names /\ net' \in [Names -> {0} \cup Networks]
  BY <1>0 DEF NetTypes
<1>4. /\ NetTypes' /\ RunsOnly(n)
      /\ \A m \in Names : RunOK(m)' /\ Place(m)' /\ Kept(m)'
  BY <1>1, <1>2, <1>3, LocalMove
<1> QED BY <1>4 DEF NetInv

\* A command moves on when nothing it checks is in its way.
LEMMA CreateMoves ==
  ASSUME NetInv, NEW n \in Names, Create(n), Cmd(n) # "move" \/ phys = "host"
  PROVE  Moves(n, run[n])
<1>1. /\ Cmd(n) \in {"add", "veth", "route", "nat", "move", "wg_up", "wg_up_kept"}
      /\ NetTypes /\ WellRun(script, run[n])
  BY CreateAt
<1>2. Holds(n)
  BY <1>1 DEF Holds
<1>3. Go(n, run[n])
  BY <1>2 DEF Create
<1> QED BY <1>1, <1>3, GoSame

\* "ip route replace" takes the route over.
LEMMA StepRoute ==
  ASSUME NetInv, NEW n \in Names, Create(n), Cmd(n) = "route"
  PROVE  NetInv'
<1> DEFINE r == run[n]
<1>0. /\ r # NoRun /\ r.op = "up" /\ script \in Scripts /\ WellRun(script, r)
      /\ Cmd(n) = Program(script, r)[r.pc] /\ r.pc \in Nat /\ r.pc >= 5 /\ VethRun(script, r)
      /\ NetTypes /\ Place(n) /\ Kept(n) /\ UpDone(n, r)
      /\ UNCHANGED <<script, tmp, users, reused, nruns, faults, stale, stray>>
  BY CreateAt
<1>1. /\ route' = [route EXCEPT ![r.id] = n] /\ UNCHANGED <<ns, net, nat, phys, vpn>>
  BY DEF Create
<1>2. Moves(n, r)
  BY CreateMoves
<1> HIDE DEF r
<1>3. net[n] = r.id /\ script # "single" /\ r.id \in Networks
  BY <1>0 DEF UpDone, VethRun
<1>4. route' \in [Networks -> Names \cup {None}]
  BY <1>0, <1>1, <1>3 DEF NetTypes
<1>5. Kept(n)'
  BY <1>0, <1>1 DEF Kept, r
<1>6. Rules'
  BY <1>0, <1>1, <1>2, QuietRules DEF r
<1>7. vpn' \subseteq Names /\ phys' \in Names \cup {"host"} /\ nat' \in [Networks -> Nat]
      /\ (n \in vpn' => n \in ns)
  BY <1>0, <1>1 DEF NetTypes, Place
<1> QED BY <1>0, <1>1, <1>2, <1>4, <1>5, <1>6, <1>7, HostMove DEF r

\* The rule is made: its namespace is no longer without.
LEMMA StepNat ==
  ASSUME NetInv, NEW n \in Names, Create(n), Cmd(n) = "nat"
  PROVE  NetInv'
<1> DEFINE r == run[n]
<1>0. /\ r # NoRun /\ r.op = "up" /\ script \in Scripts /\ WellRun(script, r)
      /\ Cmd(n) = Program(script, r)[r.pc] /\ r.pc = NatAt(script) /\ VethRun(script, r)
      /\ NetTypes /\ Place(n) /\ Kept(n) /\ UpDone(n, r)
      /\ UNCHANGED <<script, tmp, users, reused, nruns, faults, stale, stray>>
  BY CreateAt
<1>1. /\ nat' = [nat EXCEPT ![r.id] = @ + 1] /\ UNCHANGED <<ns, net, route, phys, vpn>>
  BY DEF Create
<1>2. Moves(n, r) /\ RunsOnly(n)
  BY <1>0, CreateMoves, OnlyThisRun
<1> HIDE DEF r
<1>3. net[n] = r.id /\ script # "single" /\ r.id \in Networks
  BY <1>0 DEF UpDone, VethRun, NatAt
<1>4. /\ nat' \in [Networks -> Nat] /\ nat'[r.id] = nat[r.id] + 1
      /\ \A i \in Networks : i # r.id => nat'[i] = nat[i]
  BY <1>0, <1>1, <1>3 DEF NetTypes
<1>5. Kept(n)'
  BY <1>0, <1>1 DEF Kept, r
<1>6. Rules'
  <2> SUFFICES ASSUME NEW i \in Networks
               PROVE  /\ nat'[i] <= Cardinality(Ruled(i)') + stale'[i]
                      /\ faults' = 0 => Cardinality(Ruled(i)') <= nat'[i]
    BY DEF Rules
  <2>0. /\ nat[i] <= Cardinality(Ruled(i)) + stale[i] /\ nat[i] \in Nat /\ stale[i] \in Nat
        /\ stale'[i] = stale[i] /\ faults' = faults
        /\ faults = 0 => Cardinality(Ruled(i)) <= nat[i]
    BY <1>0 DEF NetInv, Rules, NetTypes
  <2>1. ~Holding(n)
    <3>1. Pending(script, r)
      BY <1>0 DEF Pending, NatAt
    <3> QED BY <1>0, <3>1 DEF Holding, r
  <2>2. Holding(n)'
    <3>1. run'[n] # NoRun => ~Pending(script, run'[n]) /\ run'[n].op = "up"
      BY <1>0, <1>2 DEF Moves, Pending, VethRun, NatAt, r
    <3> QED BY <1>0, <3>1 DEF Holding, Blind
  <2>3. Ruled(i)' = IF i = r.id THEN Ruled(i) \cup {n} ELSE Ruled(i)
    <3>1. \A m \in Names \ {n} : Holding(m)' <=> Holding(m)
      BY <1>0, <1>1, <1>2 DEF RunsOnly, Holding
    <3> QED BY <1>0, <1>1, <1>3, <2>1, <2>2, <3>1 DEF Ruled
  <2>4. n \notin Ruled(i) /\ IsFiniteSet(Ruled(i)) /\ Cardinality(Ruled(i)) \in Nat
    BY <2>1, Counts DEF Ruled
  <2>5. CASE i = r.id
    <3>1. Cardinality(Ruled(i)') = Cardinality(Ruled(i)) + 1
      BY <2>3, <2>4, <2>5, FS_AddElement
    <3> QED BY <1>4, <2>0, <2>4, <2>5, <3>1
  <2>6. CASE i # r.id
    BY <1>4, <2>0, <2>3, <2>6
  <2> QED BY <2>5, <2>6
<1>7. /\ vpn' \subseteq Names /\ phys' \in Names \cup {"host"}
      /\ route' \in [Networks -> Names \cup {None}] /\ (n \in vpn' => n \in ns)
  BY <1>0, <1>1 DEF NetTypes, Place
<1> QED BY <1>0, <1>1, <1>2, <1>4, <1>5, <1>6, <1>7, HostMove DEF r

\* The physical interface is moved, unless it has gone meanwhile.
LEMMA StepMove ==
  ASSUME NetInv, NEW n \in Names, Create(n), Cmd(n) = "move"
  PROVE  NetInv'
<1> DEFINE r == run[n]
<1>0. /\ r # NoRun /\ r.op = "up" /\ script \in Scripts /\ WellRun(script, r)
      /\ Cmd(n) = Program(script, r)[r.pc] /\ r.pc \in Nat /\ r.pc >= 4 /\ ~VethRun(script, r)
      /\ NetTypes /\ Place(n) /\ Kept(n) /\ UpDone(n, r)
      /\ UNCHANGED <<script, tmp, users, reused, nruns, faults, stale, stray>>
  BY CreateAt
<1>1. /\ phys' = IF phys = "host" THEN n ELSE phys
      /\ UNCHANGED <<ns, net, route, nat, vpn>>
  BY DEF Create, Holds
<1>2. n \in ns /\ net[n] = 0
  BY <1>0 DEF UpDone, VethRun, Place
<1>3. CASE phys = "host"
  <2>1. Moves(n, r) /\ RunsOnly(n)
    BY <1>0, <1>3, CreateMoves, OnlyThisRun
  <2> HIDE DEF r
  <2>2. Kept(n)'
    BY <1>0, <1>1 DEF Kept, r
  <2>3. Rules'
    <3>1. Rules
      BY DEF NetInv
    <3> QED BY <1>0, <1>1, <1>2, <2>1, <3>1, RulesKept
  <2>4. /\ vpn' \subseteq Names /\ phys' \in Names \cup {"host"} /\ nat' \in [Networks -> Nat]
        /\ route' \in [Networks -> Names \cup {None}] /\ (n \in vpn' => n \in ns)
    BY <1>0, <1>1 DEF NetTypes, Place
  <2>5. \A m \in Names \ {n} : phys' = m <=> phys = m
    BY <1>1, <1>3, NetnsAssumption
  <2> QED BY <1>0, <1>1, <1>2, <2>1, <2>2, <2>3, <2>4, <2>5, HostMove DEF r
<1>4. CASE phys # "host"
  <2>1. Stops(n)
    <3>1. Abort(n)
      BY <1>4 DEF Create, Holds
    <3> QED BY <1>0, <3>1, AbortStops
  <2>2. /\ n \in tmp /\ n \notin stray => script # "veth" /\ n \in vpn
        /\ Holding(n)
    BY <1>0 DEF Holding, Pending, Blind, Kept
  <2>3. tmp' \subseteq Names /\ stray' \subseteq Names /\ users' \in [Names -> {None, "polite", "stubborn"}]
        /\ faults' \in 0 .. MaxFaults
    BY <1>0 DEF NetTypes
  <2> QED BY <1>0, <1>1, <1>2, <1>4, <2>1, <2>2, <2>3, QuietStop
<1> QED BY <1>3, <1>4

\* The VPN comes up.
LEMMA StepWgUp ==
  ASSUME NetInv, NEW n \in Names, Create(n), Cmd(n) \in {"wg_up", "wg_up_kept"}
  PROVE  NetInv'
<1> DEFINE r == run[n]
<1>0. /\ r # NoRun /\ r.op = "up" /\ script \in Scripts /\ WellRun(script, r)
      /\ Cmd(n) = Program(script, r)[r.pc] /\ r.pc \in Nat /\ r.pc >= 8
      /\ NetTypes /\ Place(n) /\ Kept(n) /\ UpDone(n, r)
      /\ UNCHANGED <<script, tmp, users, reused, nruns, faults, stale, stray>>
  BY CreateAt
<1>1. vpn' = vpn \cup {n} /\ UNCHANGED <<ns, net, route, nat, phys>>
  BY DEF Create
<1>2. Moves(n, r) /\ RunsOnly(n)
  BY <1>0, CreateMoves, OnlyThisRun
<1> HIDE DEF r
<1>3. n \in ns
  BY <1>0 DEF UpDone
<1>4. Kept(n)'
  <2>1. CASE Cmd(n) = "wg_up"
    <3>1. script # "veth"
      BY <2>1, CreateAt
    <3> QED BY <1>0, <1>1, <3>1 DEF Kept
  <2>2. CASE Cmd(n) = "wg_up_kept"
    <3>1. ASSUME NEW p, p = Program(script, run[n])
          PROVE  run'[n] # NoRun /\ Program(script, run'[n])[run'[n].pc] = "rmtmp"
      <4>1. WellRun(script, run[n]) /\ run[n].op = "up" /\ p[run[n].pc] = "wg_up_kept"
        BY <1>0, <2>2, <3>1 DEF r
      <4>2. run[n].pc < Len(p) /\ p[run[n].pc + 1] = "rmtmp" /\ Len(p) \in Nat
        BY <1>0, <3>1, <4>1, UpAt
      <4> QED BY <1>2, <3>1, <4>1, <4>2, NextCommand DEF r
    <3> QED BY <1>0, <3>1 DEF Kept
  <2> QED BY <2>1, <2>2
<1>5. Rules'
  BY <1>0, <1>1, <1>2, QuietRules DEF r
<1>6. /\ vpn' \subseteq Names /\ phys' \in Names \cup {"host"} /\ nat' \in [Networks -> Nat]
      /\ route' \in [Networks -> Names \cup {None}]
  BY <1>0, <1>1 DEF NetTypes
<1> QED BY <1>0, <1>1, <1>2, <1>3, <1>4, <1>5, <1>6, HostMove DEF r

\* The facts a down's command starts from.
LEMMA DestroyAt ==
  ASSUME NetInv, NEW n \in Names, Destroy(n), NEW c, c = Cmd(n)
  PROVE  /\ c \in {"vpn_stop", "route_del", "nat_del", "ns_del"}
         /\ run[n] # NoRun /\ run[n].op = "down" /\ script \in Scripts /\ WellRun(script, run[n])
         /\ c = Program(script, run[n])[run[n].pc] /\ run[n].pc \in Nat /\ run[n].id \in Nat
         /\ NetTypes /\ RunOK(n) /\ Place(n) /\ Kept(n) /\ DownDone(n, run[n])
         /\ UNCHANGED <<script, tmp, users, nruns, faults, stale, stray>>
         /\ Moves(n, run[n]) /\ RunsOnly(n)
         /\ Len(Program(script, run[n])) = IF script = "single" THEN 8 ELSE RouteDelAt(script) + 2
         /\ c = "vpn_stop" /\ script # "veth" =>
              /\ run[n].pc < Len(Program(script, run[n]))
              /\ Program(script, run[n])[run[n].pc + 1] = "rmtmp"
         /\ c = "route_del" <=> script # "single" /\ run[n].pc = RouteDelAt(script)
         /\ c = "nat_del" <=> script # "single" /\ run[n].pc = RouteDelAt(script) + 1
         /\ c = "ns_del" <=> run[n].pc = Len(Program(script, run[n]))
<1>0. /\ c \in {"vpn_stop", "route_del", "nat_del", "ns_del"} /\ run[n] # NoRun
      /\ UNCHANGED <<script, tmp, users, nruns, faults, stale, stray>> /\ Go(n, run[n])
  BY DEF Destroy, faultVars
<1>1. /\ c = Program(script, run[n])[run[n].pc] /\ script \in Scripts
      /\ WellRun(script, run[n]) /\ NetTypes /\ RunOK(n) /\ Place(n) /\ Kept(n)
      /\ run[n].op \in {"up", "down"} /\ DownDone(n, run[n]) /\ run[n].pc \in Nat
      /\ run[n].id \in Nat
  BY <1>0, RunAt
<1>2. run[n].op = "down"
  <2>1. run[n].op = "up" =>
          c \in {"absent", "iface", "resolve", "dns", "vpn_config", "default_route", "count",
                 "add", "veth", "route", "nat", "move", "wg_up", "wg_up_kept", "tmp", "rmtmp",
                 "empty_gateway"}
    BY <1>1, UpAt
  <2> QED BY <1>0, <1>1, <2>1
<1>3. Moves(n, run[n])
  BY <1>0, <1>1, GoSame
<1>4. RunsOnly(n)
  BY <1>1, <1>3, OnlyThisRun
<1>5. ASSUME NEW r, NEW p, r = run[n], p = Program(script, r)
      PROVE  /\ Len(p) = IF script = "single" THEN 8 ELSE RouteDelAt(script) + 2
             /\ c = "vpn_stop" /\ script # "veth" => r.pc < Len(p) /\ p[r.pc + 1] = "rmtmp"
  <2>1. script \in Scripts /\ WellRun(script, r) /\ r.op = "down" /\ c = p[r.pc]
        /\ p = Program(script, r)
    BY <1>1, <1>2, <1>5
  <2>2. c = "vpn_stop" /\ script # "veth" => r.pc < Len(p)
    BY ONLY <2>1, DownAt
  <2>3. c = "vpn_stop" /\ script # "veth" => p[r.pc + 1] = "rmtmp"
    BY ONLY <2>1, DownAt
  <2>4. Len(p) = IF script = "single" THEN 8 ELSE RouteDelAt(script) + 2
    BY ONLY <2>1, DownAt
  <2> QED BY ONLY <2>2, <2>3, <2>4
<1>6. /\ Len(Program(script, run[n])) = IF script = "single" THEN 8 ELSE RouteDelAt(script) + 2
      /\ c = "vpn_stop" /\ script # "veth" =>
           /\ run[n].pc < Len(Program(script, run[n]))
           /\ Program(script, run[n])[run[n].pc + 1] = "rmtmp"
  BY ONLY <1>5
<1>7. /\ c = "route_del" <=> script # "single" /\ run[n].pc = RouteDelAt(script)
      /\ c = "nat_del" <=> script # "single" /\ run[n].pc = RouteDelAt(script) + 1
      /\ c = "ns_del" <=> run[n].pc = Len(Program(script, run[n]))
  BY <1>1, <1>2, DownAt
<1> QED BY <1>0, <1>1, <1>2, <1>3, <1>4, <1>6, <1>7

\* The VPN is taken down; its configuration goes next.
LEMMA StepVpnStop ==
  ASSUME NetInv, NEW n \in Names, Destroy(n), Cmd(n) = "vpn_stop"
  PROVE  NetInv'
<1> DEFINE r == run[n]
<1>0. /\ r # NoRun /\ script \in Scripts /\ WellRun(script, r)
      /\ Cmd(n) = Program(script, r)[r.pc]
      /\ NetTypes /\ Place(n) /\ Kept(n) /\ r.op = "down" /\ UNCHANGED <<script, tmp, users, nruns, faults, stale, stray>>
      /\ Moves(n, r) /\ RunsOnly(n)
  BY DestroyAt
<1>1. vpn' = vpn \ {n} /\ UNCHANGED <<ns, net, route, nat, phys>>
  BY DEF Destroy
<1>2. Kept(n)'
  <2>1. CASE script = "veth"
    BY <1>0, <1>1, <2>1 DEF Kept
  <2>2. CASE script # "veth"
    <3>1. ASSUME NEW p, p = Program(script, run[n])
          PROVE  run'[n] # NoRun /\ Program(script, run'[n])[run'[n].pc] = "rmtmp"
      <4>1. /\ Len(p) = IF script = "single" THEN 8 ELSE RouteDelAt(script) + 2
            /\ run[n].pc < Len(p) /\ p[run[n].pc + 1] = "rmtmp"
        BY <2>2, <3>1, DestroyAt
      <4>2. Len(p) \in Nat
        BY <4>1 DEF RouteDelAt
      <4> QED BY <1>0, <3>1, <4>1, <4>2, NextCommand
    <3> QED BY <1>0, <3>1 DEF Kept
  <2> QED BY <2>1, <2>2
<1> HIDE DEF r
<1>3. Rules'
  BY <1>0, <1>1, QuietRules DEF r
<1>4. /\ vpn' \subseteq Names /\ phys' \in Names \cup {"host"} /\ nat' \in [Networks -> Nat]
      /\ route' \in [Networks -> Names \cup {None}]
  BY <1>0, <1>1 DEF NetTypes
<1> QED BY <1>0, <1>1, <1>2, <1>3, <1>4, HostMove DEF r

\* The route that is left leads to a namespace, or there is none.
LEMMA RouteLeft ==
  ASSUME NetTypes, NEW n \in Names, NEW i \in Networks
  PROVE  RouteWithout(n, i) \in Names \cup {None}
<1> DEFINE others == {m \in Names \ {n} : net[m] = i}
<1>1. CASE route[i] # n
  BY <1>1 DEF RouteWithout, NetTypes
<1>2. CASE route[i] = n /\ others = {}
  BY <1>2 DEF RouteWithout
<1>3. CASE route[i] = n /\ others # {}
  <2>1. RouteWithout(n, i) = CHOOSE m \in others : TRUE
    BY <1>3 DEF RouteWithout
  <2> QED BY <1>3, <2>1
<1> QED BY <1>1, <1>2, <1>3

\* The route is deleted, by network and device.
LEMMA StepRouteDel ==
  ASSUME NetInv, NEW n \in Names, Destroy(n), Cmd(n) = "route_del"
  PROVE  NetInv'
<1> DEFINE r == run[n]
<1>0. /\ r # NoRun /\ r.op = "down" /\ script \in Scripts /\ script # "single"
      /\ WellRun(script, r) /\ Cmd(n) = Program(script, r)[r.pc] /\ r.pc = RouteDelAt(script)
      /\ Len(Program(script, r)) = RouteDelAt(script) + 2 /\ r.id \in Nat
      /\ NetTypes /\ Place(n) /\ Kept(n) /\ DownDone(n, r)
      /\ UNCHANGED <<script, tmp, users, nruns, faults, stale, stray>>
      /\ Moves(n, r) /\ RunsOnly(n)
  BY DestroyAt
<1>1. /\ UNCHANGED <<ns, net, nat, phys, vpn>>
      /\ route' = IF r.id # 0 THEN [route EXCEPT ![r.id] = RouteWithout(n, r.id)] ELSE route
  BY DEF Destroy
<1>2. r.id \in {0} \cup Networks
  BY <1>0 DEF DownDone, NetTypes, RouteDelAt
<1> HIDE DEF r
<1>3. route' \in [Networks -> Names \cup {None}]
  <2>1. route \in [Networks -> Names \cup {None}]
    BY <1>0 DEF NetTypes
  <2>2. r.id # 0 => RouteWithout(n, r.id) \in Names \cup {None}
    BY <1>0, <1>2, RouteLeft
  <2> QED BY <1>1, <1>2, <2>1, <2>2
<1>4. Kept(n)'
  BY <1>0, <1>1 DEF Kept, r
<1>5. Rules'
  BY <1>0, <1>1, QuietRules DEF r
<1>6. /\ vpn' \subseteq Names /\ phys' \in Names \cup {"host"} /\ nat' \in [Networks -> Nat]
      /\ (n \in vpn' => n \in ns)
  BY <1>0, <1>1 DEF NetTypes, Place
<1> QED BY <1>0, <1>1, <1>3, <1>4, <1>5, <1>6, HostMove DEF r

\* The rule is deleted, by network: the namespace is without one from here.  A
\* down that could not read the network deletes none, and counts none.
LEMMA StepNatDel ==
  ASSUME NetInv, NEW n \in Names, Destroy(n), Cmd(n) = "nat_del"
  PROVE  NetInv'
<1> DEFINE r == run[n]
<1>0. /\ r # NoRun /\ r.op = "down" /\ script \in Scripts /\ script # "single"
      /\ WellRun(script, r) /\ Cmd(n) = Program(script, r)[r.pc]
      /\ r.pc = RouteDelAt(script) + 1
      /\ Len(Program(script, r)) = RouteDelAt(script) + 2 /\ r.id \in Nat
      /\ NetTypes /\ Place(n) /\ Kept(n) /\ DownDone(n, r)
      /\ UNCHANGED <<script, tmp, users, nruns, faults, stale, stray>>
      /\ Moves(n, r) /\ RunsOnly(n)
  BY DestroyAt
<1>1. /\ UNCHANGED <<ns, net, route, phys, vpn>>
      /\ nat' = IF r.id # 0 /\ nat[r.id] > 0 THEN [nat EXCEPT ![r.id] = @ - 1] ELSE nat
  BY DEF Destroy
<1>2. (r.id = net[n] \/ (r.id = 0 /\ faults # 0)) /\ RouteDelAt(script) \in {8, 9}
  BY <1>0 DEF DownDone, RouteDelAt
<1>3. ~Holding(n)'
  <2>1. r.pc # Len(Program(script, r))
    BY <1>0, <1>2
  <2>2. WellRun(script, run'[n]) /\ run'[n].op = "down" /\ run'[n].pc = r.pc + 1
    BY <1>0, <2>1 DEF Moves
  <2>3. Pending(script, run'[n]) /\ run'[n] # NoRun
    BY <1>0, <1>2, <2>2, RunShape DEF Pending
  <2> QED BY <1>0, <2>3 DEF Holding
<1>4. Holding(n) <=> r.id = net[n]
  <2>1. ~Pending(script, r)
    BY <1>0, <1>2 DEF Pending, VethRun
  <2>2. Blind(script, r, net[n]) <=> r.id # net[n]
    BY <1>0, <1>2 DEF Blind
  <2> QED BY <1>0, <2>1, <2>2 DEF Holding
<1> HIDE DEF r
<1>5. /\ r.id \in {0} \cup Networks /\ 0 \notin Networks /\ nat \in [Networks -> Nat]
      /\ stale \in [Networks -> Nat]
  BY <1>0, <1>2, Counts DEF NetTypes
<1>6. /\ nat' \in [Networks -> Nat]
      /\ \A i \in Networks :
            nat'[i] = IF i = r.id /\ nat[i] > 0 THEN nat[i] - 1 ELSE nat[i]
  <2>1. r.id # 0 /\ nat[r.id] > 0 => nat[r.id] - 1 \in Nat
    BY <1>5
  <2> QED BY <1>1, <1>5, <2>1
<1>7. Kept(n)'
  BY <1>0, <1>1 DEF Kept, r
<1>8. Rules'
  <2> SUFFICES ASSUME NEW i \in Networks
               PROVE  /\ nat'[i] <= Cardinality(Ruled(i)') + stale'[i]
                      /\ faults' = 0 => Cardinality(Ruled(i)') <= nat'[i]
    BY DEF Rules
  <2>0. /\ nat[i] <= Cardinality(Ruled(i)) + stale[i] /\ nat[i] \in Nat /\ stale[i] \in Nat
        /\ stale'[i] = stale[i] /\ faults' = faults /\ i # 0
        /\ faults = 0 => Cardinality(Ruled(i)) <= nat[i]
    BY <1>0, <1>5 DEF NetInv, Rules
  <2>1. Ruled(i)' = Ruled(i) \ {n}
    <3>1. \A m \in Names \ {n} : Holding(m)' <=> Holding(m)
      BY <1>0, <1>1 DEF RunsOnly, Holding
    <3> QED BY <1>1, <1>3, <3>1 DEF Ruled
  <2>2. n \in Ruled(i) <=> i = r.id
    BY <1>2, <1>4, <2>0 DEF Ruled
  <2>3. IsFiniteSet(Ruled(i)) /\ Cardinality(Ruled(i)) \in Nat
    BY Counts DEF Ruled
  <2>4. Cardinality(Ruled(i)') = IF i = r.id THEN Cardinality(Ruled(i)) - 1
                                ELSE Cardinality(Ruled(i))
    BY <2>1, <2>2, <2>3, FS_RemoveElement
  <2>5. i = r.id => Cardinality(Ruled(i)') \in Nat
    <3>1. Ruled(i)' \subseteq Names
      BY <2>1 DEF Ruled
    <3> QED BY <3>1, Counts
  <2> QED BY <1>6, <2>0, <2>3, <2>4, <2>5
<1>9. /\ vpn' \subseteq Names /\ phys' \in Names \cup {"host"} /\ (n \in vpn' => n \in ns)
      /\ route' \in [Networks -> Names \cup {None}]
  BY <1>0, <1>1 DEF NetTypes, Place
<1> QED BY <1>0, <1>1, <1>6, <1>7, <1>8, <1>9, HostMove DEF r

\* The namespace is deleted and takes its veth pair and routes along; its rule
\* has gone before.
LEMMA StepNsDel ==
  ASSUME NetInv, NEW n \in Names, Destroy(n), Cmd(n) = "ns_del"
  PROVE  NetInv'
<1> DEFINE r == run[n]
<1>0. /\ r # NoRun /\ r.op = "down" /\ script \in Scripts
      /\ WellRun(script, r) /\ Cmd(n) = Program(script, r)[r.pc]
      /\ r.pc = Len(Program(script, r))
      /\ Len(Program(script, r)) = IF script = "single" THEN 8 ELSE RouteDelAt(script) + 2
      /\ NetTypes /\ Place(n) /\ Kept(n) /\ DownDone(n, r)
      /\ UNCHANGED <<script, tmp, users, nruns, faults, stale, stray>>
      /\ Moves(n, r) /\ RunsOnly(n)
  BY DestroyAt
<1>1. /\ route' = [i \in Networks |-> RouteWithout(n, i)] /\ ns' = ns \ {n}
      /\ net' = [net EXCEPT ![n] = 0] /\ phys' = IF phys = n THEN "host" ELSE phys
      /\ vpn' = vpn \ {n} /\ nat' = nat
  BY DEF Destroy
<1>2. r.pc = IF script = "single" THEN 8 ELSE RouteDelAt(script) + 2
  BY <1>0
<1>3. run'[n] = NoRun
  <2> DEFINE l == Len(Program(script, r))
  <2>1. l \in Nat /\ r.pc = l
    BY <1>0, <1>2 DEF RouteDelAt
  <2> HIDE DEF l
  <2>2. ~(r.pc < l)
    BY <2>1
  <2> QED BY <1>0, <2>2 DEF Moves, l
<1>4. users[n] = None /\ (script # "veth" => n \notin tmp)
  BY <1>0, <1>2 DEF DownDone, RouteDelAt, PidsAt, Scripts
<1>5. script # "single" => Pending(script, r)
  BY <1>0, <1>2 DEF Pending, RouteDelAt
<1> HIDE DEF r
<1>6. /\ net' \in [Names -> {0} \cup Networks] /\ net'[n] = 0
      /\ \A m \in Names \ {n} : net'[m] = net[m]
  BY <1>0, <1>1 DEF NetTypes
<1>7. route' \in [Networks -> Names \cup {None}]
  <2>1. \A i \in Networks : RouteWithout(n, i) \in Names \cup {None}
    BY <1>0, RouteLeft
  <2> QED BY <1>1, <2>1
<1>8. /\ ns' \subseteq Names /\ vpn' \subseteq Names /\ phys' \in Names \cup {"host"}
      /\ nat' \in [Networks -> Nat]
  BY <1>0, <1>1 DEF NetTypes
<1>9. Place(n)'
  BY <1>0, <1>1, <1>4, <1>6, NetnsAssumption DEF Place
<1>10. Kept(n)'
  BY <1>0, <1>1, <1>4 DEF Kept, r
<1>11. /\ NetTypes'
       /\ \A m \in Names : RunOK(m)' /\ Place(m)' /\ Kept(m)'
  <2>1. \A m \in Names \ {n} : /\ net'[m] = net[m] /\ (m \in ns' <=> m \in ns)
                               /\ (m \in vpn' <=> m \in vpn) /\ (phys' = m <=> phys = m)
    BY <1>1, <1>6, NetnsAssumption
  <2> QED BY <1>0, <1>3, <1>6, <1>7, <1>8, <1>9, <1>10, <2>1, LocalMove DEF r
<1>12. Rules'
  <2> SUFFICES ASSUME NEW i \in Networks
               PROVE  /\ nat'[i] <= Cardinality(Ruled(i)') + stale'[i]
                      /\ faults' = 0 => Cardinality(Ruled(i)') <= nat'[i]
    BY DEF Rules
  <2>1. n \notin Ruled(i)
    <3>1. script = "single" => net[n] = 0
      BY <1>0 DEF Place
    <3> QED BY <1>0, <1>5, <3>1, Counts DEF Ruled, Holding, r
  <2>2. n \notin Ruled(i)'
    BY <1>6, Counts DEF Ruled
  <2>3. Ruled(i)' = Ruled(i)
    <3>1. \A m \in Names \ {n} : m \in Ruled(i)' <=> m \in Ruled(i)
      BY <1>0, <1>6 DEF Ruled, RunsOnly, Holding
    <3> QED BY <2>1, <2>2, <3>1 DEF Ruled
  <2> QED BY <1>0, <1>1, <2>3 DEF NetInv, Rules
<1> QED BY <1>11, <1>12 DEF NetInv

-----------------------------------------------------------------------------
(* The scripts' theorems *)

\* Every step keeps the invariant.
LEMMA NetStep ==
  ASSUME NetInv, [Next]_vars
  PROVE  NetInv'
<1>1. CASE UNCHANGED vars
  <2>1. UNCHANGED <<script, ns, net, route, nat, phys, vpn, tmp, users, run, left, reused, nruns,
                    stale, stray, faults>>
    BY <1>1 DEF vars, kernel, faultVars
  <2>2. \A n \in Names : RunOK(n)' /\ Place(n)' /\ Kept(n)'
    BY <2>1 DEF NetInv, RunOK, UpDone, DownDone, Place, Kept
  <2>3. NetTypes'
    BY <2>1 DEF NetInv, NetTypes
  <2>4. Rules'
    BY <2>1 DEF NetInv, Rules, Ruled, Holding
  <2> QED BY <2>2, <2>3, <2>4 DEF NetInv
<1>2. CASE Next
  <2>0. PICK n \in Names : \/ Start(n) \/ UserStarts(n) \/ UserEnds(n) \/ Check(n) \/ Read(n)
                           \/ Create(n) \/ Config(n) \/ Kill(n) \/ EmptyGateway(n)
                           \/ Destroy(n) \/ Fault(n) \/ FailsUnnoticed(n)
    BY <1>2 DEF Next
  <2>1. CASE Create(n)
    <3>1. Cmd(n) \in {"add", "veth", "route", "nat", "move", "wg_up", "wg_up_kept"}
      BY <2>1 DEF Create
    <3> QED BY <2>1, <3>1, StepAdd, StepVeth, StepRoute, StepNat, StepMove, StepWgUp
  <2>2. CASE Destroy(n)
    <3>1. Cmd(n) \in {"vpn_stop", "route_del", "nat_del", "ns_del"}
      BY <2>2 DEF Destroy
    <3> QED BY <2>2, <3>1, StepVpnStop, StepRouteDel, StepNatDel, StepNsDel
  <2> QED BY <2>0, <2>1, <2>2, StepStart, StepUser, StepCheck, StepRead, StepConfig, StepKill,
             StepEmptyGateway, StepFault, StepUnnoticed
<1> QED BY <1>1, <1>2

\* The inductive invariant holds throughout.
LEMMA NetInvHolds == Spec => []NetInv
<1>1. Init => NetInv
  BY NetStart
<1>2. NetInv /\ [Next]_vars => NetInv'
  BY NetStep
<1> QED BY <1>1, <1>2, PTL DEF Spec

\* However the runs overlap and wherever they end, the host is left with no
\* MASQUERADE rule without a namespace of its network and with no VPN
\* configuration that no VPN uses, but for one per deletion that itself failed.
THEOREM LeftoverSafe == Spec => []LeftoverInv
<1>1. NetInv => LeftoverInv
  BY NetInvImplies
<1> QED BY <1>1, NetInvHolds, PTL

\* Although namespaces may share a network and a down deletes a rule by its
\* network, no down takes the rule of a namespace that is left: while no command
\* failed, a network has at least as many rules as namespaces at rest.
THEOREM KeepRulesSafe == Spec => []NamespacesKeepRules
<1>1. NetInv => NamespacesKeepRules
  BY NetInvImplies
<1> QED BY <1>1, NetInvHolds, PTL
=============================================================================
