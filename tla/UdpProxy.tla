------------------------------ MODULE UdpProxy ------------------------------
(***************************************************************************)
(* The UDP XOR proxies of src/python/udp_xor_proxy: "single"               *)
(* (udp_xor_proxy.c and udp_xor_proxy.py: two threads, one upstream        *)
(* socket, the last client gets the replies), "multi"                      *)
(* (udp_xor_proxy_multi.c: one thread, an upstream socket per client) and  *)
(* "cleanup" (udp_xor_proxy_multi_cleanup.c: a second thread closes idle   *)
(* clients).  The remote end knows the key and answers each datagram with  *)
(* what it decoded; the network loses and reorders.                        *)
(*                                                                         *)
(* A socket is a number that no open socket and no datagram under way has: *)
(* a reused descriptor is another socket.  A reply carries the client it   *)
(* answers.                                                                *)
(***************************************************************************)
EXTENDS Naturals, Sequences

CONSTANTS Clients,          \* client addresses
          Payloads,         \* datagrams: non-empty sequences of bytes
          Key,              \* the key, a non-empty sequence of bytes
          CLIENT_TIMEOUT,
          MaxSent, MaxTime  \* bounds: datagrams sent by clients, clock

NoClient == "none"

(* A byte by its bits.                                                     *)
Byte == [0 .. 7 -> {0, 1}]

ASSUME ProxyAssumption ==
    /\ Key \in Seq(Byte) /\ Len(Key) > 0
    /\ \A d \in Payloads : d \in Seq(Byte) /\ Len(d) > 0
    /\ NoClient \notin Clients
    /\ CLIENT_TIMEOUT \in Nat /\ MaxSent \in Nat /\ MaxTime \in Nat

VARIABLES
    variant,
    localQ,         \* datagrams at the listening socket: <<client, data>>
    upstream,       \* datagrams under way to the remote: <<socket, client, data>>
    waiting,        \* replies at the upstream sockets: <<socket, client, data>>
    open,           \* the open upstream sockets
    clients,        \* the list: records [addr, fd, seen]
    main,           \* the thread that reads the listening socket
    back,           \* single: remote_to_local_thread; cleanup: cleanup_thread
    last,           \* single: client_addr
    delivered,      \* what clients got: [to, for, data]
    heard,          \* history: the clients that client_addr has held
    sent, time

proxyVars == <<variant, localQ, upstream, waiting, open, clients, main, back, last,
               delivered, heard, sent, time>>

Idle == [at |-> "recv"]

(* The operator ^ of C and of python on two bytes.                         *)
Xor(a, b) == [j \in 0 .. 7 |-> (a[j] + b[j]) % 2]

xor_buffer(buf, key) ==
    [i \in 1 .. Len(buf) |-> Xor(buf[i], key[((i - 1) % Len(key)) + 1])]

(* The other end is the python proxy, for which no key means no mask.      *)
xor_bytes(data, key) ==
    IF key = <<>> THEN data
    ELSE LET k == Len(key) IN [i \in DOMAIN data |-> Xor(data[i], key[1 + ((i + k - 1) % k)])]

ProxyTypeOK ==
    /\ variant \in {"single", "multi", "cleanup"}
    /\ localQ \in Seq(Clients \X Payloads)
    /\ \A m \in upstream \union waiting : m[1] \in 0 .. MaxSent /\ m[2] \in Clients
    /\ open \subseteq 0 .. MaxSent
    /\ \A c \in clients : c.addr \in Clients /\ c.fd \in open /\ c.seen \in 0 .. time
    /\ \A c, d \in clients : c.addr = d.addr => c = d
    /\ main.at \in {"recv", "got", "have", "sent"}
    /\ back.at \in {"recv", "got", "now"}
    /\ last \in Clients \union {NoClient}
    /\ sent \in 0 .. MaxSent /\ time \in 0 .. MaxTime

(* main of "single" opens its one upstream socket and starts two threads;  *)
(* that of the others starts with an empty list.                           *)
SingleMain == variant = "single" /\ open = {0} /\ last = NoClient
MultiMain == variant \in {"multi", "cleanup"} /\ open = {} /\ last = NoClient

ProxyInit ==
    /\ SingleMain \/ MultiMain
    /\ localQ = <<>> /\ upstream = {} /\ waiting = {} /\ clients = {}
    /\ main = Idle /\ back = Idle
    /\ delivered = {} /\ heard = {} /\ sent = 0 /\ time = 0

----------------------------------------------------------------------------
(* The environment.                                                        *)

ClientSends(c, d) ==
    /\ sent < MaxSent
    /\ sent' = sent + 1
    /\ localQ' = Append(localQ, <<c, d>>)
    /\ UNCHANGED <<variant, upstream, waiting, open, clients, main, back, last,
                   delivered, heard, time>>

(* The remote decodes a datagram and answers with it; the answer is lost   *)
(* when the socket it is for has been closed.                              *)
RemoteAnswers(m) ==
    /\ upstream' = upstream \ {m}
    /\ waiting' = IF m[1] \in open
                  THEN waiting \union {<<m[1], m[2], xor_bytes(xor_bytes(m[3], Key), Key)>>}
                  ELSE waiting
    /\ UNCHANGED <<variant, localQ, open, clients, main, back, last, delivered, heard,
                   sent, time>>

Lost(m) ==
    /\ m \in upstream /\ upstream' = upstream \ {m}
    /\ UNCHANGED <<variant, localQ, waiting, open, clients, main, back, last, delivered,
                   heard, sent, time>>

(* A thread is not stopped for longer than CLIENT_TIMEOUT between          *)
(* get_client and the last use of what it returned: nothing in between     *)
(* blocks.  Without this the cleanup thread may free the client in use.    *)
NoStall == main.at \in {"have", "sent"} => time + 1 <= main.client.seen + CLIENT_TIMEOUT

Tick ==
    /\ variant = "cleanup" /\ time < MaxTime /\ NoStall
    /\ time' = time + 1
    /\ UNCHANGED <<variant, localQ, upstream, waiting, open, clients, main, back, last,
                   delivered, heard, sent>>

----------------------------------------------------------------------------
(* Reading the listening socket, in all variants: receive and xor.         *)
RecvLocal ==
    /\ main.at = "recv" /\ localQ # <<>>
    /\ localQ' = Tail(localQ)
    /\ main' = [at |-> "got", from |-> Head(localQ)[1],
                buf |-> xor_buffer(Head(localQ)[2], Key)]
    /\ UNCHANGED <<variant, upstream, waiting, open, clients, back, last, delivered,
                   heard, sent, time>>

(* single: the client is stored under the lock, then the datagram is sent. *)
StoreClient ==
    /\ variant = "single" /\ main.at = "got"
    /\ last' = main.from
    /\ heard' = heard \union {main.from}
    /\ main' = [main EXCEPT !.at = "have"]
    /\ UNCHANGED <<variant, localQ, upstream, waiting, open, clients, back, delivered,
                   sent, time>>

SendRemote ==
    /\ variant = "single" /\ main.at = "have"
    /\ upstream' = upstream \union {<<0, main.from, main.buf>>}
    /\ main' = Idle
    /\ UNCHANGED <<variant, localQ, waiting, open, clients, back, last, delivered, heard,
                   sent, time>>

(* single, remote_to_local_thread: receive and xor, then copy the last     *)
(* client under the lock and send to it.                                   *)
RecvRemote(m) ==
    /\ variant = "single" /\ back.at = "recv"
    /\ waiting' = waiting \ {m}
    /\ back' = [at |-> "got", for |-> m[2], buf |-> xor_buffer(m[3], Key)]
    /\ UNCHANGED <<variant, localQ, upstream, open, clients, main, last, delivered, heard,
                   sent, time>>

(* Mutant of SendLocal: only a reply to the client heard last is sent on.  *)
SendLocal_drops ==
    /\ variant = "single" /\ back.at = "got"
    /\ delivered' = IF last # back.for THEN delivered
                    ELSE delivered \union {[to |-> last, for |-> back.for, data |-> back.buf]}
    /\ back' = Idle
    /\ UNCHANGED <<variant, localQ, upstream, waiting, open, clients, main, last, heard,
                   sent, time>>

SendLocal ==
    /\ variant = "single" /\ back.at = "got"
    /\ delivered' = IF last = NoClient THEN delivered
                    ELSE delivered \union {[to |-> last, for |-> back.for, data |-> back.buf]}
    /\ back' = Idle
    /\ UNCHANGED <<variant, localQ, upstream, waiting, open, clients, main, last, heard,
                   sent, time>>

NewSocket == CHOOSE n \in 1 .. MaxSent : n \notin open /\ \A m \in upstream : m[1] # n

(* Mutant of get_client: the time of last use is not renewed.              *)
get_client_stale ==
    /\ variant # "single" /\ main.at = "got"
    /\ \/ \E c \in clients :
            /\ c.addr = main.from
            /\ main' = [at |-> "have", client |-> [c EXCEPT !.seen = time], from |-> main.from,
                         buf |-> main.buf]
            /\ UNCHANGED <<open, clients>>
       \/ /\ \A c \in clients : c.addr # main.from
          /\ LET new == [addr |-> main.from, fd |-> NewSocket, seen |-> time]
             IN  /\ clients' = clients \union {new} /\ open' = open \union {new.fd}
                 /\ main' = [at |-> "have", client |-> new, from |-> main.from,
                         buf |-> main.buf]
    /\ UNCHANGED <<variant, localQ, upstream, waiting, back, last, delivered, heard,
                   sent, time>>

(* Mutant of get_client: the first client of the list is taken.            *)
get_client_first ==
    /\ variant # "single" /\ main.at = "got"
    /\ LET c == IF clients # {} THEN CHOOSE x \in clients : TRUE
                ELSE [addr |-> main.from, fd |-> NewSocket, seen |-> time]
       IN  /\ clients' = (clients \ {c}) \union {[c EXCEPT !.seen = time]}
           /\ open' = open \union {c.fd}
           /\ main' = [at |-> "have", client |-> [c EXCEPT !.seen = time], from |-> main.from,
                         buf |-> main.buf]
    /\ UNCHANGED <<variant, localQ, upstream, waiting, back, last, delivered, heard,
                   sent, time>>

(* get_client finds the client and refreshes it ...                        *)
KnownClient ==
    \E c \in clients :
        LET found == [c EXCEPT !.seen = time] IN
        /\ c.addr = main.from
        /\ clients' = (clients \ {c}) \union {found}
        /\ main' = [at |-> "have", client |-> found, from |-> main.from, buf |-> main.buf]
        /\ UNCHANGED open

(* ... or makes a new one with its own socket; when calloc or socket fails *)
(* the datagram is dropped.                                                *)
NewClient ==
    /\ \A c \in clients : c.addr # main.from
    /\ \/ LET new == [addr |-> main.from, fd |-> NewSocket, seen |-> time]
          IN  /\ clients' = clients \union {new}
              /\ open' = open \union {new.fd}
              /\ main' = [at |-> "have", client |-> new, from |-> main.from, buf |-> main.buf]
       \/ main' = Idle /\ UNCHANGED <<clients, open>>

get_client ==
    /\ variant # "single" /\ main.at = "got"
    /\ KnownClient \/ NewClient
    /\ UNCHANGED <<variant, localQ, upstream, waiting, back, last, delivered, heard,
                   sent, time>>

(* multi: the datagram is sent on the client's socket ...                  *)
SendUpstream ==
    /\ variant # "single" /\ main.at = "have"
    /\ upstream' = upstream \union {<<main.client.fd, main.from, main.buf>>}
    /\ main' = [main EXCEPT !.at = "sent"]
    /\ UNCHANGED <<variant, localQ, waiting, open, clients, back, last, delivered, heard,
                   sent, time>>

(* ... and the socket is asked once, without blocking, for a reply.        *)
PollReply ==
    /\ variant # "single" /\ main.at = "sent"
    /\ LET mine == {m \in waiting : m[1] = main.client.fd}
       IN  \/ /\ mine = {}
              /\ UNCHANGED <<waiting, delivered>>
           \/ \E m \in mine :
                /\ waiting' = waiting \ {m}
                /\ delivered' = delivered \union
                     {[to |-> main.client.addr, for |-> m[2], data |-> xor_buffer(m[3], Key)]}
    /\ main' = Idle
    /\ UNCHANGED <<variant, localQ, upstream, open, clients, back, last, heard, sent, time>>

(* cleanup_thread: the clock is read before the lock is taken; then the    *)
(* idle clients are closed and freed in one critical section.              *)
CleanupWakes ==
    /\ variant = "cleanup" /\ back.at = "recv"
    /\ back' = [at |-> "now", now |-> time]
    /\ UNCHANGED <<variant, localQ, upstream, waiting, open, clients, main, last, delivered,
                   heard, sent, time>>

Expired(c) == back.now > c.seen + CLIENT_TIMEOUT

CleanupSweeps ==
    /\ variant = "cleanup" /\ back.at = "now"
    /\ LET idle == {c \in clients : Expired(c)}
           closed == {c.fd : c \in idle}
       IN  /\ clients' = clients \ idle
           /\ open' = open \ closed
           /\ waiting' = {m \in waiting : m[1] \notin closed}
    /\ back' = Idle
    /\ UNCHANGED <<variant, localQ, upstream, main, last, delivered, heard, sent, time>>

Main == RecvLocal \/ StoreClient \/ SendRemote \/ get_client \/ SendUpstream \/ PollReply
Back == (\E m \in waiting : RecvRemote(m)) \/ SendLocal \/ CleanupWakes \/ CleanupSweeps

ProxyNext ==
    \/ \E c \in Clients, d \in Payloads : ClientSends(c, d)
    \/ \E m \in upstream : RemoteAnswers(m) \/ Lost(m)
    \/ Tick
    \/ Main
    \/ Back

ProxySpec == ProxyInit /\ [][ProxyNext]_proxyVars

(* Both threads are scheduled; the network and the clock owe nothing.      *)
ProxyFairSpec == ProxySpec /\ WF_proxyVars(Main) /\ WF_proxyVars(Back)

----------------------------------------------------------------------------
(* Properties.                                                             *)

(* The client that get_client returned stays in the list, with its socket  *)
(* open, until the thread has made its last use of it, although the lock   *)
(* was dropped: the cleanup thread frees no client in use.                 *)
ClientInUseLives ==
    main.at \in {"have", "sent"} /\ variant # "single" =>
        /\ \E c \in clients : c.addr = main.client.addr /\ c.fd = main.client.fd
        /\ main.client.fd \in open

(* Every upstream socket belongs to one client of the list: cleaning up    *)
(* closes what it forgets and two clients never share a socket.            *)
SocketsOwned ==
    variant # "single" =>
        /\ open = {c.fd : c \in clients}
        /\ \A c, d \in clients : c.fd = d.fd => c = d

(* The list of clients, their sockets and the client the main thread works *)
(* on agree, whenever the cleanup thread runs.                             *)
ClientInv == ProxyTypeOK /\ ClientInUseLives /\ SocketsOwned

(* A reply goes to the client it answers, and carries a datagram a client  *)
(* sends, unmasked.  Only the single proxy may send it elsewhere, and only *)
(* when a second client has been heard.                                    *)
ReplyToOwner ==
    \A r \in delivered :
        /\ r.data \in Payloads
        /\ r.to = r.for \/ (variant = "single" /\ \E c, d \in heard : c # d)

(* In the single proxy every reply that reaches the upstream socket is     *)
(* taken from it and sent, unmasked, to the client heard last: none is     *)
(* received and dropped.                                                   *)
RepliesForwarded ==
    \A c \in Clients, d \in Payloads :
        LET reply == <<0, c, xor_buffer(d, Key)>> IN
        (variant = "single" /\ reply \in waiting) ~>
            /\ reply \notin waiting
            /\ \E r \in delivered : r.for = c /\ r.data = d /\ r.to \in heard

(* All the proxies call themselves bidirectional: a reply at an upstream   *)
(* socket is eventually taken from it.  (The multi-client ones look for it *)
(* only after the client's next datagram.)                                 *)
Bidirectional == waiting # {} ~> waiting = {}
=============================================================================
