---------------------------- MODULE BoundedQueue ----------------------------
(***************************************************************************)
(* What the transmit ring promises: a queue of at most Capacity bytes that *)
(* refuses a byte when it is full and gives them out in order.             *)
(***************************************************************************)
EXTENDS Naturals, Sequences

CONSTANTS Bytes, Capacity

VARIABLES queue,    \* the bytes inside
          refused   \* how many bytes were refused

Init == queue = <<>> /\ refused = 0

Put(b) ==
    IF Len(queue) < Capacity
    THEN queue' = Append(queue, b) /\ UNCHANGED refused
    ELSE refused' = refused + 1 /\ UNCHANGED queue

Get == queue # <<>> /\ queue' = Tail(queue) /\ UNCHANGED refused

Next == Get \/ \E b \in Bytes : Put(b)

Spec == Init /\ [][Next]_<<queue, refused>>
=============================================================================
