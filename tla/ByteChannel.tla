----------------------------- MODULE ByteChannel -----------------------------
(***************************************************************************)
(* What a pair of bit-banged UARTs promises to the processes at its ends:  *)
(* a channel that delivers every byte once, in order, in the end.          *)
(***************************************************************************)
EXTENDS Naturals, Sequences

CONSTANT Bytes

VARIABLES sent, received

Init == sent = <<>> /\ received = <<>>

Send(b) == sent' = Append(sent, b) /\ UNCHANGED received

Deliver ==
    /\ Len(received) < Len(sent)
    /\ received' = Append(received, sent[Len(received) + 1])
    /\ UNCHANGED sent

Next == (\E b \in Bytes : Send(b)) \/ Deliver

Safe == Init /\ [][Next]_<<sent, received>>

Spec == Safe /\ WF_<<sent, received>>(Deliver)
=============================================================================
