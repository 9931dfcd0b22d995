----------------------------- MODULE MCUdpProxy -----------------------------
(* UdpProxy with a key shorter than the longest datagram, so that the key  *)
(* repeats.                                                                *)
EXTENDS UdpProxy

(* The byte with these bits set.                                           *)
MCByte(ones) == [j \in 0 .. 7 |-> IF j \in ones THEN 1 ELSE 0]

MCKey == <<MCByte({0}), MCByte({0, 1})>>
MCPayloads == {<<MCByte({1}), MCByte({}), MCByte({0})>>, <<MCByte({2})>>}
=============================================================================
