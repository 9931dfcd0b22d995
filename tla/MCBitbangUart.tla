--------------------------- MODULE MCBitbangUart ---------------------------
(***************************************************************************)
(* Small instances of BitbangUart for TLC.                                 *)
(***************************************************************************)
EXTENDS BitbangUart, TLC

CONSTANTS p1, p2

OneProc == {p1}
TwoProcs == {p1, p2}
NoProcs == {}
Symmetry == Permutations({p1, p2})

\* The two characters of one data bit, and two characters of odd and even
\* parity for wider ones.
AllOnes == [i \in Pos |-> 1]
OneBit  == [i \in Pos |-> IF i = 0 THEN 1 ELSE 0]
TwoBytes == {OneBit, AllOnes}
OneByte == {OneBit}
=============================================================================
