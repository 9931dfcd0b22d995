------------------------- MODULE MCBitbangLifecycle -------------------------
(***************************************************************************)
(* Small instances of BitbangLifecycle for TLC.                            *)
(***************************************************************************)
EXTENDS BitbangLifecycle, TLC

CONSTANTS p1, p2

OneStorer == {p1}
TwoStorers == {p1, p2}

\* The storers are alike.
StorerSymmetry == Permutations(TwoStorers)
=============================================================================
