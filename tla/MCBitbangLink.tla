--------------------------- MODULE MCBitbangLink ---------------------------
(***************************************************************************)
(* Small instances of BitbangLink for TLC.                                 *)
(***************************************************************************)
EXTENDS BitbangLink

\* 0x00 and 0xFF, equal to and different from the start and stop bits beside
\* them, and 0x01, 0x02, 0x04, 0x10 and 0x80, of which each needs other folds of
\* the parity reduction.
SomeBytes == {[i \in Pos |-> x] : x \in Bit}
                 \union {[i \in Pos |-> IF i = k THEN 1 ELSE 0] : k \in {0, 1, 2, 4, 7}}
=============================================================================
