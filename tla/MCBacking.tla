------------------------------ MODULE MCBacking ------------------------------
(***************************************************************************)
(* Small instances of Backing for TLC. Structs, names and files are        *)
(* interchangeable; descriptors are numbers, of which the lowest counts.   *)
(***************************************************************************)
EXTENDS Backing, TLC

CONSTANTS b1, b2, b3, n1, n2, f1, f2, f3

ThreeBackings == {b1, b2, b3}
TwoNames == {n1, n2}
ThreeFiles == {f1, f2, f3}

Interchangeable ==
  Permutations(ThreeBackings) \cup Permutations(TwoNames) \cup Permutations(ThreeFiles)

=============================================================================
