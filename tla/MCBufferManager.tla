--------------------------- MODULE MCBufferManager ---------------------------
(***************************************************************************)
(* Small instances of BufferManager for TLC. Pages and frames are numbers, *)
(* so the stack addresses and the data are what symmetry applies to.       *)
(***************************************************************************)
EXTENDS BufferManager, TLC

CONSTANTS s1, s2, d1, d2

TwoSlots == {s1, s2}
TwoData == {d1, d2}

Interchangeable == Permutations(TwoSlots) \cup Permutations(TwoData)

=============================================================================
