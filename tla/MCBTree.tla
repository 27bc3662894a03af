------------------------------- MODULE MCBTree -------------------------------
(***************************************************************************)
(* A small instance of BTree for TLC. Pages and frames are numbers, so the *)
(* stack addresses are what symmetry applies to.                           *)
(***************************************************************************)
EXTENDS BTree, TLC

CONSTANTS s1, s2

TwoSlots == {s1, s2}

\* What a client of the manager writes is nodes.
Nodes == Node

Interchangeable == Permutations(TwoSlots)

=============================================================================
