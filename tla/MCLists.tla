------------------------------ MODULE MCLists ------------------------------
(***************************************************************************)
(* A small instance of the two kinds of lists for TLC: a program that uses *)
(* both. They share nothing.                                               *)
(***************************************************************************)
EXTENDS LinkedList, HashList, TLC

bothVars == <<listVars, hashVars>>

BothInit == ListInit /\ HashInit

\* Bound: the hash lists come first, and rest before the others are used.
BothNext ==
  \/ ListNext /\ HashInit /\ UNCHANGED hashVars
  \/ HashNext /\ ListInit /\ UNCHANGED listVars

BothSpec == BothInit /\ [][BothNext]_bothVars /\ ListFairness

=============================================================================
