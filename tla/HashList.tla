------------------------------ MODULE HashList ------------------------------
(***************************************************************************)
(* The lists of src/lib/datastructures/linkedlist.h with one pointer in    *)
(* the head (lines 381-460). A node points back to the pointer that points *)
(* to it, so such a pointer is named by the head or the node it is in.     *)
(***************************************************************************)
EXTENDS ListNodes, Chains

CONSTANTS HashHeads, HashNodes

ASSUME HashAssumption ==
  /\ HashHeads \cap HashNodes = {}
  /\ {NULL, LIST_POISON1, LIST_POISON2} \cap (HashHeads \cup HashNodes) = {}
  /\ IsFiniteSet(HashNodes)

VARIABLES
  cell,   \* first of every head, next of every node
  pprev   \* of every node: the cell that points to it

hashVars == <<cell, pprev>>

Cells == HashHeads \cup HashNodes

\* hlist_unhashed is false, and hlist_del has not been here.
Hashed == {n \in HashNodes : pprev[n] \notin {NULL, LIST_POISON2}}

HashInit ==
  /\ cell = [c \in Cells |-> NULL]
  /\ pprev = [n \in HashNodes |-> NULL]

-----------------------------------------------------------------------------

\* __hlist_del, and then what is left in n.
Unhash(n, next, back) ==
  /\ cell' = [cell EXCEPT ![pprev[n]] = cell[n], ![n] = next]
  /\ pprev' = [m \in HashNodes |-> IF m = n THEN back
                                   ELSE IF m = cell[n] THEN pprev[n] ELSE pprev[m]]

\* Faulty: the two poisons are swapped.
HListDelSwapped(n) == n \in Hashed /\ Unhash(n, LIST_POISON2, LIST_POISON1)

HListDel(n) == n \in Hashed /\ Unhash(n, LIST_POISON1, LIST_POISON2)

\* Of a node that is unhashed, nothing.
HListDelInit(n) == n \in Hashed /\ Unhash(n, NULL, NULL)

HListAddHead(n, h) ==
  /\ n \notin Hashed
  /\ cell' = [cell EXCEPT ![n] = cell[h], ![h] = n]
  /\ pprev' = [m \in HashNodes |-> IF m = n THEN h
                                   ELSE IF m = cell[h] THEN n ELSE pprev[m]]

\* Faulty: the cell before still points to next (line 448 missing).
HListAddBeforeUnseen(n, next) ==
  /\ n \notin Hashed /\ next \in Hashed
  /\ cell' = [cell EXCEPT ![n] = next]
  /\ pprev' = [pprev EXCEPT ![n] = pprev[next], ![next] = n]

HListAddBefore(n, next) ==
  /\ n \notin Hashed /\ next \in Hashed
  /\ cell' = [cell EXCEPT ![n] = next, ![pprev[next]] = n]
  /\ pprev' = [pprev EXCEPT ![n] = pprev[next], ![next] = n]

\* Faulty: the node behind still points back to n (lines 458-459 missing).
HListAddAfterHalf(n, next) ==
  /\ n \in Hashed /\ next \notin Hashed
  /\ cell' = [cell EXCEPT ![next] = cell[n], ![n] = next]
  /\ pprev' = [pprev EXCEPT ![next] = n]

\* Here next is the one that is added.
HListAddAfter(n, next) ==
  /\ n \in Hashed /\ next \notin Hashed
  /\ cell' = [cell EXCEPT ![next] = cell[n], ![n] = next]
  /\ pprev' = [m \in HashNodes |-> IF m = next THEN n
                                   ELSE IF m = cell[n] THEN next ELSE pprev[m]]

HashNext ==
  \E n \in HashNodes :
    \/ HListDel(n) \/ HListDelInit(n)
    \/ \E h \in HashHeads : HListAddHead(n, h)
    \/ \E m \in HashNodes : HListAddBefore(n, m) \/ HListAddAfter(n, m)

HashSpec == HashInit /\ [][HashNext]_hashVars

-----------------------------------------------------------------------------
(* Properties. *)

\* Type invariant of struct hlist_head and struct hlist_node.
HashTypeOK ==
  /\ cell \in [Cells -> HashNodes \cup {NULL, LIST_POISON1}]
  /\ pprev \in [HashNodes -> Cells \cup {NULL, LIST_POISON2}]

\* Through any sequence of operations, a node on a list is what the cell it
\* points back to points to, and the other way round: hlist_del never writes
\* through a pointer into another list or into a node that was removed.
HashWellLinked ==
  /\ \A n \in Hashed : pprev[n] \in HashHeads \cup Hashed /\ cell[pprev[n]] = n
  /\ \A c \in HashHeads \cup Hashed :
       cell[c] # NULL => cell[c] \in Hashed /\ pprev[cell[c]] = c

HashContents(h) == Along(cell, HashNodes, cell[h])

\* The lists are sequences, and the operations those on sequences.
HashSequences == INSTANCE Lists WITH
  Items <- HashNodes,
  lists <- [h \in HashHeads |-> HashContents(h)]

HashListsAreSequences == HashSequences!Spec

=============================================================================
