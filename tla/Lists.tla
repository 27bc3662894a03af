-------------------------------- MODULE Lists --------------------------------
(***************************************************************************)
(* What src/lib/datastructures/linkedlist.h promises, without pointers:    *)
(* each list is a sequence, no item is on two lists or twice on one, and   *)
(* an operation touches no item but its own.                               *)
(* LinkedList and HashList implement this specification.                   *)
(***************************************************************************)
EXTENDS SequencesExt

CONSTANT Items

VARIABLE lists

Owners == DOMAIN lists
On(h) == ToSet(lists[h])
Places(h) == 1 .. Len(lists[h]) + 1

Init == \A h \in Owners : lists[h] = <<>>

-----------------------------------------------------------------------------

\* An item that is on no list is put somewhere on one.
Insert(e, h, i) ==
  /\ \A g \in Owners : e \notin On(g)
  /\ lists' = [lists EXCEPT ![h] = InsertAt(@, i, e)]

\* The i-th item of a list is removed.
Delete(h, i) == lists' = [lists EXCEPT ![h] = RemoveAt(@, i)]

\* It goes to another place of its list or of another one.
Move(g, i, h, j) ==
  LET cut == [lists EXCEPT ![g] = RemoveAt(@, i)] IN
  /\ j \in 1 .. Len(cut[h]) + 1
  /\ lists' = [cut EXCEPT ![h] = InsertAt(@, j, lists[g][i])]

\* All of one list goes, in its order, behind the first i items of another.
Splice(g, h, i) ==
  /\ g # h
  /\ lists' = [lists EXCEPT ![g] = <<>>,
                            ![h] = SubSeq(@, 1, i) \o lists[g] \o SubSeq(@, i + 1, Len(@))]

Next ==
  \/ \E e \in Items, h \in Owners : \E i \in Places(h) : Insert(e, h, i)
  \/ \E g \in Owners : \E i \in 1 .. Len(lists[g]) :
       Delete(g, i) \/ \E h \in Owners : \E j \in Places(h) : Move(g, i, h, j)
  \/ \E g, h \in Owners : \E i \in 0 .. Len(lists[h]) : Splice(g, h, i)

Spec == Init /\ [][Next]_lists

=============================================================================
