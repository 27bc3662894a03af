------------------------ MODULE ListSequences_proofs ------------------------
(***************************************************************************)
(* The doubly linked lists implement the sequences of Lists, list_add and  *)
(* list_add_tail make stacks and queues, and the loop that is safe against *)
(* removal comes to every entry, for any number of heads and entries.      *)
(***************************************************************************)
EXTENDS LinkedList_proofs, Chains_proofs

\* The links of the lists; a list ends where it began.
Nexts(nodes) == [x \in Nodes |-> nodes[x].next]
Ends == [h \in Heads |-> h]

\* x is on some list.
Listed(lists, x) == \E h \in Heads : In(lists[h], x)

\* The nodes say what the lists of the heads in used are; all that are on a
\* list are live and have its head as owner, and an entry that is live and on no
\* list points to itself.
Strung(nodes, own, live, used, lists) ==
  /\ Layout(Entries, Heads, Nexts(nodes), used, lists, Ends)
  /\ used \subseteq live
  /\ \A h \in Heads : \A x : In(lists[h], x) => x \in live /\ own[x] = h
  /\ \A x \in live \cap Entries : Listed(lists, x) \/ nodes[x].next = x

\* Heads are no entries, and so no list ends in an entry.
LEMMA ListGrounds == Grounds(Entries, Heads, Ends)
BY NodesAssumption DEF Grounds, Ends

\* The node at place i of a list: its head, then its entries, then its head.
Spot(lists, h, i) == Nth(lists[h], h, Ends[h], i)

\* Place i of a list is the one between prev and next.
Gap(lists, h, i, prev, next) ==
  i \in 1 .. Len(lists[h]) + 1 /\ prev = Spot(lists, h, i - 1) /\ next = Spot(lists, h, i)

\* Whose list an entry is on.
LEMMA ListedIs ==
  ASSUME NEW nodes, NEW own, NEW live, NEW used, NEW lists,
         Strung(nodes, own, live, used, lists),
         NEW h \in Heads, NEW x, In(lists[h], x)
  PROVE  x \in Entries /\ h \in used /\ x \in live /\ own[x] = h
<1>1. lists[h] \in Seq(Entries) /\ (h \in Heads \ used => lists[h] = <<>>)
  BY DEF Strung, Layout
<1>2. x \in Entries
  BY <1>1, InIsItem
<1>3. lists[h] # <<>>
  BY DEF In
<1>. QED  BY <1>1, <1>2, <1>3 DEF Strung

\* The parts of Strung, for the steps that need no more.
LEMMA StrungIs ==
  ASSUME NEW nodes, NEW own, NEW live, NEW used, NEW lists,
         Strung(nodes, own, live, used, lists), live \subseteq Nodes
  PROVE  /\ used \subseteq Heads /\ used \subseteq live /\ DOMAIN lists = Heads
         /\ \A h \in Heads : lists[h] \in Seq(Entries) /\ Once(lists[h]) /\ Len(lists[h]) \in Nat
         /\ \A x : Laid(lists, used, x) => x \in live /\ x \in Nodes /\ Nexts(nodes)[x] = nodes[x].next
<1>1. /\ used \subseteq Heads /\ used \subseteq live /\ DOMAIN lists = Heads
      /\ \A h \in Heads : lists[h] \in Seq(Entries) /\ Once(lists[h])
      /\ \A h \in Heads \ used : lists[h] = <<>>
  BY DEF Strung, Layout
<1>2. \A h \in Heads : Len(lists[h]) \in Nat
  BY <1>1, LenProperties
<1>4. ASSUME NEW x, Laid(lists, used, x)
      PROVE  x \in live /\ x \in Nodes /\ Nexts(nodes)[x] = nodes[x].next
  <2>1. x \in live
    BY <1>1, <1>4 DEF Strung, Laid
  <2>. QED  BY <2>1 DEF Nexts
<1>. QED  BY <1>1, <1>2, <1>4

\* A place before the end is the head or an entry of its list; no two are one.
LEMMA SpotIs ==
  ASSUME NEW nodes, NEW own, NEW live, NEW used, NEW lists,
         Strung(nodes, own, live, used, lists), live \subseteq Nodes,
         NEW h \in used, NEW i \in 0 .. Len(lists[h])
  PROVE  /\ Spot(lists, h, i) = h \/ In(lists[h], Spot(lists, h, i))
         /\ Spot(lists, h, i) \in live
         /\ nodes[Spot(lists, h, i)].next = Spot(lists, h, i + 1)
         /\ \A j \in 0 .. Len(lists[h]) : Spot(lists, h, i) = Spot(lists, h, j) => i = j
<1>1. h \in Heads /\ h \in live /\ lists[h] \in Seq(Entries) /\ Once(lists[h]) /\ h \notin Entries
  BY StrungIs, NoNodes
<1>2. Spot(lists, h, i) = h \/ In(lists[h], Spot(lists, h, i))
  BY <1>1, NthIs, Zenon DEF Spot
<1>3. Spot(lists, h, i) \in live
  BY <1>1, <1>2 DEF Strung
<1>4. Nexts(nodes)[Spot(lists, h, i)] = Spot(lists, h, i + 1)
  <2>1. Chain(Nexts(nodes), h, Ends[h], lists[h])
    BY DEF Strung, Layout
  <2>. QED  BY <2>1 DEF Chain, Spot
<1>5. \A j \in 0 .. Len(lists[h]) : Spot(lists, h, i) = Spot(lists, h, j) => i = j
  BY <1>1, NthOnce, Zenon DEF Spot
<1>. QED  BY <1>2, <1>3, <1>4, <1>5 DEF Nexts

\* A head or an entry on a list has the places before and behind it.
LEMMA Gaps ==
  ASSUME NEW nodes, NEW own, NEW live, NEW dead, NEW used, NEW lists,
         Shape(nodes, own, live, dead), Strung(nodes, own, live, used, lists),
         NEW x, x \in used \/ Listed(lists, x)
  PROVE  \E h \in used :
           /\ own[x] = h
           /\ \E i : Gap(lists, h, i, x, nodes[x].next)
           /\ \E i : Gap(lists, h, i, nodes[x].prev, x)
<1>0. live \subseteq Nodes /\ WellLinked(nodes, own, live) /\ \A g \in Heads : own[g] = g
  BY DEF Shape, Owners
<1>1. PICK h \in used : (x = h \/ In(lists[h], x)) /\ own[x] = h
  <2>1. used \subseteq Heads /\ \A g \in Heads : In(lists[g], x) => g \in used
    BY <1>0, ListedIs, StrungIs
  <2>2. CASE x \in used
    BY <1>0, <2>1, <2>2
  <2>3. CASE Listed(lists, x)
    BY <2>1, <2>3 DEF Listed, Strung
  <2>. QED  BY <2>2, <2>3
<1>2. /\ h \in Heads /\ lists[h] \in Seq(Entries) /\ Len(lists[h]) \in Nat /\ Ends[h] = h
  BY <1>0, StrungIs DEF Ends
<1>3. PICK j \in 0 .. Len(lists[h]) : Spot(lists, h, j) = x
  BY <1>1, <1>2 DEF In, Spot, Nth
<1>4. nodes[x].next = Spot(lists, h, j + 1)
  BY <1>0, <1>3, SpotIs
<1>5. j + 1 \in 1 .. Len(lists[h]) + 1 /\ j + 1 - 1 = j
  BY <1>2
<1>6. Gap(lists, h, j + 1, x, nodes[x].next)
  BY <1>3, <1>4, <1>5 DEF Gap
<1>7. PICK i \in 1 .. Len(lists[h]) + 1 : Spot(lists, h, i) = x
  <2>1. CASE j = 0
    <3>1. Spot(lists, h, Len(lists[h]) + 1) = h /\ x = h
      BY <1>2, <1>3, <2>1 DEF Spot, Nth
    <3>. QED  BY <1>2, <3>1
  <2>2. CASE j # 0
    BY <1>2, <1>3, <2>2
  <2>. QED  BY <2>1, <2>2
<1>8. i - 1 \in 0 .. Len(lists[h]) /\ i - 1 + 1 = i
  BY <1>2
<1>9. Spot(lists, h, i - 1) \in live /\ nodes[Spot(lists, h, i - 1)].next = x
  BY <1>0, <1>7, <1>8, SpotIs
<1>10. nodes[x].prev = Spot(lists, h, i - 1)
  BY <1>0, <1>9 DEF WellLinked
<1>11. Gap(lists, h, i, nodes[x].prev, x)
  BY <1>7, <1>10 DEF Gap
<1>. QED  BY <1>1, <1>6, <1>11

\* An entry on a list does not point to itself.
LEMMA ListedNext ==
  ASSUME NEW nodes, NEW own, NEW live, NEW used, NEW lists,
         Strung(nodes, own, live, used, lists), live \subseteq Nodes,
         NEW x, Listed(lists, x)
  PROVE  nodes[x].next # x
<1>1. PICK h \in Heads : In(lists[h], x)
  BY DEF Listed
<1>2. PICK i \in 1 .. Len(lists[h]) : lists[h][i] = x
  BY <1>1 DEF In
<1>3. /\ h \in used /\ Len(lists[h]) \in Nat /\ i \in 0 .. Len(lists[h]) /\ x \in Entries
      /\ h \notin Entries /\ Ends[h] = h
  BY <1>1, ListedIs, StrungIs, NoNodes DEF Ends
<1>4. Spot(lists, h, i) = x
  BY <1>2 DEF Spot, Nth
<1>5. nodes[x].next = Spot(lists, h, i + 1)
  BY <1>3, <1>4, SpotIs
<1>6. CASE i = Len(lists[h])
  <2>1. Spot(lists, h, i + 1) = h
    BY <1>3, <1>6 DEF Spot, Nth
  <2>. QED  BY <1>3, <1>5, <2>1
<1>7. CASE i # Len(lists[h])
  <2>1. i + 1 \in 0 .. Len(lists[h]) /\ i # i + 1
    BY <1>3, <1>7
  <2>. QED  BY <1>3, <1>4, <1>5, <2>1, SpotIs
<1>. QED  BY <1>6, <1>7

-----------------------------------------------------------------------------
(* What the operators on nodes do to the lists.                            *)

\* A node that was on no list is put in a gap of one.
LEMMA BetweenInserts ==
  ASSUME NEW nodes, NEW own, NEW live, NEW dead, NEW used, NEW lists,
         Shape(nodes, own, live, dead), Strung(nodes, own, live, used, lists),
         NEW new \in Entries, new \notin live,
         NEW h \in used, NEW i, NEW prev, NEW next, Gap(lists, h, i, prev, next),
         NEW o, SameBut(o, own, new), o[new] = h,
         NEW m, m = Between(nodes, new, prev, next)
  PROVE  Strung(m, o, With(live, new), used, [lists EXCEPT ![h] = InsertAt(lists[h], i, new)])
<1>1. live \subseteq Nodes /\ nodes \in NodeRecords /\ WellLinked(nodes, own, live)
  BY DEF Shape
<1>2. h \in Heads /\ Len(lists[h]) \in Nat /\ used \subseteq Heads /\ used \subseteq live
  BY <1>1, StrungIs
<1>3. i \in 1 .. Len(lists[h]) + 1 /\ i - 1 \in 0 .. Len(lists[h]) /\ i - 1 + 1 = i
  BY <1>2 DEF Gap
<1>4. prev \in live /\ nodes[prev].next = next
  BY <1>1, <1>3, SpotIs DEF Gap
<1>5. next \in live
  BY <1>1, <1>4 DEF WellLinked
<1>6. MakesBetween(m, nodes, new, prev, next)
  BY <1>1, <1>4, <1>5, NoNodes DEF MakesBetween
<1>7. \A x \in Nodes : m[x].next = IF x = prev THEN new ELSE IF x = new THEN next
                                  ELSE nodes[x].next
  BY <1>6, BetweenIs
<1>8. PICK t : t = [lists EXCEPT ![h] = InsertAt(lists[h], i, new)]
  OBVIOUS
<1>9. \A g \in Heads : \A x : In(lists[g], x) => x \in live /\ x # new /\ own[x] = g
  BY ListedIs
<1>10. \A x : Laid(lists, used, x) => x \in live /\ x \in Nodes /\ x # new
  BY <1>1, StrungIs
<1>11. Inserts(Entries, Heads, Nexts(nodes), used, lists, Ends, h, i, new, Nexts(m), t)
  <2>1. Layout(Entries, Heads, Nexts(nodes), used, lists, Ends)
    BY DEF Strung
  <2>2. Nexts(m)[new] = Nth(lists[h], h, Ends[h], i)
    BY <1>4, <1>7, NoNodes DEF Nexts, Gap, Spot
  <2>3. Nexts(m)[Nth(lists[h], h, Ends[h], i - 1)] = new
    BY <1>1, <1>4, <1>7 DEF Nexts, Gap, Spot
  <2>4. \A x : Laid(lists, used, x) =>
                 Nexts(m)[x] = Nexts(nodes)[x] \/ x = Nth(lists[h], h, Ends[h], i - 1)
    BY <1>7, <1>10 DEF Nexts, Gap, Spot
  <2>5. \A g \in Heads : ~ In(lists[g], new)
    BY <1>9
  <2>. QED  BY <1>3, <1>8, <2>1, <2>2, <2>3, <2>4, <2>5, ListGrounds DEF Inserts
<1>12. /\ Layout(Entries, Heads, Nexts(m), used, t, Ends)
       /\ \A g \in Heads : \A x : In(t[g], x) <=> (g = h /\ x = new) \/ In(lists[g], x)
  BY <1>11, LayoutInserted
<1>13. \A g \in Heads : \A x : In(t[g], x) => x \in With(live, new) /\ o[x] = g
  <2>1. \A x \in live : o[x] = own[x]
    BY <1>1 DEF SameBut
  <2>. QED  BY <1>2, <1>9, <1>12, <2>1 DEF With
<1>14. ASSUME NEW x \in With(live, new) \cap Entries PROVE Listed(t, x) \/ m[x].next = x
  <2>1. CASE x = new
    BY <1>2, <1>12, <2>1 DEF Listed
  <2>2. CASE Listed(lists, x)
    BY <1>12, <2>2 DEF Listed
  <2>3. CASE x # new /\ ~ Listed(lists, x)
    <3>1. nodes[x].next = x /\ x \in Nodes
      BY <1>1, <2>3 DEF Strung, With
    <3>2. x # prev
      <4>1. prev = h \/ In(lists[h], prev)
        BY <1>1, <1>3, SpotIs DEF Gap
      <4>. QED  BY <1>2, <2>3, <4>1, NoNodes DEF Listed
    <3>. QED  BY <1>7, <2>3, <3>1, <3>2
  <2>. QED  BY <2>1, <2>2, <2>3
<1>15. used \subseteq With(live, new)
  BY <1>2 DEF With
<1>. QED  BY <1>8, <1>12, <1>13, <1>14, <1>15 DEF Strung

\* An entry leaves its list.
LEMMA WithoutRemoves ==
  ASSUME NEW nodes, NEW own, NEW live, NEW dead, NEW used, NEW lists,
         Shape(nodes, own, live, dead), Strung(nodes, own, live, used, lists),
         NEW e, Listed(lists, e), NEW m, m = Without(nodes, e)
  PROVE  \E h \in used : \E i \in 1 .. Len(lists[h]) : \E t :
           /\ lists[h][i] = e /\ t = [lists EXCEPT ![h] = RemoveAt(lists[h], i)]
           /\ Strung(m, own, Less(live, e), used, t)
           /\ \A x : Listed(lists, x) /\ x # e => Listed(t, x)
<1>1. live \subseteq Nodes /\ nodes \in NodeRecords /\ WellLinked(nodes, own, live)
  BY DEF Shape
<1>2. PICK h \in Heads : In(lists[h], e)
  BY DEF Listed
<1>3. PICK i \in 1 .. Len(lists[h]) : lists[h][i] = e
  BY <1>2 DEF In
<1>4. h \in used /\ e \in Entries /\ e \in live
  BY <1>2, ListedIs
<1>5. Len(lists[h]) \in Nat /\ used \subseteq Heads /\ used \subseteq live
  BY <1>1, <1>4, StrungIs
<1>6. Spot(lists, h, i) = e /\ i \in 0 .. Len(lists[h])
  BY <1>3, <1>5 DEF Spot, Nth
<1>7. nodes[e].next = Spot(lists, h, i + 1)
  BY <1>1, <1>4, <1>6, SpotIs
<1>8. i - 1 \in 0 .. Len(lists[h]) /\ i - 1 + 1 = i
  BY <1>5
<1>9. Spot(lists, h, i - 1) \in live /\ nodes[Spot(lists, h, i - 1)].next = e
  BY <1>1, <1>4, <1>6, <1>8, SpotIs
<1>10. nodes[e].prev = Spot(lists, h, i - 1)
  BY <1>1, <1>9 DEF WellLinked
<1>11. \A x \in Nodes : m[x].next = IF x = nodes[e].prev THEN nodes[e].next ELSE nodes[x].next
  <2>1. nodes[e].next \in live /\ nodes[e].prev \in live
    BY <1>1, <1>4 DEF WellLinked
  <2>. QED  BY <1>1, <2>1, WithoutIs
<1>12. PICK t : t = [lists EXCEPT ![h] = RemoveAt(lists[h], i)]
  OBVIOUS
<1>13. \A x : Laid(lists, used, x) => x \in live /\ x \in Nodes
  BY <1>1, StrungIs
<1>14. Removes(Entries, Heads, Nexts(nodes), used, lists, Ends, h, i, Nexts(m), t)
  <2>1. Layout(Entries, Heads, Nexts(nodes), used, lists, Ends)
    BY DEF Strung
  <2>2. Nexts(m)[Nth(lists[h], h, Ends[h], i - 1)] = Nth(lists[h], h, Ends[h], i + 1)
    BY <1>1, <1>7, <1>9, <1>10, <1>11 DEF Nexts, Spot
  <2>3. \A x : Laid(lists, used, x) =>
                 \/ Nexts(m)[x] = Nexts(nodes)[x]
                 \/ x = Nth(lists[h], h, Ends[h], i - 1)
                 \/ x = lists[h][i]
    BY <1>10, <1>11, <1>13 DEF Nexts, Spot
  <2>. QED  BY <1>4, <1>12, <2>1, <2>2, <2>3, ListGrounds DEF Removes
<1>15. /\ Layout(Entries, Heads, Nexts(m), used, t, Ends)
       /\ \A g \in Heads : \A x : In(t[g], x) <=> In(lists[g], x) /\ x # e
  BY <1>3, <1>14, LayoutRemoved
<1>16. ASSUME NEW g \in Heads, NEW x, In(t[g], x)
       PROVE  x \in Less(live, e) /\ own[x] = g
  <2>1. In(lists[g], x) /\ x # e
    BY <1>15, <1>16
  <2>. QED  BY <2>1, ListedIs DEF Less
<1>17. ASSUME NEW x \in Less(live, e) \cap Entries PROVE Listed(t, x) \/ m[x].next = x
  <2>1. CASE Listed(lists, x)
    BY <1>15, <2>1 DEF Listed, Less
  <2>2. CASE ~ Listed(lists, x)
    <3>1. nodes[x].next = x /\ x \in Nodes /\ x # e
      BY <1>1, <2>2 DEF Strung, Less
    <3>. QED  BY <1>9, <1>10, <1>11, <3>1
  <2>. QED  BY <2>1, <2>2
<1>18. used \subseteq Less(live, e)
  BY <1>4, <1>5, NoNodes DEF Less
<1>19. Strung(m, own, Less(live, e), used, t)
  BY <1>15, <1>16, <1>17, <1>18 DEF Strung
<1>20. \A x : Listed(lists, x) /\ x # e => Listed(t, x)
  BY <1>15 DEF Listed
<1>. QED  BY <1>3, <1>4, <1>12, <1>19, <1>20

\* What is on no list and points to itself leaves no list.
LEMMA AloneLeaves ==
  ASSUME NEW nodes, NEW own, NEW live, NEW dead, NEW used, NEW lists,
         Shape(nodes, own, live, dead), Strung(nodes, own, live, used, lists),
         NEW e \in live \cap Entries, ~ Listed(lists, e), NEW m, m = Without(nodes, e)
  PROVE  Strung(m, own, Less(live, e), used, lists)
<1>1. live \subseteq Nodes /\ nodes \in NodeRecords /\ WellLinked(nodes, own, live)
  BY DEF Shape
<1>2. nodes[e].next = e /\ nodes[e].prev = e
  BY <1>1 DEF Strung, WellLinked
<1>3. \A x \in Nodes : m[x].next = nodes[x].next
  BY <1>1, <1>2, WithoutIs
<1>4. Nexts(m) = Nexts(nodes)
  BY <1>3 DEF Nexts
<1>5. \A g \in Heads : \A x : In(lists[g], x) => x \in Less(live, e) /\ own[x] = g
  BY ListedIs DEF Less, Listed
<1>6. used \subseteq Less(live, e)
  BY <1>1, StrungIs, NoNodes DEF Less
<1>. QED  BY <1>1, <1>3, <1>4, <1>5, <1>6 DEF Strung, Less

\* Only x is written: the others are as they were.
OnlySets(m, nodes, x) == \A y \in Nodes \ {x} : m[y] = nodes[y]

\* An entry that is on no list is written.
LEMMA EntrySet ==
  ASSUME NEW nodes, NEW own, NEW live, NEW used, NEW lists,
         Strung(nodes, own, live, used, lists), live \subseteq Nodes,
         NEW e \in Entries, e \notin live,
         NEW m, OnlySets(m, nodes, e), NEW o, SameBut(o, own, e)
  PROVE  /\ Strung(m, o, live, used, lists)
         /\ m[e].next = e => Strung(m, o, With(live, e), used, lists)
<1>1. \A x : Laid(lists, used, x) => x \in live /\ x \in Nodes /\ x # e
  BY StrungIs
<1>2. Layout(Entries, Heads, Nexts(m), used, lists, Ends)
  <2>1. \A x : Laid(lists, used, x) => Nexts(m)[x] = Nexts(nodes)[x]
    BY <1>1 DEF Nexts, OnlySets
  <2>2. Layout(Entries, Heads, Nexts(nodes), used, lists, Ends)
    BY DEF Strung
  <2>. QED  BY <2>1, <2>2, LayoutKept
<1>3. \A x \in live : m[x] = nodes[x] /\ o[x] = own[x]
  BY DEF OnlySets, SameBut
<1>. QED  BY <1>2, <1>3 DEF Strung, With

\* A head that has no list is made the head of an empty one.
LEMMA HeadSet ==
  ASSUME NEW nodes, NEW own, NEW live, NEW used, NEW lists,
         Strung(nodes, own, live, used, lists), live \subseteq Nodes,
         NEW h \in Heads, h \notin live,
         NEW m, OnlySets(m, nodes, h), m[h].next = h
  PROVE  Strung(m, own, With(live, h), used \cup {h}, lists)
<1>1. \A x : Laid(lists, used, x) => x \in live /\ x \in Nodes /\ x # h
  BY StrungIs
<1>2. h \in Heads \ used /\ h \in Nodes
  BY StrungIs, NoNodes
<1>3. Layout(Entries, Heads, Nexts(m), used \cup {h}, lists, Ends)
  <2>1. \A x : Laid(lists, used, x) => Nexts(m)[x] = Nexts(nodes)[x]
    BY <1>1 DEF Nexts, OnlySets
  <2>2. Layout(Entries, Heads, Nexts(nodes), used, lists, Ends)
    BY DEF Strung
  <2>3. Nexts(m)[h] = Ends[h]
    BY <1>2 DEF Nexts, Ends
  <2>. QED  BY <1>2, <2>1, <2>2, <2>3, ListGrounds, LayoutFresh
<1>4. \A x \in live : m[x] = nodes[x]
  BY DEF OnlySets
<1>. QED  BY <1>3, <1>4, NoNodes DEF Strung, With

\* What a splice makes of the lists: list's entries go into a gap of h's.
Merged(lists, list, h, i) ==
  [lists EXCEPT ![list] = <<>>, ![h] = Joined(lists[h], i, lists[list])]

\* Spliced puts all of one list in a gap of another.
LEMMA SplicedMerges ==
  ASSUME NEW nodes, NEW own, NEW live, NEW dead, NEW used, NEW lists,
         Shape(nodes, own, live, dead), Strung(nodes, own, live, used, lists),
         NEW list \in used, nodes[list].next # list,
         NEW h \in used, h # list,
         NEW i \in 0 .. Len(lists[h]), NEW head, head = Spot(lists, h, i), own[head] = h,
         NEW o, GoesTo(o, own, list, head),
         NEW m, m = Spliced(nodes, list, head)
  PROVE  Strung(m, o, Less(live, list), used \ {list}, Merged(lists, list, h, i))
<1> DEFINE first == nodes[list].next
           last == nodes[list].prev
           at == nodes[head].next
           n == Len(lists[list])
<1>1. live \subseteq Nodes /\ nodes \in NodeRecords /\ WellLinked(nodes, own, live)
  BY DEF Shape
<1>2. /\ list \in Heads /\ h \in Heads /\ used \subseteq Heads /\ used \subseteq live
      /\ lists[list] \in Seq(Entries) /\ n \in Nat /\ Len(lists[h]) \in Nat
      /\ Ends[list] = list
  BY <1>1, StrungIs DEF Ends
<1>3. head \in live /\ (head = h \/ In(lists[h], head)) /\ at = Spot(lists, h, i + 1)
  BY <1>1, SpotIs
<1>4. first \in live /\ last \in live /\ at \in live
  BY <1>1, <1>2, <1>3 DEF WellLinked
<1>5. first = Spot(lists, list, 1)
  <2>1. Spot(lists, list, 0) = list
    BY DEF Spot, Nth
  <2>2. 0 \in 0 .. Len(lists[list]) /\ 0 + 1 = 1
    BY <1>2
  <2>3. nodes[Spot(lists, list, 0)].next = Spot(lists, list, 0 + 1)
    BY <1>1, <2>2, SpotIs
  <2>. QED  BY <2>1, <2>2, <2>3
<1>6. n # 0 /\ lists[list] # <<>> /\ first = lists[list][1]
  <2>1. n # 0
    BY <1>2, <1>5 DEF Spot, Nth
  <2>. QED  BY <1>2, <1>5, <2>1 DEF Spot, Nth
<1>7. last = lists[list][n]
  <2>1. n \in 0 .. n
    BY <1>2
  <2>2. Spot(lists, list, n) \in live /\ nodes[Spot(lists, list, n)].next = Spot(lists, list, n + 1)
    BY <1>1, <2>1, SpotIs
  <2>3. Spot(lists, list, n) = lists[list][n] /\ Spot(lists, list, n + 1) = list
    BY <1>2, <1>6 DEF Spot, Nth
  <2>. QED  BY <1>1, <2>2, <2>3 DEF WellLinked
<1>8. In(lists[list], last)
  BY <1>2, <1>6, <1>7 DEF In
<1>9. \A x \in Nodes : m[x].next = IF x = last THEN at ELSE IF x = head THEN first
                                  ELSE nodes[x].next
  BY <1>1, <1>3, <1>4, SplicedIs
<1>10. head # last /\ last \notin used
  BY <1>2, <1>3, <1>8, ListedIs, NoNodes
<1>11. \A x : Laid(lists, used, x) => x \in live /\ x \in Nodes
  BY <1>1, StrungIs
<1> HIDE DEF first, last, at, n
<1>12. PICK t : t = Merged(lists, list, h, i)
  OBVIOUS
<1>13. PICK still : still = used \ {list}
  OBVIOUS
<1>14. Splices(Entries, Heads, Nexts(nodes), used, lists, Ends, list, h, i, Nexts(m), still, t)
  <2>1. Layout(Entries, Heads, Nexts(nodes), used, lists, Ends)
    BY DEF Strung
  <2>2. Nexts(m)[Nth(lists[h], h, Ends[h], i)] = lists[list][1]
    BY <1>1, <1>3, <1>6, <1>9, <1>10 DEF Nexts, Spot
  <2>3. Nexts(m)[lists[list][Len(lists[list])]] = Nth(lists[h], h, Ends[h], i + 1)
    BY <1>1, <1>3, <1>4, <1>7, <1>9 DEF Nexts, Spot, n
  <2>4. \A x : Laid(lists, used \ {list}, x) =>
                 \/ Nexts(m)[x] = Nexts(nodes)[x]
                 \/ x = Nth(lists[h], h, Ends[h], i)
                 \/ x = lists[list][Len(lists[list])]
    <3>1. \A x : Laid(lists, used \ {list}, x) => x \in Nodes
      BY <1>11 DEF Laid
    <3>. QED  BY <1>7, <1>9, <3>1 DEF Nexts, Spot, n
  <2>. QED  BY <1>6, <1>12, <1>13, <2>1, <2>2, <2>3, <2>4, ListGrounds DEF Splices, Merged
<1>15. /\ Layout(Entries, Heads, Nexts(m), still, t, Ends)
       /\ \A k \in Heads : \A x : In(t[k], x) <=>
            k # list /\ (In(lists[k], x) \/ (k = h /\ In(lists[list], x)))
  BY <1>14, LayoutJoined
<1>16. ASSUME NEW k \in Heads, NEW x, In(t[k], x) PROVE x \in Less(live, list) /\ o[x] = k
  <2>1. k # list /\ (In(lists[k], x) \/ (k = h /\ In(lists[list], x)))
    BY <1>15, <1>16
  <2>2. CASE In(lists[k], x)
    <3>1. x \in live /\ x \in Entries /\ own[x] = k /\ x \in Nodes
      BY <2>2, ListedIs, NoNodes
    <3>. QED  BY <1>2, <2>1, <3>1, NoNodes DEF GoesTo, Less
  <2>3. CASE k = h /\ In(lists[list], x)
    <3>1. x \in live /\ x \in Entries /\ own[x] = list /\ x \in Nodes
      BY <1>2, <2>3, ListedIs, NoNodes
    <3>. QED  BY <1>2, <2>3, <3>1, NoNodes DEF GoesTo, Less
  <2>. QED  BY <2>1, <2>2, <2>3
<1>17. ASSUME NEW x \in Less(live, list) \cap Entries PROVE Listed(t, x) \/ m[x].next = x
  <2>1. CASE Listed(lists, x)
    <3>1. PICK k \in Heads : In(lists[k], x)
      BY <2>1 DEF Listed
    <3>2. In(t[k], x) \/ In(t[h], x)
      BY <1>2, <1>15, <3>1
    <3>. QED  BY <1>2, <3>2 DEF Listed
  <2>2. CASE ~ Listed(lists, x)
    <3>1. nodes[x].next = x /\ x \in Nodes
      BY <1>1, <2>2 DEF Strung, Less
    <3>2. x # last /\ x # head
      BY <1>2, <1>3, <1>8, <2>2, NoNodes DEF Listed
    <3>. QED  BY <1>9, <3>1, <3>2
  <2>. QED  BY <2>1, <2>2
<1>18. still \subseteq Less(live, list)
  BY <1>2, <1>13 DEF Less
<1>. QED  BY <1>12, <1>13, <1>15, <1>16, <1>17, <1>18 DEF Strung

-----------------------------------------------------------------------------
(* The steps.                                                              *)

\* What ListsAreSequences takes the lists to be, and the heads that have one.
Sequences == [h \in Heads |-> IF h \in stale THEN <<>> ELSE Contents(h)]
Used == Heads \ stale

\* The walks from the heads find what the nodes say the lists are.
SeqInv == ListInv /\ Strung(node, owner, Live, Used, Sequences)

\* An entry is on a list if and only if it is linked.
LEMMA LinkedIsListed ==
  ASSUME SeqInv
  PROVE  /\ \A e \in Entries : e \in Linked <=> Listed(Sequences, e)
         /\ \A x \in Anchors : x \in Used \/ Listed(Sequences, x)
         /\ Used \subseteq Heads /\ DOMAIN Sequences = Heads
<1>1. Strung(node, owner, Live, Used, Sequences) /\ Live \subseteq Nodes
  BY Shapely DEF SeqInv
<1>2. ASSUME NEW e \in Entries, e \in Linked PROVE Listed(Sequences, e)
  <2>1. e \in Live \cap Entries /\ node[e].next # e
    BY <1>2 DEF Linked, Live
  <2>. QED  BY <1>1, <2>1 DEF Strung
<1>3. ASSUME NEW e \in Entries, Listed(Sequences, e) PROVE e \in Linked
  <2>1. node[e].next # e
    BY <1>1, <1>3, ListedNext
  <2>2. e \in Live
    BY <1>1, <1>3, ListedIs DEF Listed
  <2>. QED  BY <2>1, <2>2, NoNodes DEF Linked, Live
<1>4. \A e \in Linked : e \in Entries
  BY DEF Linked
<1>. QED  BY <1>2, <1>3, <1>4 DEF Anchors, Used, Sequences

\* After a step the lists are the ones that the nodes then say.
LEMMA Restrung ==
  ASSUME ListInv, NEW live, NEW dead, Settled(live, dead),
         NEW lists, Strung(node', owner', live, Heads \ stale', lists)
  PROVE  SeqInv' /\ Sequences' = lists
<1>1. ListInv' /\ live = Live'
  BY Settles
<1>2. /\ Layout(Entries, Heads, Nexts(node'), Heads \ stale', lists, Ends)
      /\ IsFiniteSet(Entries)
  BY NodesAssumption DEF Strung
<1>3. \A h \in Heads \ stale' : Along(Nexts(node'), Entries, Nexts(node')[h]) = lists[h]
  BY <1>2, ListGrounds, LayoutWalk
<1>4. \A h \in Heads : Contents(h)' = Along(Nexts(node'), Entries, Nexts(node')[h])
  BY NoNodes DEF Contents, From, Following, Nexts
<1>5. lists \in [Heads -> Seq(Entries)] /\ \A h \in Heads : h \in stale' => lists[h] = <<>>
  BY <1>2 DEF Layout
<1>6. Sequences' = lists
  BY <1>3, <1>4, <1>5 DEF Sequences
<1>. QED  BY <1>1, <1>6 DEF SeqInv, Used

\* What one step of the lists makes of the sequences.
Removed(g, i) == [Sequences EXCEPT ![g] = RemoveAt(Sequences[g], i)]

\* The steps of Lists, said of the sequences: one entry leaves its list, ...
ListRemoves == \E g \in Heads : \E i \in 1 .. Len(Sequences[g]) : Sequences' = Removed(g, i)

\* ... one that was on none is put somewhere on one, ...
ListInserts ==
  \E e \in Entries, h \in Heads : \E i \in 1 .. Len(Sequences[h]) + 1 :
    /\ ~ Listed(Sequences, e)
    /\ Sequences' = [Sequences EXCEPT ![h] = InsertAt(Sequences[h], i, e)]

\* ... one goes to another place, ...
ListMoves ==
  \E g, h \in Heads : \E i \in 1 .. Len(Sequences[g]) : \E j \in 1 .. Len(Removed(g, i)[h]) + 1 :
    Sequences' = [Removed(g, i) EXCEPT ![h] = InsertAt(Removed(g, i)[h], j, Sequences[g][i])]

\* ... or all of a list goes into another.
ListMerges ==
  \E g, h \in Heads : \E i \in 0 .. Len(Sequences[h]) :
    g # h /\ Sequences' = Merged(Sequences, g, h, i)

\* Every step is one of these or changes no list.
ListStep == Sequences' = Sequences \/ ListRemoves \/ ListInserts \/ ListMoves \/ ListMerges

\* Before the first entry of a list, and behind its last.
LEMMA EndGaps ==
  ASSUME NEW nodes, NEW own, NEW live, NEW dead, NEW used, NEW lists,
         Shape(nodes, own, live, dead), Strung(nodes, own, live, used, lists), NEW h \in used
  PROVE  /\ Gap(lists, h, 1, h, nodes[h].next)
         /\ Gap(lists, h, Len(lists[h]) + 1, nodes[h].prev, h)
<1>1. live \subseteq Nodes /\ WellLinked(nodes, own, live)
  BY DEF Shape
<1>2. Len(lists[h]) \in Nat /\ Ends[h] = h /\ h \in Heads
  BY <1>1, StrungIs DEF Ends
<1>3. 0 \in 0 .. Len(lists[h]) /\ Spot(lists, h, 0) = h /\ 0 + 1 = 1 /\ 1 - 1 = 0
  BY <1>2 DEF Spot, Nth
<1>4. nodes[h].next = Spot(lists, h, 1)
  <2>1. nodes[Spot(lists, h, 0)].next = Spot(lists, h, 0 + 1)
    BY <1>1, <1>3, SpotIs
  <2>. QED  BY <1>3, <2>1
<1>5. PICK n : n = Len(lists[h])
  OBVIOUS
<1>6. n \in 0 .. Len(lists[h]) /\ Spot(lists, h, n + 1) = h /\ n + 1 - 1 = n
  BY <1>2, <1>5 DEF Spot, Nth
<1>7. Spot(lists, h, n) \in live /\ nodes[Spot(lists, h, n)].next = h
  BY <1>1, <1>6, SpotIs
<1>8. nodes[h].prev = Spot(lists, h, n)
  BY <1>1, <1>7 DEF WellLinked
<1>. QED  BY <1>2, <1>3, <1>4, <1>5, <1>6, <1>8 DEF Gap

\* list_add and list_add_tail, in a gap of list h.
AddsAt(new, head, h, i) ==
  /\ new \notin Linked /\ owner' = [owner EXCEPT ![new] = owner[head]]
  /\ h \in Used /\ owner[head] = h /\ head \in Anchors
  /\ stale' = stale
  /\ \E prev, next : Gap(Sequences, h, i, prev, next) /\ node' = Between(node, new, prev, next)

\* Such an addition inserts into the sequence.
LEMMA AddInserts ==
  ASSUME SeqInv, NEW new \in Entries, NEW head, NEW h, NEW i, AddsAt(new, head, h, i),
         Settled(With(Less(Live, new), new), Less(Dead, new))
  PROVE  /\ SeqInv' /\ i \in 1 .. Len(Sequences[h]) + 1 /\ ~ Listed(Sequences, new)
         /\ Sequences' = [Sequences EXCEPT ![h] = InsertAt(Sequences[h], i, new)]
<1>1. /\ ListInv /\ Strung(node, owner, Live, Used, Sequences)
      /\ new \notin Linked /\ owner' = [owner EXCEPT ![new] = owner[head]]
      /\ h \in Used /\ owner[head] = h /\ head \in Anchors /\ stale' = stale
  BY DEF SeqInv, AddsAt
<1>2. PICK prev, next : Gap(Sequences, h, i, prev, next) /\ node' = Between(node, new, prev, next)
  BY DEF AddsAt
<1>3. ~ Listed(Sequences, new)
  BY <1>1, LinkedIsListed
<1>4. WellLinked(node, owner, Less(Live, new))
  <2>1. new \in Live => node[new].next = new
    BY <1>1, NoNodes DEF Live, Linked
  <2>2. WellLinked(node, owner, Live)
    BY <1>1 DEF ListInv, ListsWellLinked
  <2>. QED  BY <2>1, <2>2, SelfLeaves
<1>5. Shape(node, owner, Less(Live, new), Less(Dead, new))
  BY <1>1, <1>4, Shapely DEF Shape, Less
<1>6. Strung(node, owner, Less(Live, new), Used, Sequences)
  <2>1. \A g \in Heads : \A x : In(Sequences[g], x) => x # new
    BY <1>3 DEF Listed
  <2>2. new \notin Used
    BY NoNodes DEF Used
  <2>. QED  BY <1>1, <2>1, <2>2 DEF Strung, Less
<1>7. /\ new \notin Less(Live, new) /\ new \notin Less(Dead, new) /\ new \in Nodes
      /\ owner' \in Owners /\ SameBut(owner', owner, new) /\ owner'[new] = h
  BY <1>1, Shapely, NoNodes DEF Less, Owners, SameBut
<1>8. PICK lists : lists = [Sequences EXCEPT ![h] = InsertAt(Sequences[h], i, new)]
  OBVIOUS
<1>9. Strung(node', owner', With(Less(Live, new), new), Used, lists)
  BY <1>1, <1>2, <1>5, <1>6, <1>7, <1>8, BetweenInserts
<1>10. i \in 1 .. Len(Sequences[h]) + 1
  BY <1>2 DEF Gap
<1>. QED  BY <1>1, <1>3, <1>8, <1>9, <1>10, Restrung DEF Used

\* list_add and list_add_tail insert.
LEMMA AddStep ==
  ASSUME SeqInv, NEW new \in Entries, NEW head \in Nodes,
         ListAdd(new, head) \/ ListAddTail(new, head)
  PROVE  SeqInv' /\ ListInserts
<1>1. /\ node' = Behind(node, new, head) \/ node' = Before(node, new, head)
      /\ owner' = [owner EXCEPT ![new] = owner[head]]
      /\ stale' = stale /\ new \notin Linked /\ head \in Anchors
  BY DEF ListAdd, ListAddTail
<1>2. /\ Shape(node, owner, Live, Dead) /\ Strung(node, owner, Live, Used, Sequences)
      /\ Settled(With(Less(Live, new), new), Less(Dead, new))
  BY Shapely, AddKeeps DEF SeqInv
<1>3. head \in Used \/ Listed(Sequences, head)
  BY <1>1, LinkedIsListed
<1>4. PICK h \in Used : /\ owner[head] = h
                        /\ \E i : Gap(Sequences, h, i, head, node[head].next)
                        /\ \E i : Gap(Sequences, h, i, node[head].prev, head)
  BY <1>2, <1>3, Gaps
<1>5. PICK i : AddsAt(new, head, h, i)
  <2>1. CASE node' = Behind(node, new, head)
    BY <1>1, <1>4, <2>1 DEF Behind, AddsAt
  <2>2. CASE node' = Before(node, new, head)
    BY <1>1, <1>4, <2>2 DEF Before, AddsAt
  <2>. QED  BY <1>1, <2>1, <2>2
<1>6. h \in Heads
  BY DEF Used
<1>. QED  BY <1>2, <1>5, <1>6, AddInserts DEF ListInserts

\* What list_del and list_del_init do before they write the entry.
LEMMA Leaves ==
  ASSUME SeqInv, NEW e \in Live \cap Entries, NEW m, m = Without(node, e)
  PROVE  /\ Shape(m, owner, Less(Live, e), Dead)
         /\ \E lists :
              /\ Strung(m, owner, Less(Live, e), Used, lists)
              /\ \A x : Listed(Sequences, x) /\ x # e => Listed(lists, x)
              /\ \/ ~ Listed(Sequences, e) /\ lists = Sequences
                 \/ \E g \in Heads : \E i \in 1 .. Len(Sequences[g]) :
                      lists = Removed(g, i) /\ Sequences[g][i] = e
<1>1. Shape(node, owner, Live, Dead) /\ Strung(node, owner, Live, Used, Sequences)
  BY Shapely DEF SeqInv
<1>2. Shape(m, owner, Less(Live, e), Dead)
  BY <1>1, WithoutKeeps
<1>3. CASE ~ Listed(Sequences, e)
  BY <1>1, <1>2, <1>3, AloneLeaves
<1>4. CASE Listed(Sequences, e)
  <2>1. PICK g \in Used : \E i \in 1 .. Len(Sequences[g]) : \E t :
           /\ Sequences[g][i] = e /\ t = Removed(g, i)
           /\ Strung(m, owner, Less(Live, e), Used, t)
           /\ \A x : Listed(Sequences, x) /\ x # e => Listed(t, x)
    BY <1>1, <1>4, WithoutRemoves DEF Removed
  <2>. QED  BY <1>2, <2>1 DEF Used
<1>. QED  BY <1>3, <1>4

\* list_del and list_del_init remove; an entry that is on no list stays off.
LEMMA DelStep ==
  ASSUME SeqInv, NEW entry \in Entries, ListDel(entry) \/ ListDelInit(entry)
  PROVE  SeqInv' /\ (Sequences' = Sequences \/ ListRemoves)
<1>1. PICK m : m = Without(node, entry)
  OBVIOUS
<1>2. /\ entry \in Live \cap Entries /\ stale' = stale
      /\ owner' = [owner EXCEPT ![entry] = NULL]
      /\ node' = [m EXCEPT ![entry] = Poison] \/ node' = [m EXCEPT ![entry] = Self(entry)]
  BY <1>1 DEF ListDel, ListDelInit
<1>3. PICK lists : /\ Strung(m, owner, Less(Live, entry), Used, lists)
                   /\ \/ lists = Sequences
                      \/ \E g \in Heads : \E i \in 1 .. Len(Sequences[g]) : lists = Removed(g, i)
  BY <1>1, <1>2, Leaves
<1>4. Shape(m, owner, Less(Live, entry), Dead) /\ ListInv
  BY <1>1, <1>2, Leaves DEF SeqInv
<1>5. SameBut(owner', owner, entry) /\ OnlySets(node', m, entry)
  BY <1>2, <1>4, NewOwner, Shapely DEF OnlySets, Shape, NodeRecords
<1>6. Less(Live, entry) \subseteq Nodes /\ entry \notin Less(Live, entry) /\ entry \in Nodes
  BY <1>4, NoNodes DEF Shape, Less
<1>7. /\ Strung(node', owner', Less(Live, entry), Used, lists)
      /\ node'[entry].next = entry =>
           Strung(node', owner', With(Less(Live, entry), entry), Used, lists)
  BY <1>3, <1>5, <1>6, EntrySet
<1>8. SeqInv' /\ Sequences' = lists
  <2>1. CASE ListDel(entry)
    <3>1. Settled(Less(Live, entry), With(Dead, entry))
      BY <1>4, <2>1, DelKeeps
    <3>. QED  BY <1>2, <1>4, <1>7, <3>1, Restrung DEF Used
  <2>2. CASE ListDelInit(entry)
    <3>1. Settled(With(Less(Live, entry), entry), Dead)
      BY <1>4, <2>2, DelInitKeeps
    <3>2. node'[entry].next = entry
      BY <1>1, <1>4, <1>6, <2>2 DEF ListDelInit, Self, Shape, NodeRecords
    <3>. QED  BY <1>2, <1>4, <1>7, <3>1, <3>2, Restrung DEF Used
  <2>. QED  BY <2>1, <2>2
<1>. QED  BY <1>3, <1>8 DEF ListRemoves

\* list_move and list_move_tail move, or insert what was on no list.
LEMMA MoveStep ==
  ASSUME SeqInv, NEW list \in Entries, NEW head \in Nodes,
         ListMove(list, head) \/ ListMoveTail(list, head)
  PROVE  SeqInv' /\ (ListInserts \/ ListMoves)
<1>1. PICK m : m = Without(node, list)
  OBVIOUS
<1>2. /\ list \in Live \cap Entries /\ list \in Nodes /\ head \in Anchors /\ head # list
      /\ node' = Behind(m, list, head) \/ node' = Before(m, list, head)
      /\ owner' = [owner EXCEPT ![list] = owner[head]] /\ stale' = stale
  BY <1>1, NoNodes DEF ListMove, ListMoveTail
<1>3. PICK cut :
         /\ Strung(m, owner, Less(Live, list), Used, cut)
         /\ \A x : Listed(Sequences, x) /\ x # list => Listed(cut, x)
         /\ \/ ~ Listed(Sequences, list) /\ cut = Sequences
            \/ \E g \in Heads : \E i \in 1 .. Len(Sequences[g]) :
                 cut = Removed(g, i) /\ Sequences[g][i] = list
  BY <1>1, <1>2, Leaves
<1>4. /\ Shape(m, owner, Less(Live, list), Dead) /\ ListInv
      /\ Settled(With(Less(Live, list), list), Dead)
  BY <1>1, <1>2, Leaves, MoveKeeps DEF SeqInv
<1>5. head \in Used \/ Listed(cut, head)
  BY <1>2, <1>3, LinkedIsListed
<1>6. PICK h \in Used : /\ owner[head] = h
                        /\ \E i : Gap(cut, h, i, head, m[head].next)
                        /\ \E i : Gap(cut, h, i, m[head].prev, head)
  BY <1>3, <1>4, <1>5, Gaps
<1>7. PICK j, prev, next : Gap(cut, h, j, prev, next) /\ node' = Between(m, list, prev, next)
  BY <1>2, <1>6 DEF Behind, Before
<1>8. SameBut(owner', owner, list) /\ owner'[list] = h /\ list \notin Less(Live, list)
  BY <1>2, <1>4, <1>6, Shapely DEF SameBut, Owners, Less
<1>9. PICK lists : lists = [cut EXCEPT ![h] = InsertAt(cut[h], j, list)]
  OBVIOUS
<1>10. Strung(node', owner', With(Less(Live, list), list), Used, lists)
  BY <1>2, <1>3, <1>4, <1>7, <1>8, <1>9, BetweenInserts
<1>11. SeqInv' /\ Sequences' = lists
  BY <1>2, <1>4, <1>10, Restrung DEF Used
<1>12. h \in Heads /\ j \in 1 .. Len(cut[h]) + 1
  BY <1>7 DEF Gap, Used
<1>13. CASE ~ Listed(Sequences, list) /\ cut = Sequences
  BY <1>9, <1>11, <1>12, <1>13 DEF ListInserts
<1>14. CASE \E g \in Heads : \E i \in 1 .. Len(Sequences[g]) :
              cut = Removed(g, i) /\ Sequences[g][i] = list
  <2>1. PICK g \in Heads : \E i \in 1 .. Len(Sequences[g]) :
           cut = Removed(g, i) /\ Sequences[g][i] = list
    BY <1>14
  <2>2. PICK i \in 1 .. Len(Sequences[g]) : cut = Removed(g, i) /\ Sequences[g][i] = list
    BY <2>1
  <2>3. j \in 1 .. Len(Removed(g, i)[h]) + 1
    BY <1>12, <2>2
  <2>4. Sequences' = [Removed(g, i) EXCEPT ![h] = InsertAt(Removed(g, i)[h], j, Sequences[g][i])]
    BY <1>9, <1>11, <2>2
  <2>. QED  BY <1>11, <1>12, <2>3, <2>4 DEF ListMoves
<1>. QED  BY <1>3, <1>13, <1>14

\* What both splices do but for the emptied head.
LEMMA SpliceMerges ==
  ASSUME SeqInv, NEW list \in Heads, NEW head \in Nodes, CanSplice(list, head),
         NEW m, m = Spliced(node, list, head)
  PROVE  \E h \in Heads : \E i \in 0 .. Len(Sequences[h]) :
           /\ h # list
           /\ Strung(m, Handed(list, head), Less(Live, list), Used \ {list},
                     Merged(Sequences, list, h, i))
<1>1. /\ Shape(node, owner, Live, Dead) /\ Strung(node, owner, Live, Used, Sequences)
      /\ Live \subseteq Nodes
  BY Shapely DEF SeqInv
<1>2. list \in Used /\ head \in Anchors /\ owner[head] # list /\ node[list].next # list
  BY DEF CanSplice, ListEmpty, Used
<1>3. PICK h \in Used : owner[head] = h /\ \E i : Gap(Sequences, h, i, head, node[head].next)
  BY <1>1, <1>2, LinkedIsListed, Gaps
<1>4. Len(Sequences[h]) \in Nat /\ h \in Heads
  BY <1>1, StrungIs DEF Used
<1>5. PICK i \in 0 .. Len(Sequences[h]) : head = Spot(Sequences, h, i)
  <2>1. PICK j : Gap(Sequences, h, j, head, node[head].next)
    BY <1>3
  <2>2. j - 1 \in 0 .. Len(Sequences[h])
    BY <1>4, <2>1 DEF Gap
  <2>. QED  BY <2>1, <2>2 DEF Gap
<1>6. GoesTo(Handed(list, head), owner, list, head)
  BY DEF Handed, GoesTo
<1>7. Strung(m, Handed(list, head), Less(Live, list), Used \ {list},
             Merged(Sequences, list, h, i))
  BY <1>1, <1>2, <1>3, <1>5, <1>6, SplicedMerges
<1>. QED  BY <1>2, <1>3, <1>4, <1>7

\* list_splice merges and leaves a head without a list.
LEMMA SpliceStep ==
  ASSUME SeqInv, NEW list \in Heads, NEW head \in Nodes, ListSplice(list, head)
  PROVE  SeqInv' /\ ListMerges
<1>1. /\ node' = Spliced(node, list, head) /\ owner' = Handed(list, head)
      /\ CanSplice(list, head) /\ stale' = stale \cup {list}
  BY DEF ListSplice
<1>2. PICK h \in Heads : \E i \in 0 .. Len(Sequences[h]) :
           /\ h # list
           /\ Strung(node', owner', Less(Live, list), Used \ {list}, Merged(Sequences, list, h, i))
  BY <1>1, SpliceMerges
<1>3. PICK i \in 0 .. Len(Sequences[h]) :
           Strung(node', owner', Less(Live, list), Used \ {list}, Merged(Sequences, list, h, i))
  BY <1>2
<1>4. Used \ {list} = Heads \ stale' /\ ListInv /\ Settled(Less(Live, list), Dead)
  BY <1>1, SpliceKeeps DEF Used, SeqInv
<1>5. SeqInv' /\ Sequences' = Merged(Sequences, list, h, i)
  BY <1>3, <1>4, Restrung
<1>. QED  BY <1>2, <1>5 DEF ListMerges

\* list_splice_init merges and leaves a head with an empty list.
LEMMA SpliceInitStep ==
  ASSUME SeqInv, NEW list \in Heads, NEW head \in Nodes, ListSpliceInit(list, head)
  PROVE  SeqInv' /\ ListMerges
<1>1. PICK m : m = Spliced(node, list, head)
  OBVIOUS
<1>2. /\ node' = [m EXCEPT ![list] = Self(list)] /\ owner' = Handed(list, head)
      /\ CanSplice(list, head) /\ stale' = stale
  BY <1>1 DEF ListSpliceInit
<1>3. PICK h \in Heads : \E i \in 0 .. Len(Sequences[h]) :
           /\ h # list
           /\ Strung(m, owner', Less(Live, list), Used \ {list}, Merged(Sequences, list, h, i))
  BY <1>1, <1>2, SpliceMerges
<1>4. PICK i \in 0 .. Len(Sequences[h]) :
           Strung(m, owner', Less(Live, list), Used \ {list}, Merged(Sequences, list, h, i))
  BY <1>3
<1>5. /\ ListInv /\ Settled(With(Less(Live, list), list), Dead)
      /\ (Used \ {list}) \cup {list} = Heads \ stale'
  BY <1>2, SpliceInitKeeps DEF SeqInv, Used, CanSplice
<1>6. /\ Shape(m, owner', Less(Live, list), Dead) /\ list \in Nodes
      /\ list \notin Less(Live, list)
  BY <1>1, <1>2, <1>5, SpliceSteps
<1>7. /\ OnlySets(node', m, list) /\ node'[list].next = list
      /\ Less(Live, list) \subseteq Nodes
  BY <1>2, <1>6 DEF OnlySets, Shape, NodeRecords, Self
<1>8. Strung(node', owner', With(Less(Live, list), list), (Used \ {list}) \cup {list},
             Merged(Sequences, list, h, i))
  BY <1>4, <1>6, <1>7, HeadSet
<1>9. SeqInv' /\ Sequences' = Merged(Sequences, list, h, i)
  BY <1>5, <1>8, Restrung
<1>. QED  BY <1>3, <1>9 DEF ListMerges

\* INIT_LIST_HEAD gives a head that was spliced away an empty list.
LEMMA InitHeadStep ==
  ASSUME SeqInv, NEW head \in Heads, InitListHead(head)
  PROVE  SeqInv' /\ Sequences' = Sequences
<1>1. /\ node' = [node EXCEPT ![head] = Self(head)] /\ head \in stale
      /\ stale' = stale \ {head} /\ owner' = owner
  BY DEF InitListHead
<1>2. /\ ListInv /\ Settled(With(Live, head), Dead) /\ Live \subseteq Nodes /\ head \notin Live
      /\ Used \cup {head} = Heads \ stale' /\ node \in NodeRecords
      /\ Strung(node, owner', Live, Used, Sequences)
  BY <1>1, InitHeadKeeps, Shapely DEF SeqInv, Used
<1>3. OnlySets(node', node, head) /\ node'[head].next = head
  BY <1>1, <1>2, NoNodes DEF OnlySets, NodeRecords, Self
<1>4. Strung(node', owner', With(Live, head), Used \cup {head}, Sequences)
  BY <1>2, <1>3, HeadSet
<1>. QED  BY <1>2, <1>4, Restrung

\* What leaves the nodes alone leaves the lists alone.
LEMMA LinksStay ==
  ASSUME SeqInv, ListInv', UNCHANGED links
  PROVE  SeqInv' /\ Sequences' = Sequences
<1>1. node' = node /\ owner' = owner /\ stale' = stale
  BY DEF links
<1>2. Sequences' = Sequences /\ Live' = Live /\ Used' = Used
  BY <1>1 DEF Sequences, Contents, From, Following, Live, Used
<1>. QED  BY <1>1, <1>2 DEF SeqInv

\* Every step keeps the invariant and is a step of the lists.
LEMMA SeqNext ==
  ASSUME SeqInv, [ListNext]_listVars
  PROVE  SeqInv' /\ ListStep
<1>1. CASE UNCHANGED listVars
  <2>1. ListInv' /\ UNCHANGED links
    BY <1>1 DEF listVars, links, looping, SeqInv, ListInv, ListTypeOK, ListsWellLinked,
                WellLinked, Live
  <2>. QED  BY <2>1, LinksStay DEF ListStep
<1>2. CASE \/ \E head \in Heads, back \in BOOLEAN : LoopStarts(head, back)
           \/ LoopGoesOn \/ LoopEnds
  <2>1. ListInv' /\ UNCHANGED links
    BY <1>2, LoopKeeps DEF SeqInv, LoopStarts, LoopGoesOn, LoopEnds
  <2>. QED  BY <2>1, LinksStay DEF ListStep
<1>. QED
  BY <1>1, <1>2, AddStep, DelStep, MoveStep, SpliceStep, SpliceInitStep, InitHeadStep
  DEF ListNext, ListStep

\* The empty lists of the initial state.
LEMMA SeqStart ==
  ASSUME ListInit, ListInv
  PROVE  SeqInv /\ Sequences = [h \in Heads |-> <<>>]
<1>1. PICK lists : lists = [h \in Heads |-> <<>>]
  OBVIOUS
<1>2. \A x \in Nodes : node[x] = IF x \in Heads THEN Self(x) ELSE Poison
  BY DEF ListInit
<1>3. Live = Heads /\ Used = Heads
  BY <1>2, NoNodes DEF ListInit, Live, Poison, Used
<1>4. ASSUME NEW h \in Heads PROVE Nexts(node)[h] = h
  <2>1. h \in Nodes /\ node[h] = Self(h)
    BY <1>2, NoNodes
  <2>. QED  BY <2>1 DEF Nexts, Self
<1>5. \A x : ~ In(<<>>, x)
  BY DEF In
<1>6. Layout(Entries, Heads, Nexts(node), Heads, lists, Ends)
  <2>1. \A h \in Heads : Chain(Nexts(node), h, Ends[h], lists[h])
    BY <1>1, <1>4 DEF Ends, Chain, Nth
  <2>. QED  BY <1>1, <1>5, <2>1 DEF Layout, Once
<1>7. \A h \in Heads : Along(Nexts(node), Entries, Nexts(node)[h]) = lists[h]
  BY <1>6, NodesAssumption, ListGrounds, LayoutWalk
<1>8. \A h \in Heads : Contents(h) = Along(Nexts(node), Entries, Nexts(node)[h])
  BY NoNodes DEF Contents, From, Following, Nexts
<1>9. Sequences = lists
  BY <1>1, <1>7, <1>8 DEF Sequences, ListInit
<1>. QED  BY <1>1, <1>3, <1>5, <1>6, <1>9, NoNodes DEF SeqInv, Strung

\* The walks from the heads find the lists, through every operation and loop.
THEOREM SeqInvariant == ListSpec => []SeqInv
<1>1. ListInit /\ ListInv => SeqInv
  BY SeqStart
<1>2. SeqInv /\ [ListNext]_listVars => SeqInv'
  BY SeqNext
<1>. QED  BY <1>1, <1>2, ListInvariant, PTL DEF ListSpec

\* Each step of LinkedList is one of Lists, or none.
LEMMA StepIsList ==
  ASSUME SeqInv, ListStep
  PROVE  [AsSequences!Next]_Sequences
<1>1. DOMAIN Sequences = Heads /\ AsSequences!Owners = Heads
  BY DEF Sequences, AsSequences!Owners
<1>2. ASSUME NEW g \in Heads, NEW i \in 1 .. Len(Sequences[g]), Sequences' = Removed(g, i)
      PROVE  AsSequences!Next
  <2>1. AsSequences!Delete(g, i)
    BY <1>2 DEF AsSequences!Delete, AsSequences!RemoveAt, RemoveAt, Sequences, Removed
  <2>. QED  BY <1>1, <1>2, <2>1 DEF AsSequences!Next, Sequences
<1>3. ASSUME NEW e \in Entries, NEW h \in Heads, NEW i \in 1 .. Len(Sequences[h]) + 1,
             ~ Listed(Sequences, e),
             Sequences' = [Sequences EXCEPT ![h] = InsertAt(Sequences[h], i, e)]
      PROVE  AsSequences!Next
  <2>1. AsSequences!Insert(e, h, i)
    BY <1>1, <1>3 DEF AsSequences!Insert, AsSequences!InsertAt, InsertAt, Sequences,
       AsSequences!On, AsSequences!ToSet, In, Listed
  <2>. QED  BY <1>1, <1>3, <2>1 DEF AsSequences!Next, AsSequences!Places, Sequences
<1>4. ASSUME NEW g \in Heads, NEW h \in Heads, NEW i \in 1 .. Len(Sequences[g]),
             NEW j \in 1 .. Len(Removed(g, i)[h]) + 1,
             Sequences' = [Removed(g, i) EXCEPT
                             ![h] = InsertAt(Removed(g, i)[h], j, Sequences[g][i])]
      PROVE  AsSequences!Next
  <2>1. AsSequences!Move(g, i, h, j)
    BY <1>4 DEF AsSequences!Move, AsSequences!InsertAt, InsertAt, AsSequences!RemoveAt, RemoveAt,
       Sequences, Removed
  <2>2. j \in 1 .. Len(Sequences[h]) + 1
    <3>1. Sequences[h] \in Seq(Entries) /\ Sequences[g] \in Seq(Entries)
      BY DEF SeqInv, Strung, Layout
    <3>2. Len(Removed(g, i)[h]) <= Len(Sequences[h]) /\ Len(Sequences[h]) \in Nat
      BY <1>1, <3>1, RemoveAtIs, LenProperties DEF Removed
    <3>3. Len(Removed(g, i)[h]) \in Nat
      BY <1>1, <3>1, RemoveAtIs, LenProperties DEF Removed
    <3>. QED  BY <3>2, <3>3
  <2>. QED  BY <1>1, <1>4, <2>1, <2>2 DEF AsSequences!Next, AsSequences!Places, Sequences
<1>5. ASSUME NEW g \in Heads, NEW h \in Heads, NEW i \in 0 .. Len(Sequences[h]), g # h,
             Sequences' = Merged(Sequences, g, h, i)
      PROVE  AsSequences!Next
  <2>1. AsSequences!Splice(g, h, i)
    BY <1>1, <1>5 DEF AsSequences!Splice, Merged, Joined, Sequences
  <2>. QED  BY <1>1, <1>5, <2>1 DEF AsSequences!Next, Sequences
<1>. QED
  BY <1>2, <1>3, <1>4, <1>5 DEF ListStep, ListRemoves, ListInserts, ListMoves, ListMerges

\* The doubly linked lists implement the sequences of Lists: what the walk from
\* a head finds changes as a sequence does, and a head that was spliced away has
\* no list until it is initialised.
THEOREM ListImplements == ListSpec => ListsAreSequences
<1>1. ListInit /\ ListInv => AsSequences!Init
  BY SeqStart DEF AsSequences!Init, AsSequences!Owners, Sequences
<1>2. SeqInv /\ [ListNext]_listVars => [AsSequences!Next]_Sequences
  BY SeqNext, StepIsList
<1>. QED
  BY <1>1, <1>2, ListInvariant, SeqInvariant, PTL
  DEF ListSpec, ListsAreSequences, AsSequences!Spec, Sequences

-----------------------------------------------------------------------------
(* Stacks and queues.                                                      *)

\* The first and the last place of a sequence.
LEMMA InsertedAtEnds ==
  ASSUME NEW S, NEW s \in Seq(S), NEW e \in S
  PROVE  /\ InsertAt(s, 1, e) = <<e>> \o s
         /\ \A n : n = Len(s) + 1 => InsertAt(s, n, e) = s \o <<e>>
<1>1. Len(s) \in Nat /\ SubSeq(s, 1, Len(s)) = s /\ SubSeq(s, 1, 0) = <<>>
  BY LenProperties, SubSeqFull, SubSeqEmpty
<1>2. SubSeq(s, Len(s) + 1, Len(s)) = <<>>
  BY <1>1, SubSeqEmpty
<1>3. <<e>> \in Seq(S) /\ <<>> \o <<e>> = <<e>> /\ s \o <<e>> \in Seq(S)
  BY ConcatEmptySeq, ConcatProperties
<1>4. InsertAt(s, 1, e) = <<e>> \o s
  BY <1>1, <1>3 DEF InsertAt
<1>5. ASSUME NEW n, n = Len(s) + 1 PROVE InsertAt(s, n, e) = s \o <<e>>
  <2>1. n - 1 = Len(s)
    BY <1>1, <1>5
  <2>2. InsertAt(s, n, e) = (s \o <<e>>) \o <<>>
    BY <1>1, <1>2, <1>5, <2>1 DEF InsertAt
  <2>. QED  BY <1>3, <2>2, ConcatEmptySeq
<1>. QED  BY <1>4, <1>5

\* list_add puts an entry before all of a list, list_add_tail behind it.
LEMMA AddsAtEnds ==
  ASSUME SeqInv, NEW e \in Entries, NEW h \in Heads
  PROVE  /\ ListAdd(e, h) => Contents(h)' = <<e>> \o Contents(h)
         /\ ListAddTail(e, h) => Contents(h)' = Contents(h) \o <<e>>
<1> SUFFICES ASSUME ListAdd(e, h) \/ ListAddTail(e, h)
             PROVE  /\ ListAdd(e, h) => Contents(h)' = <<e>> \o Contents(h)
                    /\ ListAddTail(e, h) => Contents(h)' = Contents(h) \o <<e>>
  OBVIOUS
<1>1. /\ owner' = [owner EXCEPT ![e] = owner[h]]
      /\ stale' = stale /\ e \notin Linked /\ h \in Anchors
  BY DEF ListAdd, ListAddTail
<1>2. h \in Used /\ h \in Nodes /\ owner[h] = h
  BY <1>1, NoNodes DEF Anchors, Linked, Used, SeqInv, ListInv, ListTypeOK
<1>3. /\ Shape(node, owner, Live, Dead) /\ Strung(node, owner, Live, Used, Sequences)
      /\ Settled(With(Less(Live, e), e), Less(Dead, e))
  BY <1>2, Shapely, AddKeeps DEF SeqInv
<1>4. Sequences[h] \in Seq(Entries)
  BY <1>3 DEF Strung, Layout
<1>5. /\ Gap(Sequences, h, 1, h, node[h].next)
      /\ Gap(Sequences, h, Len(Sequences[h]) + 1, node[h].prev, h)
  BY <1>2, <1>3, EndGaps
<1>6. Sequences[h] = Contents(h) /\ Sequences'[h] = Contents(h)' /\ DOMAIN Sequences = Heads
  BY <1>1, <1>2 DEF Sequences, Used
<1>7. ASSUME ListAdd(e, h) PROVE Contents(h)' = <<e>> \o Contents(h)
  <2>1. AddsAt(e, h, h, 1)
    BY <1>1, <1>2, <1>5, <1>7 DEF AddsAt, ListAdd, Behind
  <2>2. Sequences' = [Sequences EXCEPT ![h] = InsertAt(Sequences[h], 1, e)]
    BY <1>3, <2>1, AddInserts
  <2>. QED  BY <1>4, <1>6, <2>2, InsertedAtEnds
<1>8. ASSUME ListAddTail(e, h) PROVE Contents(h)' = Contents(h) \o <<e>>
  <2>1. PICK n : n = Len(Sequences[h]) + 1
    OBVIOUS
  <2>2. AddsAt(e, h, h, n)
    BY <1>1, <1>2, <1>5, <1>8, <2>1 DEF AddsAt, ListAddTail, Before
  <2>3. Sequences' = [Sequences EXCEPT ![h] = InsertAt(Sequences[h], n, e)]
    BY <1>3, <2>2, AddInserts
  <2>. QED  BY <1>4, <1>6, <2>1, <2>3, InsertedAtEnds
<1>. QED  BY <1>7, <1>8

\* Linux's comments to list_add and list_add_tail: stacks and queues.
THEOREM StacksQueues == ListSpec => StacksAndQueues
<1>1. SeqInv /\ [ListNext]_listVars =>
        [\A e \in Entries, h \in Heads :
           /\ ListAdd(e, h) => Contents(h)' = <<e>> \o Contents(h)
           /\ ListAddTail(e, h) => Contents(h)' = Contents(h) \o <<e>>]_listVars
  BY AddsAtEnds
<1>. QED  BY <1>1, SeqInvariant, PTL DEF ListSpec, StacksAndQueues

-----------------------------------------------------------------------------
(* The loop that is safe against removal.                                  *)

\* The links in the direction of the loop.
Links(back) == [y \in Nodes |-> Following(y, back)]

\* What is behind pos for the loop: live entries that lead back to its head.
Rest(rest) ==
  /\ Once(rest) /\ ~ In(rest, pos) /\ \A x : In(rest, x) => x \in Live
  /\ Trail(Links(loop.back), loop.head, ahead, rest)
  /\ due = visited \o (<<pos>> \o rest)

\* The loop is at its end, or the rest that was due is still ahead of it.
LoopInv ==
  loop # NoLoop =>
    /\ loop.head \in Used /\ visited \in Seq(Entries)
    /\ \/ pos = loop.head /\ due = visited
       \/ pos \in Entries /\ \E rest \in Seq(Entries) : Rest(rest)

\* All but e and what leads to e or to a head other than the loop's keep their
\* links.
Calm(m, nodes, e, h, live) ==
  \A x \in (live \cap Entries) \ {e} :
    /\ nodes[x].next \notin {e} \cup (Heads \ {h}) => m[x].next = nodes[x].next
    /\ nodes[x].prev \notin {e} \cup (Heads \ {h}) => m[x].prev = nodes[x].prev

\* Taking e out is calm.
LEMMA WithoutCalm ==
  ASSUME NEW nodes, NEW own, NEW live, NEW dead, Shape(nodes, own, live, dead),
         NEW e \in live, NEW h, NEW m, m = Without(nodes, e)
  PROVE  Calm(m, nodes, e, h, live)
<1> DEFINE next == nodes[e].next
           prev == nodes[e].prev
<1>1. /\ next \in live /\ prev \in live /\ nodes[next].prev = e /\ nodes[prev].next = e
      /\ nodes \in NodeRecords /\ live \subseteq Nodes
  BY DEF Shape, WellLinked
<1>2. \A x \in Nodes : /\ m[x].next = IF x = prev THEN next ELSE nodes[x].next
                       /\ m[x].prev = IF x = next THEN prev ELSE nodes[x].prev
  BY <1>1, WithoutIs
<1> HIDE DEF next, prev
<1>. QED  BY <1>1, <1>2 DEF Calm

\* Putting e on a list that is not the loop's is calm.
LEMMA BetweenCalm ==
  ASSUME NEW nodes, NEW own, NEW live, NEW dead, Shape(nodes, own, live, dead),
         NEW e \in Entries, e \notin live, NEW h, NEW head \in (Heads \ {h}) \cap live,
         NEW m, m = Behind(nodes, e, head) \/ m = Before(nodes, e, head)
  PROVE  Calm(m, nodes, e, h, live)
<1>1. /\ nodes \in NodeRecords /\ live \subseteq Nodes /\ head \in Nodes /\ e \in Nodes
      /\ nodes[head].next \in live /\ nodes[nodes[head].next].prev = head
      /\ nodes[head].prev \in live /\ nodes[nodes[head].prev].next = head
      /\ head \notin Entries
  BY NoNodes DEF Shape, WellLinked
<1>2. CASE m = Behind(nodes, e, head)
  <2>1. PICK next : next = nodes[head].next
    OBVIOUS
  <2>2. MakesBetween(m, nodes, e, head, next)
    BY <1>1, <1>2, <2>1 DEF MakesBetween, Behind
  <2>3. \A x \in Nodes : /\ m[x].next = IF x = head THEN e ELSE IF x = e THEN next
                                        ELSE nodes[x].next
                         /\ m[x].prev = IF x = e THEN head ELSE IF x = next THEN e
                                        ELSE nodes[x].prev
    BY <2>2, BetweenIs
  <2>. QED  BY <1>1, <2>1, <2>3 DEF Calm
<1>3. CASE m = Before(nodes, e, head)
  <2>1. PICK prev : prev = nodes[head].prev
    OBVIOUS
  <2>2. MakesBetween(m, nodes, e, prev, head)
    BY <1>1, <1>3, <2>1 DEF MakesBetween, Before
  <2>3. \A x \in Nodes : /\ m[x].next = IF x = prev THEN e ELSE IF x = e THEN head
                                        ELSE nodes[x].next
                         /\ m[x].prev = IF x = e THEN prev ELSE IF x = head THEN e
                                        ELSE nodes[x].prev
    BY <2>2, BetweenIs
  <2>. QED  BY <1>1, <2>1, <2>3 DEF Calm
<1>. QED  BY <1>2, <1>3

\* What the body of the loop may do leaves the rest as it is.
LEMMA BodyKeeps ==
  ASSUME ListInv, LoopInv, loop # NoLoop, UNCHANGED looping, stale' = stale,
         Live \ {pos} \subseteq Live', Calm(node', node, pos, loop.head, Live)
  PROVE  LoopInv'
<1>1. /\ loop' = loop /\ pos' = pos /\ ahead' = ahead /\ visited' = visited /\ due' = due
      /\ Used' = Used
  BY DEF looping, Used
<1>2. loop.head \in Used /\ visited \in Seq(Entries) /\ loop.back \in BOOLEAN
  BY DEF LoopInv, ListInv, ListTypeOK
<1>3. CASE pos = loop.head /\ due = visited
  BY <1>1, <1>2, <1>3 DEF LoopInv
<1>4. CASE pos \in Entries /\ \E rest \in Seq(Entries) : Rest(rest)
  <2>1. PICK rest \in Seq(Entries) : Rest(rest)
    BY <1>4
  <2>2. Trail(Links(loop.back), loop.head, ahead, rest)
    BY <2>1 DEF Rest
  <2>3. ASSUME NEW x, In(rest, x)
        PROVE  /\ x \in Live' /\ x \in Nodes
               /\ Following(x, loop.back)' = Following(x, loop.back)
    <3>1. x \in Entries /\ x \in Live /\ x # pos /\ x \in Nodes
      BY <2>1, <2>3, InIsItem, NoNodes DEF Rest
    <3>2. Links(loop.back)[x] = loop.head \/ In(rest, Links(loop.back)[x])
      BY <2>2, <2>3, TrailLeads
    <3>3. Following(x, loop.back) \notin {pos} \cup (Heads \ {loop.head})
      <4>1. Following(x, loop.back) = loop.head \/ In(rest, Following(x, loop.back))
        BY <3>1, <3>2 DEF Links
      <4>2. ASSUME In(rest, Following(x, loop.back))
            PROVE  Following(x, loop.back) \in Entries /\ Following(x, loop.back) # pos
        BY <2>1, <4>2, InIsItem DEF Rest
      <4>. QED  BY <1>2, <1>4, <4>1, <4>2, NoNodes DEF Used
    <3>. QED  BY <1>1, <3>1, <3>3 DEF Calm, Following
  <2>4. \A x : In(rest, x) => Links(loop.back)'[x] = Links(loop.back)[x]
    BY <1>1, <2>3 DEF Links
  <2>5. Trail(Links(loop.back)', loop.head, ahead, rest)
    BY <2>2, <2>4, TrailKept
  <2>6. Rest(rest)'
    BY <1>1, <2>1, <2>3, <2>5 DEF Rest
  <2>. QED  BY <1>1, <1>2, <1>4, <2>6 DEF LoopInv
<1>. QED  BY <1>3, <1>4 DEF LoopInv

\* One calm step after the other.
LEMMA CalmBoth ==
  ASSUME NEW a, NEW b, NEW c, NEW e, NEW h, NEW live,
         Calm(b, a, e, h, live), Calm(c, b, e, h, Less(live, e))
  PROVE  Calm(c, a, e, h, live)
BY DEF Calm, Less

\* In the body of the loop only pos is touched, and put on other lists only.
LEMMA BodyTouches ==
  ASSUME LoopInv, loop # NoLoop, NEW e, Touchable(e)
  PROVE  e = pos /\ \A head : Reachable(head) => head \in Heads \ {loop.head}
BY DEF Touchable, Reachable

\* The body adds the entry at pos to another list ...
LEMMA AddBody ==
  ASSUME ListInv, LoopInv, loop # NoLoop, NEW new \in Entries, NEW head \in Nodes,
         ListAdd(new, head) \/ ListAddTail(new, head)
  PROVE  LoopInv'
<1>1. /\ Touchable(new) /\ Reachable(head) /\ new \notin Linked /\ head \in Anchors
      /\ node' = Behind(node, new, head) \/ node' = Before(node, new, head)
      /\ stale' = stale /\ UNCHANGED looping
  BY DEF ListAdd, ListAddTail
<1>2. new = pos /\ head \in Heads \ {loop.head}
  BY <1>1, BodyTouches
<1>3. With(Less(Live, new), new) = Live'
  BY AddKeeps, Settles
<1>4. Shape(node, owner, Less(Live, new), Less(Dead, new))
  <2>1. new \in Live => node[new].next = new
    BY <1>1, NoNodes DEF Live, Linked
  <2>2. WellLinked(node, owner, Less(Live, new))
    BY <2>1, SelfLeaves DEF ListInv, ListsWellLinked
  <2>. QED  BY <2>2, Shapely DEF Shape, Less
<1>5. head \in Less(Live, new) /\ new \notin Less(Live, new)
  BY <1>1, <1>2, NoNodes DEF Anchors, Live, Less, Linked
<1>6. Calm(node', node, new, loop.head, Less(Live, new))
  BY <1>1, <1>2, <1>4, <1>5, BetweenCalm
<1>7. Calm(node', node, pos, loop.head, Live) /\ Live \ {pos} \subseteq Live'
  BY <1>2, <1>3, <1>6 DEF Calm, Less, With
<1>. QED  BY <1>1, <1>7, BodyKeeps

\* ... removes it ...
LEMMA DelBody ==
  ASSUME ListInv, LoopInv, loop # NoLoop, NEW entry \in Entries,
         ListDel(entry) \/ ListDelInit(entry)
  PROVE  LoopInv'
<1>1. PICK m : m = Without(node, entry)
  OBVIOUS
<1>2. /\ Touchable(entry) /\ entry \in Live /\ stale' = stale /\ UNCHANGED looping
      /\ node' = [m EXCEPT ![entry] = Poison] \/ node' = [m EXCEPT ![entry] = Self(entry)]
  BY <1>1 DEF ListDel, ListDelInit
<1>3. entry = pos
  BY <1>2, BodyTouches
<1>4. Live \ {entry} \subseteq Live'
  <2>1. CASE ListDel(entry)
    <3>1. Less(Live, entry) = Live'
      BY <2>1, DelKeeps, Settles
    <3>. QED  BY <3>1 DEF Less
  <2>2. CASE ListDelInit(entry)
    <3>1. With(Less(Live, entry), entry) = Live'
      BY <2>2, DelInitKeeps, Settles
    <3>. QED  BY <3>1 DEF Less, With
  <2>. QED  BY <2>1, <2>2
<1>5. Calm(m, node, entry, loop.head, Live)
  BY <1>1, <1>2, Shapely, WithoutCalm
<1>6. m \in NodeRecords /\ Live \subseteq Nodes
  BY <1>1, <1>2, Shapely, WithoutKeeps DEF Shape
<1>7. \A x \in Live \ {entry} : node'[x] = m[x]
  BY <1>2, <1>6 DEF NodeRecords
<1>8. Calm(node', node, pos, loop.head, Live)
  BY <1>3, <1>5, <1>7 DEF Calm
<1>. QED  BY <1>2, <1>3, <1>4, <1>8, BodyKeeps

\* ... or moves it to another list.
LEMMA MoveBody ==
  ASSUME ListInv, LoopInv, loop # NoLoop, NEW list \in Entries, NEW head \in Nodes,
         ListMove(list, head) \/ ListMoveTail(list, head)
  PROVE  LoopInv'
<1>1. PICK m : m = Without(node, list)
  OBVIOUS
<1>2. /\ Touchable(list) /\ Reachable(head) /\ list \in Live /\ head \in Anchors
      /\ node' = Behind(m, list, head) \/ node' = Before(m, list, head)
      /\ stale' = stale /\ UNCHANGED looping
  BY <1>1 DEF ListMove, ListMoveTail
<1>3. list = pos /\ head \in Heads \ {loop.head}
  BY <1>2, BodyTouches
<1>4. Live \ {list} \subseteq Live'
  <2>1. With(Less(Live, list), list) = Live'
    BY MoveKeeps, Settles
  <2>. QED  BY <2>1 DEF Less, With
<1>5. Shape(m, owner, Less(Live, list), Dead) /\ Calm(m, node, list, loop.head, Live)
  BY <1>1, <1>2, Shapely, WithoutKeeps, WithoutCalm
<1>6. head \in Less(Live, list) /\ list \notin Less(Live, list)
  BY <1>2, <1>3, NoNodes DEF Anchors, Live, Less, Linked
<1>7. Calm(node', m, list, loop.head, Less(Live, list))
  BY <1>2, <1>3, <1>5, <1>6, BetweenCalm
<1>8. Calm(node', node, pos, loop.head, Live)
  BY <1>3, <1>5, <1>7, CalmBoth
<1>. QED  BY <1>2, <1>3, <1>4, <1>8, BodyKeeps

\* The loop goes on to the first of the rest, or to its end.
LEMMA LoopMoves ==
  ASSUME ListInv, LoopInv, LoopGoesOn
  PROVE  LoopInv'
<1>1. /\ loop # NoLoop /\ pos # loop.head
      /\ loop' = loop /\ due' = due /\ pos' = ahead /\ visited' = Append(visited, pos)
      /\ ahead' = Following(ahead, loop.back) /\ Used' = Used /\ Live' = Live
      /\ Links(loop.back)' = Links(loop.back)
  BY DEF LoopGoesOn, links, Used, Live, Links, Following
<1>2. /\ loop.head \in Used /\ visited \in Seq(Entries) /\ pos \in Entries
      /\ loop.head \notin Entries /\ loop.head \in Nodes
  BY <1>1, NoNodes DEF LoopInv, Used
<1>3. PICK rest \in Seq(Entries) : Rest(rest)
  BY <1>1 DEF LoopInv
<1>4. visited' \in Seq(Entries) /\ visited' = visited \o <<pos>>
  BY <1>1, <1>2, AppendProperties, AppendIsConcat
<1>5. CASE rest = <<>> /\ ahead = loop.head
  <2>1. due = visited \o (<<pos>> \o <<>>)
    BY <1>3, <1>5 DEF Rest
  <2>2. <<pos>> \o <<>> = <<pos>>
    BY <1>2, ConcatEmptySeq
  <2>. QED  BY <1>1, <1>2, <1>4, <1>5, <2>1, <2>2 DEF LoopInv
<1>6. ASSUME NEW t, StepsTo(Entries, Links(loop.back), loop.head, ahead, rest, t)
      PROVE  LoopInv'
  <2>0. /\ t \in Seq(Entries) /\ ahead \in Entries /\ In(rest, ahead)
        /\ rest = <<ahead>> \o t /\ Once(t) /\ ~ In(t, ahead)
        /\ \A y : In(t, y) => In(rest, y)
        /\ Trail(Links(loop.back), loop.head, Links(loop.back)[ahead], t)
    BY <1>6 DEF StepsTo
  <2>1. Links(loop.back)[ahead] = Following(ahead, loop.back)
    BY <2>0, NoNodes DEF Links
  <2>2. due = visited' \o (<<ahead>> \o t)
    <3>1. due = visited \o (<<pos>> \o (<<ahead>> \o t))
      BY <1>3, <2>0 DEF Rest
    <3>2. <<pos>> \in Seq(Entries) /\ <<ahead>> \o t \in Seq(Entries)
      BY <1>2, <1>3, <2>0
    <3>3. PICK at, to : at = <<pos>> /\ to = <<ahead>> \o t
      OBVIOUS
    <3>4. visited \in Seq(Entries) /\ at \in Seq(Entries) /\ to \in Seq(Entries)
      BY <1>2, <3>2, <3>3
    <3>5. (visited \o at) \o to = visited \o (at \o to)
      BY <3>4, ConcatAssociative
    <3>. QED  BY <1>4, <3>1, <3>3, <3>5
  <2>3. \A x : In(t, x) => x \in Live
    BY <1>3, <2>0 DEF Rest
  <2>4. Rest(t)'
    BY <1>1, <2>0, <2>1, <2>2, <2>3 DEF Rest
  <2>. QED  BY <1>1, <1>2, <1>4, <2>0, <2>4 DEF LoopInv
<1>7. \/ rest = <<>> /\ ahead = loop.head
      \/ \E t : StepsTo(Entries, Links(loop.back), loop.head, ahead, rest, t)
  <2>1. rest \in Seq(Entries) /\ Once(rest) /\ Trail(Links(loop.back), loop.head, ahead, rest)
    BY <1>3 DEF Rest
  <2>. QED  BY <2>1, TrailSteps
<1>. QED  BY <1>5, <1>6, <1>7

\* The list of a head, in the direction of the loop.
LEMMA LoopList ==
  ASSUME SeqInv, NEW head \in Used, NEW back \in BOOLEAN
  PROVE  \E t \in Seq(Entries) :
           Once(t) /\ (\A x : In(t, x) => x \in Live) /\ Chain(Links(back), head, head, t)
<1>1. /\ Layout(Entries, Heads, Nexts(node), Used, Sequences, Ends) /\ head \in Heads
      /\ Strung(node, owner, Live, Used, Sequences) /\ Live \subseteq Nodes
      /\ Used \subseteq Live
  BY Shapely DEF SeqInv, Strung, Used
<1>2. PICK s : s = Sequences[head]
  OBVIOUS
<1>3. s \in Seq(Entries) /\ Once(s) /\ Chain(Nexts(node), head, head, s)
  BY <1>1, <1>2 DEF Layout, Ends
<1>4. \A x : In(s, x) => x \in Live
  BY <1>1, <1>2, ListedIs
<1>5. CASE back = FALSE
  <2>1. Links(back) = Nexts(node)
    BY <1>5 DEF Links, Following, Nexts
  <2>. QED  BY <1>3, <1>4, <2>1
<1>6. CASE back = TRUE
  <2>1. ASSUME NEW x, x = head \/ In(s, x) PROVE Links(back)[Nexts(node)[x]] = x
    <3>1. x \in Live /\ x \in Nodes
      BY <1>1, <1>4, <2>1
    <3>2. node[x].next \in Live /\ node[node[x].next].prev = x
      BY <3>1 DEF SeqInv, ListInv, ListsWellLinked, WellLinked
    <3>. QED  BY <1>1, <1>6, <3>1, <3>2 DEF Links, Following, Nexts
  <2>2. PICK t \in Seq(Entries) :
          Once(t) /\ (\A x : In(t, x) <=> In(s, x)) /\ Chain(Links(back), head, head, t)
    BY <1>3, <2>1, ChainBack
  <2>. QED  BY <1>4, <2>2
<1>. QED  BY <1>5, <1>6

\* The loop starts with all of the list due.
LEMMA LoopBegins ==
  ASSUME SeqInv, NEW head \in Heads, NEW back \in BOOLEAN, LoopStarts(head, back)
  PROVE  LoopInv'
<1>1. /\ head \in Used /\ head \in Nodes /\ head \notin Entries
      /\ loop' = [head |-> head, back |-> back] /\ pos' = Links(back)[head]
      /\ ahead' = Following(pos', back) /\ visited' = <<>>
      /\ due' = Along(Links(back), Entries, pos')
      /\ Used' = Used /\ Live' = Live /\ Links(back)' = Links(back)
  BY NoNodes DEF LoopStarts, links, Used, Live, Links, Following, From
<1>2. loop'.head = head /\ loop'.back = back
  BY <1>1
<1>3. PICK t \in Seq(Entries) :
         Once(t) /\ (\A x : In(t, x) => x \in Live) /\ Chain(Links(back), head, head, t)
  BY <1>1, LoopList
<1>4. Trail(Links(back), head, pos', t)
  BY <1>1, <1>3, ChainTrail
<1>5. due' = t
  BY <1>1, <1>3, <1>4, NodesAssumption, TrailWalk
<1>6. CASE t = <<>> /\ pos' = head
  BY <1>1, <1>2, <1>5, <1>6 DEF LoopInv
<1>7. ASSUME NEW r, StepsTo(Entries, Links(back), head, pos', t, r)
      PROVE  LoopInv'
  <2>0. /\ r \in Seq(Entries) /\ pos' \in Entries /\ t = <<pos'>> \o r
        /\ Once(r) /\ ~ In(r, pos') /\ \A y : In(r, y) => In(t, y)
        /\ Trail(Links(back), head, Links(back)[pos'], r)
    BY <1>7 DEF StepsTo
  <2>1. Links(back)[pos'] = ahead'
    BY <1>1, <2>0, NoNodes DEF Links
  <2>2. due' = visited' \o (<<pos'>> \o r)
    BY <1>1, <1>3, <1>5, <2>0, ConcatEmptySeq
  <2>3. Rest(r)'
    BY <1>1, <1>2, <1>3, <2>0, <2>1, <2>2 DEF Rest
  <2>. QED  BY <1>1, <1>2, <2>0, <2>3 DEF LoopInv
<1>. QED  BY <1>3, <1>4, <1>6, <1>7, TrailSteps

\* Every step, of the loop or of its body, keeps the invariant.
LEMMA LoopNext ==
  ASSUME SeqInv, LoopInv, [ListNext]_listVars
  PROVE  LoopInv'
<1>1. CASE UNCHANGED listVars
  BY <1>1 DEF LoopInv, Rest, Links, Following, Live, Used, listVars, links, looping
<1>2. CASE loop = NoLoop /\ UNCHANGED looping
  BY <1>2 DEF LoopInv, looping
<1>3. CASE LoopEnds
  BY <1>3 DEF LoopInv, LoopEnds
<1>4. ASSUME NEW e \in Entries, NEW head \in Nodes,
             \/ ListAdd(e, head) \/ ListAddTail(e, head)
             \/ ListMove(e, head) \/ ListMoveTail(e, head)
      PROVE  LoopInv'
  <2>1. UNCHANGED looping
    BY <1>4 DEF ListAdd, ListAddTail, ListMove, ListMoveTail
  <2>2. ASSUME loop # NoLoop PROVE LoopInv'
    BY <1>4, <2>2, AddBody, MoveBody DEF SeqInv
  <2>. QED  BY <1>2, <2>1, <2>2
<1>5. ASSUME NEW e \in Entries, ListDel(e) \/ ListDelInit(e) PROVE LoopInv'
  <2>1. UNCHANGED looping
    BY <1>5 DEF ListDel, ListDelInit
  <2>2. ASSUME loop # NoLoop PROVE LoopInv'
    BY <1>5, <2>2, DelBody DEF SeqInv
  <2>. QED  BY <1>2, <2>1, <2>2
<1>6. ASSUME NEW list \in Heads, NEW head \in Nodes,
             ListSplice(list, head) \/ ListSpliceInit(list, head)
      PROVE  LoopInv'
  BY <1>2, <1>6 DEF ListSplice, ListSpliceInit, CanSplice
<1>7. ASSUME NEW head \in Heads, InitListHead(head) PROVE LoopInv'
  BY <1>2, <1>7 DEF InitListHead
<1>. QED
  BY <1>1, <1>3, <1>4, <1>5, <1>6, <1>7, LoopMoves, LoopBegins DEF ListNext, SeqInv

\* The walk from ahead finds the rest.
LEMMA LoopComesTo ==
  ASSUME ListInv, LoopInv
  PROVE  LoopVisitsAll
<1>1. SUFFICES ASSUME loop # NoLoop
               PROVE  due = visited \o IF pos = loop.head THEN <<>>
                                       ELSE <<pos>> \o From(ahead, loop.back)
  BY DEF LoopVisitsAll
<1>2. loop.head \in Used /\ loop.head \notin Entries /\ visited \in Seq(Entries)
  BY <1>1, NoNodes DEF LoopInv, Used
<1>3. CASE pos = loop.head /\ due = visited
  BY <1>2, <1>3, ConcatEmptySeq
<1>4. CASE pos \in Entries /\ \E rest \in Seq(Entries) : Rest(rest)
  <2>1. PICK rest \in Seq(Entries) : Rest(rest)
    BY <1>4
  <2>2. Along(Links(loop.back), Entries, ahead) = rest
    BY <1>2, <2>1, NodesAssumption, TrailWalk DEF Rest
  <2>3. due = visited \o (<<pos>> \o From(ahead, loop.back))
    BY <2>1, <2>2 DEF Rest, From, Links
  <2>. QED  BY <1>2, <1>4, <2>3
<1>. QED  BY <1>1, <1>3, <1>4 DEF LoopInv

\* The loop always has what was due behind it, at pos or before it.
LEMMA LoopInvariant == ListSpec => []LoopInv
<1>1. ListInit => LoopInv
  BY DEF ListInit, LoopInv
<1>2. SeqInv /\ LoopInv /\ [ListNext]_listVars => LoopInv'
  BY LoopNext
<1>. QED  BY <1>1, <1>2, SeqInvariant, PTL DEF ListSpec

\* list_for_each_safe and its reverse: whatever the body does with the entry
\* at pos, the loop comes to every entry that was on its list, in its order.
THEOREM LoopCorrect == ListSpec => []LoopVisitsAll
<1>1. ListInv /\ LoopInv => LoopVisitsAll
  BY LoopComesTo
<1>. QED  BY <1>1, ListInvariant, LoopInvariant, PTL

\* list_for_each_safe reads n before the body runs, and what the body does to
\* pos never makes n a pointer that must not be followed.
THEOREM LoopSafe == ListSpec => []LoopNeverFaults
<1>1. ASSUME ListInv, LoopInv PROVE LoopNeverFaults
  <2>1. SUFFICES ASSUME loop # NoLoop, pos # loop.head PROVE ahead \in Live
    BY DEF LoopNeverFaults
  <2>2. PICK rest \in Seq(Entries) : Rest(rest)
    BY <1>1, <2>1 DEF LoopInv
  <2>3. ahead = loop.head \/ In(rest, ahead)
    <3>1. ahead = Nth(rest, loop.head, loop.head, 1)
      BY <2>2 DEF Rest, Trail
    <3>. QED  BY <3>1, LenProperties DEF Nth, In
  <2>. QED  BY <1>1, <2>1, <2>2, <2>3 DEF LoopInv, Rest, Used, Live
<1>. QED  BY <1>1, ListInvariant, LoopInvariant, PTL

=============================================================================
