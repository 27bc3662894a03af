------------------------- MODULE LinkedList_proofs -------------------------
(***************************************************************************)
(* The doubly linked lists stay well linked, for any number of heads and   *)
(* entries. Lemmas about the operators on nodes come first: each says what *)
(* set of nodes is well linked after, from the set that was before.        *)
(***************************************************************************)
EXTENDS LinkedList, TLAPS

\* What the nodes and their owners are in every state.
NodeRecords == [Nodes -> [next : Nodes \cup {LIST_POISON1}, prev : Nodes \cup {LIST_POISON2}]]
Owners == {own \in [Nodes -> Heads \cup {NULL}] : \A h \in Heads : own[h] = h}

\* A set with one more member, and with one less.
With(S, x) == S \cup {x}
Less(S, x) == S \ {x}

\* All that an operation keeps: the nodes in live lead to each other, and the
\* entries in dead are poisoned. An entry that is being moved is in neither.
Shape(nodes, own, live, dead) ==
  /\ nodes \in NodeRecords /\ own \in Owners
  /\ live \subseteq Nodes /\ dead \subseteq Entries \ live
  /\ WellLinked(nodes, own, live)
  /\ \A e \in dead : nodes[e].next = LIST_POISON1

\* Two functions differ in x only; x takes over what is at y.
SameBut(f, g, x) == \A y \in Nodes \ {x} : f[y] = g[y]
TakesOver(f, g, x, y) == SameBut(f, g, x) /\ f[x] = g[y]

\* The entries that list_del poisoned.
Dead == Entries \ Live
ListInv == ListTypeOK /\ ListsWellLinked

\* NULL and the poisons are no node, and no head is an entry.
LEMMA NoNodes ==
  /\ NULL \notin Nodes /\ LIST_POISON1 \notin Nodes /\ LIST_POISON2 \notin Nodes
  /\ Heads \cap Entries = {} /\ Heads \subseteq Nodes /\ Entries \subseteq Nodes
BY NodesAssumption DEF Nodes

\* The assignments to one member of one node.
SetsNext(m, nodes, x, v) == m = [nodes EXCEPT ![x].next = v]
SetsPrev(m, nodes, x, v) == m = [nodes EXCEPT ![x].prev = v]

\* What else an assignment to next leaves as it was.
LEMMA SetNext ==
  ASSUME NEW nodes \in NodeRecords, NEW x \in Nodes, NEW v \in Nodes,
         NEW m, SetsNext(m, nodes, x, v)
  PROVE  /\ m \in NodeRecords
         /\ \A y \in Nodes : m[y].prev = nodes[y].prev
                             /\ m[y].next = IF y = x THEN v ELSE nodes[y].next
BY DEF NodeRecords, SetsNext

\* The same of prev.
LEMMA SetPrev ==
  ASSUME NEW nodes \in NodeRecords, NEW x \in Nodes, NEW v \in Nodes,
         NEW m, SetsPrev(m, nodes, x, v)
  PROVE  /\ m \in NodeRecords
         /\ \A y \in Nodes : m[y].next = nodes[y].next
                             /\ m[y].prev = IF y = x THEN v ELSE nodes[y].prev
BY DEF NodeRecords, SetsPrev

\* A node that others do not lead to points to itself: a list of its own.
LEMMA SelfJoins ==
  ASSUME NEW nodes, NEW own, NEW live, NEW dead, Shape(nodes, own, live, dead),
         NEW e \in Nodes, e \notin live, e \notin dead,
         NEW m, m = [nodes EXCEPT ![e] = Self(e)],
         NEW o \in Owners, SameBut(o, own, e)
  PROVE  Shape(m, o, With(live, e), dead)
<1>1. /\ m \in NodeRecords
      /\ \A x \in Nodes : m[x] = IF x = e THEN Self(e) ELSE nodes[x]
  BY DEF Shape, NodeRecords, Self
<1>2. ASSUME NEW x \in With(live, e)
      PROVE  /\ m[x].next \in With(live, e) /\ m[x].prev \in With(live, e)
             /\ m[m[x].next].prev = x /\ m[m[x].prev].next = x
             /\ o[m[x].next] = o[x]
  <2>1. CASE x = e
    BY <1>1, <2>1 DEF Self, With
  <2>2. CASE x # e
    <3>1. /\ nodes[x].next \in live /\ nodes[x].prev \in live
          /\ nodes[nodes[x].next].prev = x /\ nodes[nodes[x].prev].next = x
          /\ own[nodes[x].next] = own[x]
          /\ x \in live /\ live \subseteq Nodes
      BY <2>2 DEF Shape, WellLinked, With
    <3>2. m[x] = nodes[x] /\ o[x] = own[x]
      BY <1>1, <2>2, <3>1 DEF SameBut
    <3>. QED  BY <1>1, <3>1, <3>2 DEF SameBut, With
  <2>. QED  BY <2>1, <2>2
<1>3. WellLinked(m, o, With(live, e))
  BY <1>2 DEF WellLinked
<1>4. \A d \in dead : m[d].next = LIST_POISON1
  BY <1>1, NoNodes DEF Shape
<1>. QED  BY <1>1, <1>3, <1>4 DEF Shape, With

\* A node that others do not lead to is poisoned.
LEMMA PoisonLeaves ==
  ASSUME NEW nodes, NEW own, NEW live, NEW dead, Shape(nodes, own, live, dead),
         NEW e \in Entries, e \notin live,
         NEW m, m = [nodes EXCEPT ![e] = Poison],
         NEW o \in Owners, SameBut(o, own, e)
  PROVE  Shape(m, o, live, With(dead, e))
<1>1. /\ m \in NodeRecords
      /\ \A x \in Nodes : m[x] = IF x = e THEN Poison ELSE nodes[x]
  BY NoNodes DEF Shape, NodeRecords, Poison
<1>2. \A x \in live : m[x] = nodes[x] /\ o[x] = own[x]
  BY <1>1 DEF Shape, SameBut
<1>3. WellLinked(m, o, live)
  BY <1>2 DEF Shape, WellLinked
<1>4. \A d \in With(dead, e) : m[d].next = LIST_POISON1
  BY <1>1, NoNodes DEF Shape, With, Poison
<1>. QED  BY <1>1, <1>3, <1>4 DEF Shape, With

\* No other node leads to a node that points to itself.
LEMMA SelfLeaves ==
  ASSUME NEW nodes, NEW own, NEW live, WellLinked(nodes, own, live),
         NEW e, e \in live => nodes[e].next = e
  PROVE  WellLinked(nodes, own, Less(live, e))
BY DEF WellLinked, Less

\* What __list_del writes.
LEMMA WithoutIs ==
  ASSUME NEW nodes \in NodeRecords, NEW e, NEW next \in Nodes, NEW prev \in Nodes,
         next = nodes[e].next, prev = nodes[e].prev, NEW m, m = Without(nodes, e)
  PROVE  /\ m \in NodeRecords
         /\ \A x \in Nodes : /\ m[x].next = IF x = prev THEN next ELSE nodes[x].next
                             /\ m[x].prev = IF x = next THEN prev ELSE nodes[x].prev
<1>1. m = [[nodes EXCEPT ![next].prev = prev] EXCEPT ![prev].next = next]
  BY DEF Without
<1>2. PICK half : SetsPrev(half, nodes, next, prev)
  BY DEF SetsPrev
<1>3. /\ half \in NodeRecords
      /\ \A x \in Nodes : half[x].next = nodes[x].next
                          /\ half[x].prev = IF x = next THEN prev ELSE nodes[x].prev
  BY <1>2, SetPrev
<1>4. SetsNext(m, half, prev, next)
  BY <1>1, <1>2 DEF SetsNext, SetsPrev
<1>5. /\ m \in NodeRecords
      /\ \A x \in Nodes : m[x].prev = half[x].prev
                          /\ m[x].next = IF x = prev THEN next ELSE half[x].next
  BY <1>3, <1>4, SetNext
<1>. QED  BY <1>3, <1>5

\* __list_del: the others stay well linked.
LEMMA WithoutKeeps ==
  ASSUME NEW nodes, NEW own, NEW live, NEW dead, Shape(nodes, own, live, dead),
         NEW e \in live, NEW m, m = Without(nodes, e)
  PROVE  Shape(m, own, Less(live, e), dead)
<1> DEFINE next == nodes[e].next
           prev == nodes[e].prev
<1>1. /\ next \in live /\ prev \in live
      /\ nodes[next].prev = e /\ nodes[prev].next = e
      /\ own[next] = own[e] /\ own[prev] = own[e]
      /\ next = e <=> prev = e
  BY DEF Shape, WellLinked
<1>2. nodes \in NodeRecords /\ live \subseteq Nodes /\ next \in Nodes /\ prev \in Nodes
  BY <1>1 DEF Shape
<1>4. \A x \in live : /\ nodes[x].next = e => x = prev
                      /\ nodes[x].next = next => x = e
                      /\ nodes[x].prev = e => x = next
                      /\ nodes[x].prev = prev => x = e
  BY <1>1 DEF Shape, WellLinked
<1>5. /\ m \in NodeRecords
      /\ \A x \in Nodes : /\ m[x].next = IF x = prev THEN next ELSE nodes[x].next
                          /\ m[x].prev = IF x = next THEN prev ELSE nodes[x].prev
  BY <1>2, WithoutIs
<1> HIDE DEF next, prev
<1>6. ASSUME NEW x \in Less(live, e)
      PROVE  m[x].next \in Less(live, e) /\ m[m[x].next].prev = x /\ own[m[x].next] = own[x]
  <2>1. CASE x = prev
    BY <1>1, <1>2, <1>5, <2>1 DEF Less
  <2>2. CASE x # prev
    <3>1. m[x].next = nodes[x].next /\ x \in live /\ x # e
      BY <1>2, <1>5, <2>2 DEF Less
    <3>2. /\ nodes[x].next \in live /\ nodes[nodes[x].next].prev = x
          /\ own[nodes[x].next] = own[x]
      BY <3>1 DEF Shape, WellLinked
    <3>3. nodes[x].next # e /\ nodes[x].next # next
      BY <1>4, <2>2, <3>1
    <3>. QED  BY <1>2, <1>5, <3>1, <3>2, <3>3 DEF Less
  <2>. QED  BY <2>1, <2>2
<1>7. ASSUME NEW x \in Less(live, e)
      PROVE  m[x].prev \in Less(live, e) /\ m[m[x].prev].next = x
  <2>1. CASE x = next
    BY <1>1, <1>2, <1>5, <2>1 DEF Less
  <2>2. CASE x # next
    <3>1. m[x].prev = nodes[x].prev /\ x \in live /\ x # e
      BY <1>2, <1>5, <2>2 DEF Less
    <3>2. nodes[x].prev \in live /\ nodes[nodes[x].prev].next = x
      BY <3>1 DEF Shape, WellLinked
    <3>3. nodes[x].prev # e /\ nodes[x].prev # prev
      BY <1>4, <2>2, <3>1
    <3>. QED  BY <1>2, <1>5, <3>1, <3>2, <3>3 DEF Less
  <2>. QED  BY <2>1, <2>2
<1>8. WellLinked(m, own, Less(live, e))
  BY <1>6, <1>7 DEF WellLinked
<1>9. \A d \in dead : m[d].next = LIST_POISON1
  <2>. TAKE d \in dead
  <2>1. d \in Nodes /\ d # prev /\ nodes[d].next = LIST_POISON1
    BY <1>1, NoNodes DEF Shape
  <2>. QED  BY <1>5, <2>1
<1>. QED  BY <1>5, <1>8, <1>9 DEF Shape, Less

\* What __list_add writes.
MakesBetween(m, nodes, new, prev, next) ==
  /\ nodes \in NodeRecords
  /\ new \in Nodes /\ prev \in Nodes /\ next \in Nodes /\ new # next /\ new # prev
  /\ m = Between(nodes, new, prev, next)

\* The links after it, whichever of the three nodes are one.
LEMMA BetweenIs ==
  ASSUME NEW nodes, NEW new, NEW prev, NEW next, NEW m, MakesBetween(m, nodes, new, prev, next)
  PROVE  /\ m \in NodeRecords
         /\ \A x \in Nodes : /\ m[x].next = IF x = prev THEN new ELSE IF x = new THEN next
                                            ELSE nodes[x].next
                             /\ m[x].prev = IF x = new THEN prev ELSE IF x = next THEN new
                                            ELSE nodes[x].prev
<1> USE DEF MakesBetween
<1>1. m = [[[nodes EXCEPT ![next].prev = new] EXCEPT ![new] = [next |-> next, prev |-> prev]]
             EXCEPT ![prev].next = new]
  BY DEF Between
<1>2. PICK half : SetsPrev(half, nodes, next, new)
  BY DEF SetsPrev
<1>3. /\ half \in NodeRecords
      /\ \A x \in Nodes : half[x].next = nodes[x].next
                          /\ half[x].prev = IF x = next THEN new ELSE nodes[x].prev
  BY <1>2, SetPrev
<1>4. PICK most : most = [half EXCEPT ![new] = [next |-> next, prev |-> prev]]
  OBVIOUS
<1>5. /\ most \in NodeRecords
      /\ \A x \in Nodes : most[x] = IF x = new THEN [next |-> next, prev |-> prev] ELSE half[x]
  BY <1>3, <1>4 DEF NodeRecords
<1>6. SetsNext(m, most, prev, new)
  BY <1>1, <1>2, <1>4 DEF SetsNext, SetsPrev
<1>7. /\ m \in NodeRecords
      /\ \A x \in Nodes : m[x].prev = most[x].prev
                          /\ m[x].next = IF x = prev THEN new ELSE most[x].next
  BY <1>5, <1>6, SetNext
<1>. QED  BY <1>3, <1>5, <1>7

\* __list_add: a node that is on no list joins the one it is put on.
LEMMA BetweenKeeps ==
  ASSUME NEW nodes, NEW own, NEW live, NEW dead, Shape(nodes, own, live, dead),
         NEW new \in Nodes, new \notin live, new \notin dead,
         NEW prev \in live, NEW next \in live,
         nodes[prev].next = next,
         NEW o \in Owners, TakesOver(o, own, new, prev),
         NEW m, m = Between(nodes, new, prev, next)
  PROVE  Shape(m, o, With(live, new), dead)
<1>1. nodes[next].prev = prev /\ own[next] = own[prev] /\ new # next /\ new # prev
  BY DEF Shape, WellLinked
<1>2. nodes \in NodeRecords /\ live \subseteq Nodes /\ next \in Nodes /\ prev \in Nodes
  BY DEF Shape
<1>4. /\ m \in NodeRecords
      /\ \A x \in Nodes : /\ m[x].next = IF x = prev THEN new ELSE IF x = new THEN next
                                         ELSE nodes[x].next
                          /\ m[x].prev = IF x = new THEN prev ELSE IF x = next THEN new
                                         ELSE nodes[x].prev
  <2>1. MakesBetween(m, nodes, new, prev, next)
    BY <1>1, <1>2 DEF MakesBetween
  <2>. QED  BY <2>1, BetweenIs
<1>5. o[new] = own[prev] /\ \A x \in Nodes : x # new => o[x] = own[x]
  BY DEF TakesOver, SameBut
<1>6. \A x \in live : /\ nodes[x].next = next => x = prev
                      /\ nodes[x].prev = prev => x = next
  BY <1>1 DEF Shape, WellLinked
<1>7. ASSUME NEW x \in With(live, new)
      PROVE  /\ m[x].next \in With(live, new) /\ m[m[x].next].prev = x
             /\ o[m[x].next] = o[x]
  <2>1. CASE x = new \/ x = prev
    BY <1>1, <1>2, <1>4, <1>5, <2>1 DEF With
  <2>2. CASE x # new /\ x # prev
    <3>1. m[x].next = nodes[x].next /\ x \in live
      BY <1>2, <1>4, <2>2 DEF With
    <3>2. /\ nodes[x].next \in live /\ nodes[nodes[x].next].prev = x
          /\ own[nodes[x].next] = own[x]
      BY <3>1 DEF Shape, WellLinked
    <3>3. nodes[x].next # new /\ nodes[x].next # next
      BY <1>6, <2>2, <3>1, <3>2
    <3>. QED  BY <1>2, <1>4, <1>5, <2>2, <3>1, <3>2, <3>3 DEF With
  <2>. QED  BY <2>1, <2>2
<1>8. ASSUME NEW x \in With(live, new)
      PROVE  m[x].prev \in With(live, new) /\ m[m[x].prev].next = x
  <2>1. CASE x = new \/ x = next
    BY <1>1, <1>2, <1>4, <2>1 DEF With
  <2>2. CASE x # new /\ x # next
    <3>1. m[x].prev = nodes[x].prev /\ x \in live
      BY <1>2, <1>4, <2>2 DEF With
    <3>2. nodes[x].prev \in live /\ nodes[nodes[x].prev].next = x
      BY <3>1 DEF Shape, WellLinked
    <3>3. nodes[x].prev # new /\ nodes[x].prev # prev
      BY <1>6, <2>2, <3>1, <3>2
    <3>. QED  BY <1>2, <1>4, <3>1, <3>2, <3>3 DEF With
  <2>. QED  BY <2>1, <2>2
<1>9. WellLinked(m, o, With(live, new))
  BY <1>7, <1>8 DEF WellLinked
<1>10. \A d \in dead : m[d].next = LIST_POISON1
  <2>. TAKE d \in dead
  <2>1. d \in Nodes /\ d # prev /\ d # new /\ nodes[d].next = LIST_POISON1
    BY NoNodes DEF Shape
  <2>. QED  BY <1>4, <2>1
<1>. QED  BY <1>4, <1>9, <1>10 DEF Shape, With

\* list_add, behind a node that is on a list.
LEMMA BehindKeeps ==
  ASSUME NEW nodes, NEW own, NEW live, NEW dead, Shape(nodes, own, live, dead),
         NEW new \in Nodes, new \notin live, new \notin dead, NEW head \in live,
         NEW o \in Owners, TakesOver(o, own, new, head),
         NEW m, m = Behind(nodes, new, head)
  PROVE  Shape(m, o, With(live, new), dead)
<1>1. PICK next \in live : nodes[head].next = next
  BY DEF Shape, WellLinked
<1>2. m = Between(nodes, new, head, next)
  BY <1>1 DEF Behind
<1>. QED  BY <1>1, <1>2, BetweenKeeps

\* list_add_tail, before it.
LEMMA BeforeKeeps ==
  ASSUME NEW nodes, NEW own, NEW live, NEW dead, Shape(nodes, own, live, dead),
         NEW new \in Nodes, new \notin live, new \notin dead, NEW head \in live,
         NEW o \in Owners, TakesOver(o, own, new, head),
         NEW m, m = Before(nodes, new, head)
  PROVE  Shape(m, o, With(live, new), dead)
<1>1. PICK prev \in live : prev = nodes[head].prev
  BY DEF Shape, WellLinked
<1>2. nodes[prev].next = head /\ own[prev] = own[head]
  BY <1>1 DEF Shape, WellLinked
<1>3. TakesOver(o, own, new, prev)
  BY <1>2 DEF TakesOver
<1>4. m = Between(nodes, new, prev, head)
  BY <1>1 DEF Before
<1>. QED  BY <1>2, <1>3, <1>4, BetweenKeeps

\* What an owner is after its list was spliced to head's.
GoesTo(o, own, list, head) ==
  \A x \in Nodes : o[x] = IF x # list /\ own[x] = list THEN own[head] ELSE own[x]

\* What __list_splice writes.
LEMMA SplicedIs ==
  ASSUME NEW nodes \in NodeRecords, NEW list, NEW head \in Nodes,
         NEW first \in Nodes, NEW last \in Nodes, NEW at \in Nodes,
         first = nodes[list].next, last = nodes[list].prev, at = nodes[head].next,
         NEW m, m = Spliced(nodes, list, head)
  PROVE  /\ m \in NodeRecords
         /\ \A x \in Nodes : /\ m[x].next = IF x = last THEN at ELSE IF x = head THEN first
                                            ELSE nodes[x].next
                             /\ m[x].prev = IF x = at THEN last ELSE IF x = first THEN head
                                            ELSE nodes[x].prev
<1>1. m = [[[[nodes EXCEPT ![first].prev = head] EXCEPT ![head].next = first]
              EXCEPT ![last].next = at] EXCEPT ![at].prev = last]
  BY DEF Spliced
<1>2. PICK m1 : SetsPrev(m1, nodes, first, head)
  BY DEF SetsPrev
<1>3. /\ m1 \in NodeRecords
      /\ \A x \in Nodes : m1[x].next = nodes[x].next
                          /\ m1[x].prev = IF x = first THEN head ELSE nodes[x].prev
  BY <1>2, SetPrev
<1>4. PICK m2 : SetsNext(m2, m1, head, first)
  BY DEF SetsNext
<1>5. /\ m2 \in NodeRecords
      /\ \A x \in Nodes : m2[x].prev = m1[x].prev
                          /\ m2[x].next = IF x = head THEN first ELSE m1[x].next
  BY <1>3, <1>4, SetNext
<1>6. PICK m3 : SetsNext(m3, m2, last, at)
  BY DEF SetsNext
<1>7. /\ m3 \in NodeRecords
      /\ \A x \in Nodes : m3[x].prev = m2[x].prev
                          /\ m3[x].next = IF x = last THEN at ELSE m2[x].next
  BY <1>5, <1>6, SetNext
<1>8. SetsPrev(m, m3, at, last)
  BY <1>1, <1>2, <1>4, <1>6 DEF SetsNext, SetsPrev
<1>9. /\ m \in NodeRecords
      /\ \A x \in Nodes : m[x].next = m3[x].next
                          /\ m[x].prev = IF x = at THEN last ELSE m3[x].prev
  BY <1>7, <1>8, SetPrev
<1>. QED  BY <1>3, <1>5, <1>7, <1>9

\* __list_splice: the head that is spliced leaves its entries to the other.
LEMMA SplicedKeeps ==
  ASSUME NEW nodes, NEW own, NEW live, NEW dead, Shape(nodes, own, live, dead),
         NEW list \in live, own[list] = list, nodes[list].next # list,
         NEW head \in live, own[head] # list,
         NEW o \in Owners, GoesTo(o, own, list, head),
         NEW m, m = Spliced(nodes, list, head)
  PROVE  Shape(m, o, Less(live, list), dead)
<1> DEFINE first == nodes[list].next
           last == nodes[list].prev
           at == nodes[head].next
<1>1. /\ first \in live /\ last \in live /\ at \in live
      /\ nodes[first].prev = list /\ nodes[last].next = list /\ nodes[at].prev = head
      /\ own[first] = list /\ own[last] = list /\ own[at] = own[head]
  BY DEF Shape, WellLinked
<1>2. /\ first # list /\ last # list
      /\ first # head /\ last # head /\ first # at /\ last # at /\ head # list /\ at # list
  BY <1>1
<1>3. /\ nodes \in NodeRecords /\ live \subseteq Nodes
      /\ first \in Nodes /\ last \in Nodes /\ at \in Nodes /\ head \in Nodes
  BY <1>1 DEF Shape
<1>5. \A x \in live : /\ nodes[x].next = first => x = list
                      /\ nodes[x].next = at => x = head
                      /\ nodes[x].next = list => x = last
                      /\ nodes[x].prev = last => x = list
                      /\ nodes[x].prev = head => x = at
                      /\ nodes[x].prev = list => x = first
  BY <1>1 DEF Shape, WellLinked
<1>6. /\ m \in NodeRecords
      /\ \A x \in Nodes : /\ m[x].next = IF x = last THEN at ELSE IF x = head THEN first
                                         ELSE nodes[x].next
                          /\ m[x].prev = IF x = at THEN last ELSE IF x = first THEN head
                                         ELSE nodes[x].prev
  BY <1>3, SplicedIs
<1> HIDE DEF first, last, at
<1>7. ASSUME NEW x \in Less(live, list)
      PROVE  /\ m[x].next \in Less(live, list) /\ m[m[x].next].prev = x
             /\ o[m[x].next] = o[x]
  <2>1. CASE x = last \/ x = head
    BY <1>1, <1>2, <1>3, <1>6, <2>1 DEF Less, GoesTo
  <2>2. CASE x # last /\ x # head
    <3>1. m[x].next = nodes[x].next /\ x \in live /\ x \in Nodes /\ x # list
      BY <1>3, <1>6, <2>2 DEF Less
    <3>2. /\ nodes[x].next \in live /\ nodes[nodes[x].next].prev = x
          /\ own[nodes[x].next] = own[x]
      BY <3>1 DEF Shape, WellLinked
    <3>3. nodes[x].next # list /\ nodes[x].next # first /\ nodes[x].next # at
      BY <1>5, <2>2, <3>1
    <3>4. nodes[x].next \in Nodes /\ m[nodes[x].next].prev = x
      BY <1>3, <1>6, <3>2, <3>3
    <3>5. o[nodes[x].next] = o[x]
      BY <3>1, <3>2, <3>3, <3>4 DEF GoesTo
    <3>. QED  BY <3>1, <3>2, <3>3, <3>4, <3>5 DEF Less
  <2>. QED  BY <2>1, <2>2
<1>8. ASSUME NEW x \in Less(live, list)
      PROVE  m[x].prev \in Less(live, list) /\ m[m[x].prev].next = x
  <2>1. CASE x = first \/ x = at
    BY <1>1, <1>2, <1>3, <1>6, <2>1 DEF Less
  <2>2. CASE x # first /\ x # at
    <3>1. m[x].prev = nodes[x].prev /\ x \in live /\ x \in Nodes /\ x # list
      BY <1>3, <1>6, <2>2 DEF Less
    <3>2. nodes[x].prev \in live /\ nodes[nodes[x].prev].next = x
      BY <3>1 DEF Shape, WellLinked
    <3>3. nodes[x].prev # list /\ nodes[x].prev # last /\ nodes[x].prev # head
      BY <1>5, <2>2, <3>1
    <3>. QED  BY <1>3, <1>6, <3>1, <3>2, <3>3 DEF Less
  <2>. QED  BY <2>1, <2>2
<1>9. WellLinked(m, o, Less(live, list))
  BY <1>7, <1>8 DEF WellLinked
<1>10. \A d \in dead : m[d].next = LIST_POISON1
  <2>. TAKE d \in dead
  <2>1. d \in Nodes /\ d # last /\ d # head /\ nodes[d].next = LIST_POISON1
    BY <1>1, NoNodes DEF Shape
  <2>. QED  BY <1>6, <2>1
<1>. QED  BY <1>6, <1>9, <1>10 DEF Shape, Less

-----------------------------------------------------------------------------
(* The steps.                                                              *)

\* The invariant, said as Shape of the state.
LEMMA Shapely ==
  ASSUME ListInv
  PROVE  /\ Shape(node, owner, Live, Dead)
         /\ Live \subseteq Nodes /\ Anchors \subseteq Live
         /\ Live \cap Heads = Heads \ stale /\ stale \subseteq Heads
         /\ owner \in Owners /\ node \in NodeRecords
<1>1. owner \in Owners /\ node \in NodeRecords /\ stale \subseteq Heads
  BY DEF ListInv, ListTypeOK, NodeRecords, Owners
<1>2. /\ Live \subseteq Nodes /\ Anchors \subseteq Live
      /\ Live \cap Heads = Heads \ stale
  BY NoNodes DEF Live, Anchors, Linked
<1>3. WellLinked(node, owner, Live)
  BY DEF ListInv, ListsWellLinked
<1>4. Dead \subseteq Entries \ Live /\ \A e \in Dead : node[e].next = LIST_POISON1
  BY DEF Dead, Live
<1>. QED  BY <1>1, <1>2, <1>3, <1>4 DEF Shape

\* After a step the nodes in live are well linked and all others are poisoned
\* entries or stale heads.
Settled(live, dead) ==
  /\ Shape(node', owner', live, dead)
  /\ live \cap Heads = Heads \ stale' /\ Entries \subseteq live \cup dead
  /\ stale' \subseteq Heads /\ UNCHANGED looping

\* A step's well-linked set is what is live after it: the heads that are not
\* stale and every entry that is not poisoned.
LEMMA Settles ==
  ASSUME ListInv, NEW live, NEW dead, Settled(live, dead)
  PROVE  ListInv' /\ live = Live'
<1>1. \A e \in Entries : e \in live <=> node'[e].next # LIST_POISON1
  BY NoNodes DEF Settled, Shape, WellLinked
<1>2. live = Live'
  BY <1>1, NoNodes DEF Live, Nodes, Settled, Shape
<1>3. ListsWellLinked'
  BY <1>2 DEF ListsWellLinked, Settled, Shape
<1>4. ListTypeOK'
  BY DEF ListInv, ListTypeOK, looping, Settled, Shape, Owners, NodeRecords
<1>. QED  BY <1>2, <1>3, <1>4 DEF ListInv

\* The owner of an entry that moves, and of one that is on no list any more.
LEMMA NewOwner ==
  ASSUME ListInv, NEW e \in Entries
  PROVE  /\ \A head \in Nodes :
              owner' = [owner EXCEPT ![e] = owner[head]] =>
                owner' \in Owners /\ TakesOver(owner', owner, e, head)
         /\ owner' = [owner EXCEPT ![e] = NULL] =>
              owner' \in Owners /\ SameBut(owner', owner, e)
BY Shapely, NoNodes DEF Owners, TakesOver, SameBut

\* list_add and list_add_tail.
LEMMA AddKeeps ==
  ASSUME ListInv, NEW new \in Entries, NEW head \in Nodes,
         ListAdd(new, head) \/ ListAddTail(new, head)
  PROVE  ListInv' /\ Settled(With(Less(Live, new), new), Less(Dead, new))
<1>1. /\ node' = Behind(node, new, head) \/ node' = Before(node, new, head)
      /\ owner' = [owner EXCEPT ![new] = owner[head]]
      /\ UNCHANGED looping /\ stale' = stale
      /\ new \notin Linked /\ head \in Anchors
  BY DEF ListAdd, ListAddTail
<1>2. WellLinked(node, owner, Less(Live, new))
  <2>1. new \in Live => node[new].next = new
    BY <1>1, NoNodes DEF Live, Linked
  <2>2. WellLinked(node, owner, Live)
    BY DEF ListInv, ListsWellLinked
  <2>. QED  BY <2>1, <2>2, SelfLeaves
<1>3. Shape(node, owner, Less(Live, new), Less(Dead, new))
  BY <1>2, Shapely DEF Shape, Less
<1>4. new \in Nodes /\ head \in Less(Live, new) /\ new \notin Less(Live, new)
      /\ new \notin Less(Dead, new)
  BY <1>1, Shapely, NoNodes DEF Less, Anchors
<1>5. owner' \in Owners /\ TakesOver(owner', owner, new, head)
  BY <1>1, NewOwner
<1>6. Shape(node', owner', With(Less(Live, new), new), Less(Dead, new))
  BY <1>1, <1>3, <1>4, <1>5, BehindKeeps, BeforeKeeps
<1>7. /\ With(Less(Live, new), new) \cap Heads = Heads \ stale'
      /\ Entries \subseteq With(Less(Live, new), new) \cup Less(Dead, new)
      /\ stale' \subseteq Heads
  BY <1>1, Shapely, NoNodes DEF With, Less, Dead
<1>. QED  BY <1>1, <1>6, <1>7, Settles DEF Settled

\* list_del.
LEMMA DelKeeps ==
  ASSUME ListInv, NEW entry \in Entries, ListDel(entry)
  PROVE  ListInv' /\ Settled(Less(Live, entry), With(Dead, entry))
<1>1. PICK m : m = Without(node, entry)
  OBVIOUS
<1>2. /\ entry \in Live
      /\ node' = [m EXCEPT ![entry] = Poison]
      /\ owner' = [owner EXCEPT ![entry] = NULL]
      /\ UNCHANGED looping /\ stale' = stale
  BY <1>1 DEF ListDel
<1>3. Shape(m, owner, Less(Live, entry), Dead)
  BY <1>1, <1>2, Shapely, WithoutKeeps
<1>4. owner' \in Owners /\ SameBut(owner', owner, entry)
  BY <1>2, NewOwner
<1>5. entry \notin Less(Live, entry)
  BY DEF Less
<1>6. Shape(node', owner', Less(Live, entry), With(Dead, entry))
  BY <1>2, <1>3, <1>4, <1>5, PoisonLeaves
<1>7. /\ Less(Live, entry) \cap Heads = Heads \ stale'
      /\ Entries \subseteq Less(Live, entry) \cup With(Dead, entry)
      /\ stale' \subseteq Heads
  BY <1>2, Shapely, NoNodes DEF With, Less, Dead
<1>. QED  BY <1>2, <1>6, <1>7, Settles DEF Settled

\* list_del_init.
LEMMA DelInitKeeps ==
  ASSUME ListInv, NEW entry \in Entries, ListDelInit(entry)
  PROVE  ListInv' /\ Settled(With(Less(Live, entry), entry), Dead)
<1>1. PICK m : m = Without(node, entry)
  OBVIOUS
<1>2. /\ entry \in Live /\ entry \in Nodes
      /\ node' = [m EXCEPT ![entry] = Self(entry)]
      /\ owner' = [owner EXCEPT ![entry] = NULL]
      /\ UNCHANGED looping /\ stale' = stale
  BY <1>1, NoNodes DEF ListDelInit
<1>3. Shape(m, owner, Less(Live, entry), Dead)
  BY <1>1, <1>2, Shapely, WithoutKeeps
<1>4. owner' \in Owners /\ SameBut(owner', owner, entry)
  BY <1>2, NewOwner
<1>5. entry \notin Less(Live, entry) /\ entry \notin Dead
  BY <1>2 DEF Less, Dead
<1>6. Shape(node', owner', With(Less(Live, entry), entry), Dead)
  BY <1>2, <1>3, <1>4, <1>5, SelfJoins
<1>7. /\ With(Less(Live, entry), entry) \cap Heads = Heads \ stale'
      /\ Entries \subseteq With(Less(Live, entry), entry) \cup Dead
      /\ stale' \subseteq Heads
  BY <1>2, Shapely, NoNodes DEF With, Less, Dead
<1>. QED  BY <1>2, <1>6, <1>7, Settles DEF Settled

\* Unlinked first, then put next to a node that is still on a list.
LEMMA MoveKeeps ==
  ASSUME ListInv, NEW list \in Entries, NEW head \in Nodes,
         ListMove(list, head) \/ ListMoveTail(list, head)
  PROVE  ListInv' /\ Settled(With(Less(Live, list), list), Dead)
<1>1. PICK m : m = Without(node, list)
  OBVIOUS
<1>2. /\ list \in Live /\ list \in Nodes /\ head \in Anchors /\ head # list
      /\ node' = Behind(m, list, head) \/ node' = Before(m, list, head)
      /\ owner' = [owner EXCEPT ![list] = owner[head]]
      /\ UNCHANGED looping /\ stale' = stale
  BY <1>1, NoNodes DEF ListMove, ListMoveTail
<1>3. Shape(m, owner, Less(Live, list), Dead)
  BY <1>1, <1>2, Shapely, WithoutKeeps
<1>4. owner' \in Owners /\ TakesOver(owner', owner, list, head)
  BY <1>2, NewOwner
<1>5. list \notin Less(Live, list) /\ list \notin Dead /\ head \in Less(Live, list)
  BY <1>2, Shapely DEF Less, Dead
<1>6. Shape(node', owner', With(Less(Live, list), list), Dead)
  BY <1>2, <1>3, <1>4, <1>5, BehindKeeps, BeforeKeeps
<1>7. /\ With(Less(Live, list), list) \cap Heads = Heads \ stale'
      /\ Entries \subseteq With(Less(Live, list), list) \cup Dead
      /\ stale' \subseteq Heads
  BY <1>2, Shapely, NoNodes DEF With, Less, Dead
<1>. QED  BY <1>2, <1>6, <1>7, Settles DEF Settled

\* What both splices make of the nodes but the emptied head.
LEMMA SpliceSteps ==
  ASSUME ListInv, NEW list \in Heads, NEW head \in Nodes, CanSplice(list, head),
         NEW m, m = Spliced(node, list, head)
  PROVE  /\ list \in Live /\ list \in Nodes /\ list \notin Less(Live, list) /\ list \notin Dead
         /\ Shape(m, Handed(list, head), Less(Live, list), Dead)
         /\ Handed(list, head) \in Owners
<1>1. /\ list \in Live /\ head \in Live /\ owner[list] = list /\ owner[head] # list
      /\ node[list].next # list
  BY Shapely DEF CanSplice, ListEmpty, Live, ListInv, ListTypeOK
<1>2. GoesTo(Handed(list, head), owner, list, head)
  BY DEF Handed, GoesTo
<1>3. Handed(list, head) \in Owners
  BY Shapely, NoNodes DEF Handed, Owners
<1>4. Shape(m, Handed(list, head), Less(Live, list), Dead)
  BY <1>1, <1>2, <1>3, Shapely, SplicedKeeps
<1>. QED  BY <1>1, <1>3, <1>4, Shapely, NoNodes DEF Less, Dead

\* list_splice, which leaves a stale head.
LEMMA SpliceKeeps ==
  ASSUME ListInv, NEW list \in Heads, NEW head \in Nodes, ListSplice(list, head)
  PROVE  ListInv' /\ Settled(Less(Live, list), Dead)
<1>1. /\ node' = Spliced(node, list, head) /\ owner' = Handed(list, head)
      /\ CanSplice(list, head)
      /\ UNCHANGED looping /\ stale' = stale \cup {list}
  BY DEF ListSplice
<1>2. list \in Live /\ Shape(node', owner', Less(Live, list), Dead)
  BY <1>1, SpliceSteps
<1>3. /\ Less(Live, list) \cap Heads = Heads \ stale'
      /\ Entries \subseteq Less(Live, list) \cup Dead
      /\ stale' \subseteq Heads
  BY <1>1, Shapely, NoNodes DEF Less, Dead
<1>. QED  BY <1>1, <1>2, <1>3, Settles DEF Settled

\* list_splice_init.
LEMMA SpliceInitKeeps ==
  ASSUME ListInv, NEW list \in Heads, NEW head \in Nodes, ListSpliceInit(list, head)
  PROVE  ListInv' /\ Settled(With(Less(Live, list), list), Dead)
<1>1. PICK m : m = Spliced(node, list, head)
  OBVIOUS
<1>2. /\ node' = [m EXCEPT ![list] = Self(list)] /\ owner' = Handed(list, head)
      /\ CanSplice(list, head)
      /\ UNCHANGED looping /\ stale' = stale
  BY <1>1 DEF ListSpliceInit
<1>3. /\ list \in Live /\ list \in Nodes /\ list \notin Less(Live, list) /\ list \notin Dead
      /\ Shape(m, owner', Less(Live, list), Dead) /\ owner' \in Owners
  BY <1>1, <1>2, SpliceSteps
<1>4. SameBut(owner', owner', list)
  BY DEF SameBut
<1>5. Shape(node', owner', With(Less(Live, list), list), Dead)
  BY <1>2, <1>3, <1>4, SelfJoins
<1>6. /\ With(Less(Live, list), list) \cap Heads = Heads \ stale'
      /\ Entries \subseteq With(Less(Live, list), list) \cup Dead
      /\ stale' \subseteq Heads
  BY <1>2, <1>3, Shapely, NoNodes DEF With, Less, Dead
<1>. QED  BY <1>2, <1>5, <1>6, Settles DEF Settled

\* INIT_LIST_HEAD on a stale head.
LEMMA InitHeadKeeps ==
  ASSUME ListInv, NEW head \in Heads, InitListHead(head)
  PROVE  ListInv' /\ Settled(With(Live, head), Dead)
<1>1. /\ node' = [node EXCEPT ![head] = Self(head)] /\ head \in stale
      /\ UNCHANGED looping /\ stale' = stale \ {head} /\ owner' = owner
  BY DEF InitListHead
<1>2. /\ head \in Nodes /\ head \notin Live /\ head \notin Dead
      /\ owner' \in Owners /\ SameBut(owner', owner, head)
  BY <1>1, Shapely, NoNodes DEF Dead, SameBut
<1>3. Shape(node', owner', With(Live, head), Dead)
  BY <1>1, <1>2, Shapely, SelfJoins
<1>4. /\ With(Live, head) \cap Heads = Heads \ stale'
      /\ Entries \subseteq With(Live, head) \cup Dead
      /\ stale' \subseteq Heads
  BY <1>1, Shapely, NoNodes DEF With, Dead
<1>. QED  BY <1>1, <1>3, <1>4, Settles DEF Settled

\* The loop writes no node, and comes to nodes that may be followed.
LEMMA LoopKeeps ==
  ASSUME ListInv,
         \/ \E head \in Heads, back \in BOOLEAN : LoopStarts(head, back)
         \/ LoopGoesOn \/ LoopEnds
  PROVE  ListInv'
<1>1. UNCHANGED links
  BY DEF LoopStarts, LoopGoesOn, LoopEnds, links
<1>2. ListsWellLinked'
  BY <1>1 DEF links, ListInv, ListsWellLinked, WellLinked, Live
<1>3. loop' \in [head : Heads \cup {NULL}, back : BOOLEAN]
  <2>1. loop \in [head : Heads \cup {NULL}, back : BOOLEAN]
    BY DEF ListInv, ListTypeOK
  <2>2. NoLoop \in [head : Heads \cup {NULL}, back : BOOLEAN]
    BY DEF NoLoop
  <2>3. CASE \E head \in Heads, back \in BOOLEAN : LoopStarts(head, back)
    BY <2>3 DEF LoopStarts
  <2>. QED  BY <2>1, <2>2, <2>3 DEF LoopGoesOn, LoopEnds
<1>4. /\ pos' \in Pointers \cup {NULL} /\ ahead' \in Pointers \cup {NULL}
  <2>1. \A x \in Nodes, back \in BOOLEAN : Following(x, back) \in Pointers
    BY DEF Following, Pointers, ListInv, ListTypeOK
  <2>2. \A x \in Live, back \in BOOLEAN : Following(x, back) \in Nodes
    BY Shapely DEF Following, Shape, WellLinked
  <2>3. CASE \E head \in Heads, back \in BOOLEAN : LoopStarts(head, back)
    BY <2>1, <2>2, <2>3, NoNodes DEF LoopStarts, Live, Pointers
  <2>4. CASE LoopGoesOn
    <3>1. ahead \in Nodes /\ loop.back \in BOOLEAN
      BY <2>4 DEF LoopGoesOn, ListInv, ListTypeOK
    <3>. QED  BY <2>1, <2>4, <3>1 DEF LoopGoesOn, Pointers
  <2>5. CASE LoopEnds
    BY <2>5 DEF LoopEnds
  <2>. QED  BY <2>3, <2>4, <2>5
<1>. QED  BY <1>1, <1>2, <1>3, <1>4 DEF ListInv, ListTypeOK, links

-----------------------------------------------------------------------------

\* The types and the links of the lists, through every operation and loop.
THEOREM ListInvariant == ListSpec => []ListInv
<1>1. ListInit => ListInv
  <2> SUFFICES ASSUME ListInit PROVE ListInv
    OBVIOUS
  <2>1. \A x \in Nodes : node[x] = IF x \in Heads THEN Self(x) ELSE Poison
    BY DEF ListInit
  <2>2. node \in NodeRecords
    BY NoNodes DEF ListInit, NodeRecords, Self, Poison, Nodes
  <2>3. NoLoop \in [head : Heads \cup {NULL}, back : BOOLEAN]
    BY DEF NoLoop
  <2>4. ListTypeOK
    BY <2>2, <2>3, NoNodes DEF ListInit, ListTypeOK, NodeRecords
  <2>5. Live = Heads
    BY <2>1, NoNodes DEF ListInit, Live, Poison
  <2>6. \A x \in Heads : node[x].next = x /\ node[x].prev = x
    <3>. TAKE x \in Heads
    <3>1. node[x] = Self(x)
      BY <2>1, NoNodes
    <3>. QED  BY <3>1 DEF Self
  <2>7. WellLinked(node, owner, Heads)
    BY <2>6 DEF WellLinked
  <2>. QED  BY <2>4, <2>5, <2>7 DEF ListInv, ListsWellLinked
<1>2. ListInv /\ [ListNext]_listVars => ListInv'
  <2> SUFFICES ASSUME ListInv, [ListNext]_listVars PROVE ListInv'
    OBVIOUS
  <2>1. CASE UNCHANGED listVars
    BY <2>1 DEF listVars, links, looping, ListInv, ListTypeOK, ListsWellLinked, WellLinked, Live
  <2>2. CASE \/ \E head \in Heads, back \in BOOLEAN : LoopStarts(head, back)
             \/ LoopGoesOn \/ LoopEnds
    BY <2>2, LoopKeeps
  <2>. QED
    BY <2>1, <2>2, AddKeeps, DelKeeps, DelInitKeeps, MoveKeeps, SpliceKeeps,
       SpliceInitKeeps, InitHeadKeeps DEF ListNext
<1>. QED  BY <1>1, <1>2, PTL DEF ListSpec

\* Type correctness of the nodes and of the loop.
THEOREM ListTypeCorrect == ListSpec => []ListTypeOK
<1>1. ListInv => ListTypeOK
  BY DEF ListInv
<1>. QED  BY <1>1, ListInvariant, PTL

\* next and prev are each other's inverse on all that can be reached.
THEOREM ListLinksCorrect == ListSpec => []ListsWellLinked
<1>1. ListInv => ListsWellLinked
  BY DEF ListInv
<1>. QED  BY <1>1, ListInvariant, PTL

=============================================================================
