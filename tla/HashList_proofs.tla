-------------------------- MODULE HashList_proofs --------------------------
(***************************************************************************)
(* The lists with one pointer in the head stay well linked and implement   *)
(* the sequences of Lists, for any number of heads and nodes.              *)
(***************************************************************************)
EXTENDS HashList, Chains_proofs

\* The invariant of the links; it is inductive as it stands.
HashInv == HashTypeOK /\ HashWellLinked

\* NULL and the poisons are no cell, and no head is a node.
LEMMA NoCells ==
  /\ NULL \notin Cells /\ LIST_POISON1 \notin Cells /\ LIST_POISON2 \notin Cells
  /\ HashHeads \cap HashNodes = {} /\ HashNodes \subseteq Cells /\ HashHeads \subseteq Cells
BY HashAssumption DEF Cells

\* The removal of a hashed node: the cell before it takes over what it had.
LEMMA UnhashKeeps ==
  ASSUME HashInv, NEW n \in Hashed,
         NEW next \in {NULL, LIST_POISON1}, NEW back \in {NULL, LIST_POISON2},
         Unhash(n, next, back)
  PROVE  HashInv'
<1> DEFINE before == pprev[n]
           behind == cell[n]
<1>1. /\ n \in HashNodes /\ before \in Cells
      /\ behind # NULL => behind \in Hashed /\ pprev[behind] = n
      /\ cell[before] = n
      /\ before = n <=> behind = n
  BY NoCells DEF HashInv, HashWellLinked, Hashed
<1>2. behind \in HashNodes \cup {NULL}
  BY <1>1 DEF Hashed
<1>3. HashTypeOK'
  BY <1>1, <1>2, NoCells DEF Unhash, HashInv, HashTypeOK
<1>4. \A c \in Cells : cell'[c] = IF c = n THEN next ELSE IF c = before THEN behind ELSE cell[c]
  BY <1>1, NoCells DEF Unhash, HashInv, HashTypeOK
<1>5. \A m \in HashNodes : pprev'[m] = IF m = n THEN back
                                      ELSE IF m = behind THEN before ELSE pprev[m]
  BY DEF Unhash
<1>6. Hashed' = Hashed \ {n}
  BY <1>1, <1>5, NoCells DEF Hashed
<1>7. ASSUME NEW m \in Hashed'
      PROVE  pprev'[m] \in HashHeads \cup Hashed' /\ cell'[pprev'[m]] = m
  <2>1. /\ m \in Hashed /\ m # n /\ m \in HashNodes
        /\ pprev[m] \in HashHeads \cup Hashed /\ cell[pprev[m]] = m
    BY <1>6 DEF HashInv, HashWellLinked, Hashed
  <2>2. CASE m = behind
    <3>1. pprev'[m] = before /\ before \in HashHeads \cup Hashed /\ before # n
      BY <1>1, <1>5, <2>1, <2>2 DEF HashInv, HashWellLinked
    <3>. QED  BY <1>1, <1>4, <1>6, <2>2, <3>1
  <2>3. CASE m # behind
    <3>1. pprev'[m] = pprev[m] /\ pprev[m] # n /\ pprev[m] # before
      BY <1>1, <1>5, <2>1, <2>3
    <3>. QED  BY <1>4, <1>6, <2>1, <3>1, NoCells DEF Hashed
  <2>. QED  BY <2>2, <2>3
<1>8. ASSUME NEW c \in HashHeads \cup Hashed', cell'[c] # NULL
      PROVE  cell'[c] \in Hashed' /\ pprev'[cell'[c]] = c
  <2>1. c \in HashHeads \cup Hashed /\ c # n /\ c \in Cells
    BY <1>1, <1>6, NoCells DEF Hashed
  <2>2. cell[c] # NULL => cell[c] \in Hashed /\ pprev[cell[c]] = c
    BY <2>1 DEF HashInv, HashWellLinked
  <2>3. CASE c = before
    <3>1. cell'[c] = behind
      BY <1>4, <2>1, <2>3
    <3>2. behind \in Hashed /\ behind # n
      BY <1>1, <1>8, <2>1, <2>3, <3>1
    <3>. QED  BY <1>2, <1>5, <1>6, <2>3, <3>1, <3>2 DEF Hashed
  <2>4. CASE c # before
    <3>1. cell'[c] = cell[c] /\ cell[c] # NULL /\ cell[c] \in Hashed /\ pprev[cell[c]] = c
      BY <1>4, <1>8, <2>1, <2>2, <2>4
    <3>2. cell[c] # n /\ cell[c] # behind
      BY <1>1, <2>1, <2>4, <3>1
    <3>. QED  BY <1>5, <1>6, <3>1, <3>2 DEF Hashed
  <2>. QED  BY <2>3, <2>4
<1>. QED  BY <1>3, <1>7, <1>8 DEF HashInv, HashWellLinked

\* A node that is on no list goes between cell c and what c points to.
LEMMA PutKeeps ==
  ASSUME HashInv, NEW n \in HashNodes, n \notin Hashed,
         NEW c \in HashHeads \cup Hashed,
         HashTypeOK',
         \A d \in Cells : cell'[d] = IF d = n THEN cell[c] ELSE IF d = c THEN n ELSE cell[d],
         \A m \in HashNodes : pprev'[m] = IF m = n THEN c
                                         ELSE IF m = cell[c] THEN n ELSE pprev[m]
  PROVE  HashInv'
<1>1. /\ c \in Cells /\ c # n
      /\ cell[c] # NULL => cell[c] \in Hashed /\ cell[c] # n /\ pprev[cell[c]] = c
  BY NoCells DEF HashInv, HashWellLinked, Hashed
<1>2. Hashed' = Hashed \cup {n}
  BY <1>1, NoCells DEF Hashed
<1>3. ASSUME NEW m \in Hashed'
      PROVE  pprev'[m] \in HashHeads \cup Hashed' /\ cell'[pprev'[m]] = m
  <2>1. CASE m = n
    BY <1>1, <1>2, <2>1
  <2>2. CASE m # n /\ m = cell[c]
    BY <1>2, <2>2, NoCells DEF Hashed
  <2>3. CASE m # n /\ m # cell[c]
    <3>1. /\ m \in Hashed /\ pprev[m] \in HashHeads \cup Hashed /\ cell[pprev[m]] = m
          /\ m \in HashNodes /\ pprev'[m] = pprev[m]
      BY <1>2, <2>3 DEF HashInv, HashWellLinked, Hashed
    <3>2. pprev[m] # n /\ pprev[m] # c /\ pprev[m] \in Cells
      BY <2>3, <3>1, NoCells DEF Hashed
    <3>. QED  BY <1>2, <3>1, <3>2
  <2>. QED  BY <2>1, <2>2, <2>3
<1>4. ASSUME NEW d \in HashHeads \cup Hashed', cell'[d] # NULL
      PROVE  cell'[d] \in Hashed' /\ pprev'[cell'[d]] = d
  <2>1. d \in Cells
    BY <1>2, NoCells DEF Hashed
  <2>2. CASE d = n
    <3>1. cell'[d] = cell[c] /\ cell[c] \in Hashed /\ cell[c] # n
      BY <1>1, <1>4, <2>1, <2>2
    <3>. QED  BY <1>2, <2>2, <3>1 DEF Hashed
  <2>3. CASE d = c
    BY <1>1, <1>2, <2>3
  <2>4. CASE d # n /\ d # c
    <3>1. cell'[d] = cell[d] /\ cell[d] # NULL /\ d \in HashHeads \cup Hashed
      BY <1>2, <1>4, <2>1, <2>4
    <3>2. cell[d] \in Hashed /\ pprev[cell[d]] = d
      BY <3>1 DEF HashInv, HashWellLinked
    <3>3. cell[d] # n /\ cell[d] # cell[c]
      BY <1>1, <2>4, <3>1, <3>2
    <3>. QED  BY <1>2, <3>1, <3>2, <3>3 DEF Hashed
  <2>. QED  BY <2>2, <2>3, <2>4
<1>. QED  BY <1>3, <1>4 DEF HashInv, HashWellLinked

\* What a head or a hashed node points to is a node or nothing.
LEMMA Pointed ==
  ASSUME HashInv, NEW c \in HashHeads \cup Hashed
  PROVE  c \in Cells /\ cell[c] \in HashNodes \cup {NULL}
BY NoCells DEF HashInv, HashWellLinked, Hashed

\* hlist_add_head: the first place of a list.
LEMMA AddHeadKeeps ==
  ASSUME HashInv, NEW n \in HashNodes, NEW h \in HashHeads, HListAddHead(n, h)
  PROVE  HashInv'
<1>1. h \in Cells /\ n \in Cells /\ h # n /\ cell[h] \in HashNodes \cup {NULL}
  BY NoCells, Pointed
<1>2. \A d \in Cells : cell'[d] = IF d = n THEN cell[h] ELSE IF d = h THEN n ELSE cell[d]
  BY <1>1 DEF HListAddHead, HashInv, HashTypeOK
<1>3. \A m \in HashNodes : pprev'[m] = IF m = n THEN h
                                      ELSE IF m = cell[h] THEN n ELSE pprev[m]
  BY DEF HListAddHead
<1>4. HashTypeOK'
  BY <1>1, NoCells DEF HListAddHead, HashInv, HashTypeOK
<1>5. n \in HashNodes /\ n \notin Hashed /\ h \in HashHeads \cup Hashed
  BY DEF HListAddHead
<1>. QED  BY <1>2, <1>3, <1>4, <1>5, PutKeeps

\* hlist_add_before: the place before a node that is on a list.
LEMMA AddBeforeKeeps ==
  ASSUME HashInv, NEW n \in HashNodes, NEW next \in HashNodes, HListAddBefore(n, next)
  PROVE  HashInv'
<1> DEFINE c == pprev[next]
<1>1. /\ n \notin Hashed /\ next \in Hashed /\ n # next
      /\ c \in HashHeads \cup Hashed /\ cell[c] = next
  BY DEF HListAddBefore, HashInv, HashWellLinked
<1>2. c \in Cells /\ n \in Cells /\ c # n
  BY <1>1, NoCells DEF Hashed
<1>3. \A d \in Cells : cell'[d] = IF d = n THEN cell[c] ELSE IF d = c THEN n ELSE cell[d]
  BY <1>1, <1>2 DEF HListAddBefore, HashInv, HashTypeOK
<1>4. \A m \in HashNodes : pprev'[m] = IF m = n THEN c
                                      ELSE IF m = cell[c] THEN n ELSE pprev[m]
  BY <1>1 DEF HListAddBefore, HashInv, HashTypeOK
<1>5. HashTypeOK'
  BY <1>2, NoCells DEF HListAddBefore, HashInv, HashTypeOK
<1> HIDE DEF c
<1>. QED  BY <1>1, <1>3, <1>4, <1>5, PutKeeps

\* hlist_add_after: the place behind one.
LEMMA AddAfterKeeps ==
  ASSUME HashInv, NEW n \in HashNodes, NEW next \in HashNodes, HListAddAfter(n, next)
  PROVE  HashInv'
<1>1. n \in Hashed /\ next \notin Hashed /\ n # next
  BY DEF HListAddAfter
<1>2. n \in Cells /\ next \in Cells /\ cell[n] \in HashNodes \cup {NULL}
  BY <1>1, NoCells, Pointed
<1>3. \A d \in Cells : cell'[d] = IF d = next THEN cell[n] ELSE IF d = n THEN next ELSE cell[d]
  BY <1>1, <1>2 DEF HListAddAfter, HashInv, HashTypeOK
<1>4. \A m \in HashNodes : pprev'[m] = IF m = next THEN n
                                      ELSE IF m = cell[n] THEN next ELSE pprev[m]
  BY DEF HListAddAfter
<1>5. HashTypeOK'
  BY <1>2, NoCells DEF HListAddAfter, HashInv, HashTypeOK
<1>. QED  BY <1>1, <1>3, <1>4, <1>5, PutKeeps

\* The types and the links of hash lists, through every operation.
THEOREM HashInvariant == HashSpec => []HashInv
<1>1. HashInit => HashInv
  BY NoCells DEF HashInit, HashInv, HashTypeOK, HashWellLinked, Hashed
<1>2. HashInv /\ [HashNext]_hashVars => HashInv'
  <2> SUFFICES ASSUME HashInv, [HashNext]_hashVars PROVE HashInv'
    OBVIOUS
  <2>1. CASE UNCHANGED hashVars
    BY <2>1 DEF hashVars, HashInv, HashTypeOK, HashWellLinked, Hashed
  <2>2. ASSUME NEW n \in HashNodes, HListDel(n) \/ HListDelInit(n)
        PROVE  HashInv'
    BY <2>2, UnhashKeeps DEF HListDel, HListDelInit
  <2>. QED
    BY <2>1, <2>2, AddHeadKeeps, AddBeforeKeeps, AddAfterKeeps DEF HashNext
<1>. QED  BY <1>1, <1>2, PTL DEF HashSpec

\* Type correctness of heads and nodes.
THEOREM HashTypeCorrect == HashSpec => []HashTypeOK
<1>1. HashInv => HashTypeOK
  BY DEF HashInv
<1>. QED  BY <1>1, HashInvariant, PTL

\* Every node and the cell that points to it agree.
THEOREM HashLinksCorrect == HashSpec => []HashWellLinked
<1>1. HashInv => HashWellLinked
  BY DEF HashInv
<1>. QED  BY <1>1, HashInvariant, PTL

-----------------------------------------------------------------------------
(* Refinement. *)

\* The lists the walks from the heads find; each ends in NULL.
HashSeqs == [h \in HashHeads |-> HashContents(h)]
HashEnds == [h \in HashHeads |-> NULL]
HashLaid(link, lists) == Layout(HashNodes, HashHeads, link, HashHeads, lists, HashEnds)

\* The lists are sequences, and the nodes that are hashed those on a list.
HashSeqInv ==
  /\ HashInv
  /\ HashLaid(cell, HashSeqs)
  /\ \A n \in HashNodes : n \in Hashed <=> \E h \in HashHeads : In(HashSeqs[h], n)

\* Heads and NULL are no nodes.
LEMMA HashGrounds == Grounds(HashNodes, HashHeads, HashEnds)
BY HashAssumption DEF Grounds, HashEnds

\* The cell at place i of a list: its head, then its nodes, then NULL.
Spot(h, i) == Nth(HashSeqs[h], h, HashEnds[h], i)

\* There is one way only to lay out lists along the links.
LEMMA HashWalk ==
  ASSUME NEW link, NEW lists, HashLaid(link, lists)
  PROVE  lists = [h \in HashHeads |-> Along(link, HashNodes, link[h])]
<1>1. lists \in [HashHeads -> Seq(HashNodes)]
  BY DEF HashLaid, Layout
<1>2. ASSUME NEW h \in HashHeads PROVE Along(link, HashNodes, link[h]) = lists[h]
  <2>1. IsFiniteSet(HashNodes) /\ Grounds(HashNodes, HashHeads, HashEnds)
    BY HashAssumption, HashGrounds
  <2>2. Layout(HashNodes, HashHeads, link, HashHeads, lists, HashEnds)
    BY DEF HashLaid
  <2>. QED  BY <2>1, <2>2, LayoutWalk, SMT
<1>. QED  BY <1>1, <1>2

\* A node is the i-th of its list: what it points back to is before it.
Placed(n, h, i) ==
  /\ HashSeqs[h][i] = n /\ Spot(h, i) = n
  /\ pprev[n] = Spot(h, i - 1)
  /\ cell[n] = Spot(h, i + 1)

\* A place before the end is the head or a node of the list.
LEMMA SpotIs ==
  ASSUME HashSeqInv, NEW h \in HashHeads, NEW i \in 0 .. Len(HashSeqs[h])
  PROVE  Spot(h, i) = h \/ (Spot(h, i) \in Hashed /\ In(HashSeqs[h], Spot(h, i)))
<1>1. HashSeqs[h] \in Seq(HashNodes)
  BY DEF HashSeqInv, HashLaid, Layout
<1>2. Spot(h, i) = h \/ (Spot(h, i) \in HashNodes /\ In(HashSeqs[h], Spot(h, i)))
  BY <1>1, NthIs, Zenon DEF Spot
<1>. QED  BY <1>2 DEF HashSeqInv

\* Every hashed node is at a place of some list.
LEMMA HashPlace ==
  ASSUME HashSeqInv, NEW n \in Hashed
  PROVE  \E h \in HashHeads : \E i \in 1 .. Len(HashSeqs[h]) : Placed(n, h, i)
<1>1. n \in HashNodes /\ \E h \in HashHeads : In(HashSeqs[h], n)
  BY DEF HashSeqInv, Hashed
<1>2. PICK h \in HashHeads : \E i \in 1 .. Len(HashSeqs[h]) : HashSeqs[h][i] = n
  BY <1>1 DEF In
<1>3. PICK i \in 1 .. Len(HashSeqs[h]) : HashSeqs[h][i] = n
  BY <1>2
<1>4. HashSeqs[h] \in Seq(HashNodes) /\ Chain(cell, h, HashEnds[h], HashSeqs[h])
  BY DEF HashSeqInv, HashLaid, Layout
<1>5. Len(HashSeqs[h]) \in Nat
  BY <1>4, LenProperties
<1>6. \A j \in 0 .. Len(HashSeqs[h]) : cell[Spot(h, j)] = Spot(h, j + 1)
  BY <1>4 DEF Chain, Spot
<1>7. Spot(h, i) = n
  BY <1>3 DEF Spot, Nth
<1>8. i \in 0 .. Len(HashSeqs[h]) /\ i - 1 \in 0 .. Len(HashSeqs[h]) /\ i - 1 + 1 = i
  BY <1>5
<1>9. cell[n] = Spot(h, i + 1)
  BY <1>6, <1>7, <1>8
<1>10. cell[Spot(h, i - 1)] = n
  BY <1>6, <1>7, <1>8
<1>11. Spot(h, i - 1) \in HashHeads \cup Hashed
  BY <1>8, SpotIs
<1>12. pprev[n] = Spot(h, i - 1)
  BY <1>10, <1>11, <1>1, HashAssumption DEF HashSeqInv, HashInv, HashWellLinked
<1>. QED  BY <1>3, <1>7, <1>9, <1>12 DEF Placed

\* A node is removed from its list.
LEMMA UnhashRemoves ==
  ASSUME HashSeqInv, NEW n \in Hashed,
         NEW next \in {NULL, LIST_POISON1}, NEW back \in {NULL, LIST_POISON2},
         Unhash(n, next, back)
  PROVE  /\ HashSeqInv'
         /\ \E h \in HashHeads : \E i \in 1 .. Len(HashSeqs[h]) :
              HashSeqs' = [HashSeqs EXCEPT ![h] = RemoveAt(HashSeqs[h], i)]
<1>1. HashInv /\ HashLaid(cell, HashSeqs)
  BY DEF HashSeqInv
<1>2. HashInv'
  BY <1>1, UnhashKeeps
<1>3. PICK h \in HashHeads : \E i \in 1 .. Len(HashSeqs[h]) : Placed(n, h, i)
  BY HashPlace
<1>4. PICK i \in 1 .. Len(HashSeqs[h]) : Placed(n, h, i)
  BY <1>3
<1>5. HashSeqs[h] \in Seq(HashNodes) /\ Once(HashSeqs[h]) /\ h \notin HashNodes
  BY <1>1, HashGrounds DEF HashLaid, Layout, Grounds
<1>6. Len(HashSeqs[h]) \in Nat /\ i - 1 \in 0 .. Len(HashSeqs[h]) /\ i \in 0 .. Len(HashSeqs[h])
  BY <1>5, LenProperties
<1>7. Spot(h, i - 1) # n
  <2>1. Spot(h, i - 1) = Spot(h, i) => i - 1 = i
    BY <1>5, <1>6, NthOnce, Zenon DEF Spot
  <2>. QED  BY <1>4, <1>6, <2>1 DEF Placed
<1>8. n \in Cells /\ Spot(h, i - 1) \in Cells
  BY <1>6, SpotIs, NoCells DEF Hashed
<1>9. \A c \in Cells : cell'[c] = IF c = n THEN next
                                 ELSE IF c = Spot(h, i - 1) THEN Spot(h, i + 1) ELSE cell[c]
  BY <1>1, <1>4, <1>8 DEF Unhash, HashInv, HashTypeOK, Placed
<1>10. \A x : Laid(HashSeqs, HashHeads, x) => x \in Cells
  BY <1>1, InIsItem, NoCells DEF Laid, HashLaid, Layout
<1>11. PICK m : m = [HashSeqs EXCEPT ![h] = RemoveAt(HashSeqs[h], i)]
  OBVIOUS
<1>12. /\ HashLaid(cell', m)
       /\ \A g \in HashHeads : \A x : In(m[g], x) <=> In(HashSeqs[g], x) /\ x # HashSeqs[h][i]
  <2>1. cell'[Nth(HashSeqs[h], h, HashEnds[h], i - 1)] = Nth(HashSeqs[h], h, HashEnds[h], i + 1)
    BY <1>7, <1>8, <1>9 DEF Spot
  <2>2. \A x : Laid(HashSeqs, HashHeads, x) =>
                 \/ cell'[x] = cell[x]
                 \/ x = Nth(HashSeqs[h], h, HashEnds[h], i - 1)
                 \/ x = HashSeqs[h][i]
    BY <1>4, <1>9, <1>10 DEF Placed, Spot
  <2>3. Layout(HashNodes, HashHeads, cell, HashHeads, HashSeqs, HashEnds)
    BY <1>1 DEF HashLaid
  <2>4. Removes(HashNodes, HashHeads, cell, HashHeads, HashSeqs, HashEnds, h, i, cell', m)
    BY <1>11, <2>1, <2>2, <2>3, HashGrounds DEF Removes
  <2>5. /\ Layout(HashNodes, HashHeads, cell', HashHeads, m, HashEnds)
        /\ \A g \in HashHeads : \A x : In(m[g], x) <=> In(HashSeqs[g], x) /\ x # HashSeqs[h][i]
    BY <2>4, LayoutRemoved, SMT
  <2>. QED  BY <2>5 DEF HashLaid
<1>13. m = HashSeqs'
  BY <1>12, HashWalk DEF HashSeqs, HashContents
<1>14. \A x \in HashNodes : x \in Hashed' <=> x \in Hashed /\ x # n
  BY <1>1, NoCells DEF Unhash, Hashed, HashInv, HashWellLinked
<1>15. \A x \in HashNodes : x \in Hashed' <=> \E g \in HashHeads : In(m[g], x)
  BY <1>4, <1>12, <1>14 DEF Placed, HashSeqInv
<1>16. HashLaid(cell, HashSeqs)'
  BY <1>12, <1>13 DEF HashLaid, HashEnds
<1>17. HashSeqInv'
  BY <1>2, <1>13, <1>15, <1>16 DEF HashSeqInv
<1>. QED  BY <1>11, <1>13, <1>17

\* A node that is on no list is put behind the cell at place i - 1.
LEMMA HashPuts ==
  ASSUME HashSeqInv, HashInv', NEW n \in HashNodes, n \notin Hashed,
         NEW h \in HashHeads, NEW i \in 1 .. Len(HashSeqs[h]) + 1,
         NEW c, c = Spot(h, i - 1),
         \A d \in Cells : cell'[d] = IF d = n THEN cell[c] ELSE IF d = c THEN n ELSE cell[d],
         \A m \in HashNodes : pprev'[m] = IF m = n THEN c
                                         ELSE IF m = cell[c] THEN n ELSE pprev[m]
  PROVE  /\ HashSeqInv'
         /\ HashSeqs' = [HashSeqs EXCEPT ![h] = InsertAt(HashSeqs[h], i, n)]
<1>1. HashInv /\ HashLaid(cell, HashSeqs)
  BY DEF HashSeqInv
<1>2. HashSeqs[h] \in Seq(HashNodes) /\ Chain(cell, h, HashEnds[h], HashSeqs[h])
  BY <1>1 DEF HashLaid, Layout
<1>3. Len(HashSeqs[h]) \in Nat /\ i - 1 \in 0 .. Len(HashSeqs[h]) /\ i - 1 + 1 = i
  BY <1>2, LenProperties
<1>4. cell[c] = Spot(h, i)
  BY <1>2, <1>3 DEF Chain, Spot
<1>5. c \in HashHeads \cup Hashed /\ c \in Cells /\ n \in Cells /\ c # n
  BY <1>3, SpotIs, NoCells DEF Hashed
<1>6. cell[c] # NULL => cell[c] \in Hashed
  BY <1>1, <1>5 DEF HashInv, HashWellLinked
<1>7. \A x : Laid(HashSeqs, HashHeads, x) => x \in Cells /\ x # n
  <2>1. ASSUME NEW g \in HashHeads, NEW x, In(HashSeqs[g], x) PROVE x \in Cells /\ x # n
    BY <1>1, <2>1, InIsItem, NoCells DEF HashLaid, Layout, HashSeqInv
  <2>. QED  BY <2>1, NoCells DEF Laid, HashSeqs
<1>8. \A g \in HashHeads : ~ In(HashSeqs[g], n)
  BY DEF HashSeqInv
<1>9. PICK m : m = [HashSeqs EXCEPT ![h] = InsertAt(HashSeqs[h], i, n)]
  OBVIOUS
<1>10. /\ HashLaid(cell', m)
       /\ \A g \in HashHeads : \A x : In(m[g], x) <=> (g = h /\ x = n) \/ In(HashSeqs[g], x)
  <2>1. cell'[n] = Nth(HashSeqs[h], h, HashEnds[h], i)
    BY <1>4, <1>5 DEF Spot
  <2>2. cell'[Nth(HashSeqs[h], h, HashEnds[h], i - 1)] = n
    BY <1>5 DEF Spot
  <2>3. \A x : Laid(HashSeqs, HashHeads, x) =>
                 cell'[x] = cell[x] \/ x = Nth(HashSeqs[h], h, HashEnds[h], i - 1)
    BY <1>7 DEF Spot
  <2>4. Layout(HashNodes, HashHeads, cell, HashHeads, HashSeqs, HashEnds)
    BY <1>1 DEF HashLaid
  <2>5. Inserts(HashNodes, HashHeads, cell, HashHeads, HashSeqs, HashEnds, h, i, n, cell', m)
    BY <1>8, <1>9, <2>1, <2>2, <2>3, <2>4, HashGrounds DEF Inserts
  <2>6. /\ Layout(HashNodes, HashHeads, cell', HashHeads, m, HashEnds)
        /\ \A g \in HashHeads : \A x : In(m[g], x) <=> (g = h /\ x = n) \/ In(HashSeqs[g], x)
    BY <2>5, LayoutInserted, SMT
  <2>. QED  BY <2>6 DEF HashLaid
<1>11. m = HashSeqs'
  BY <1>10, HashWalk DEF HashSeqs, HashContents
<1>12. \A x \in HashNodes : x \in Hashed' <=> x \in Hashed \/ x = n
  BY <1>5, <1>6, NoCells DEF Hashed
<1>13. \A x \in HashNodes : x \in Hashed' <=> \E g \in HashHeads : In(m[g], x)
  BY <1>10, <1>12 DEF HashSeqInv
<1>14. HashLaid(cell, HashSeqs)'
  BY <1>10, <1>11 DEF HashLaid, HashEnds
<1>. QED  BY <1>9, <1>11, <1>13, <1>14 DEF HashSeqInv

\* What one step of the hash lists makes of the sequences.
HashStep ==
  \/ HashSeqs' = HashSeqs
  \/ \E h \in HashHeads : \E i \in 1 .. Len(HashSeqs[h]) :
       HashSeqs' = [HashSeqs EXCEPT ![h] = RemoveAt(HashSeqs[h], i)]
  \/ \E n \in HashNodes, h \in HashHeads : \E i \in 1 .. Len(HashSeqs[h]) + 1 :
       /\ \A g \in HashHeads : ~ In(HashSeqs[g], n)
       /\ HashSeqs' = [HashSeqs EXCEPT ![h] = InsertAt(HashSeqs[h], i, n)]

\* hlist_add_head inserts at the first place ...
LEMMA AddHeadInserts ==
  ASSUME HashSeqInv, NEW n \in HashNodes, NEW h \in HashHeads, HListAddHead(n, h)
  PROVE  HashSeqInv' /\ HashStep
<1>1. HashInv /\ HashInv' /\ n \notin Hashed
  BY AddHeadKeeps DEF HashSeqInv, HListAddHead
<1>2. HashSeqs[h] \in Seq(HashNodes)
  BY DEF HashSeqInv, HashLaid, Layout
<1>3. Len(HashSeqs[h]) \in Nat
  BY <1>2, LenProperties
<1>4. 1 \in 1 .. Len(HashSeqs[h]) + 1 /\ Spot(h, 1 - 1) = h
  BY <1>3 DEF Spot, Nth
<1>5. h \in Cells /\ n \in Cells /\ h # n
  BY NoCells
<1>6. \A d \in Cells : cell'[d] = IF d = n THEN cell[h] ELSE IF d = h THEN n ELSE cell[d]
  BY <1>1, <1>5 DEF HListAddHead, HashInv, HashTypeOK
<1>7. \A m \in HashNodes : pprev'[m] = IF m = n THEN h
                                      ELSE IF m = cell[h] THEN n ELSE pprev[m]
  BY DEF HListAddHead
<1>8. /\ HashSeqInv'
      /\ HashSeqs' = [HashSeqs EXCEPT ![h] = InsertAt(HashSeqs[h], 1, n)]
  BY <1>1, <1>4, <1>6, <1>7, HashPuts
<1>. QED  BY <1>1, <1>4, <1>8 DEF HashStep, HashSeqInv

\* ... hlist_add_before at the place of next ...
LEMMA AddBeforeInserts ==
  ASSUME HashSeqInv, NEW n \in HashNodes, NEW next \in HashNodes, HListAddBefore(n, next)
  PROVE  HashSeqInv' /\ HashStep
<1> DEFINE c == pprev[next]
<1>1. HashInv /\ HashInv' /\ n \notin Hashed /\ next \in Hashed /\ n # next
  BY AddBeforeKeeps DEF HashSeqInv, HListAddBefore
<1>2. PICK h \in HashHeads : \E i \in 1 .. Len(HashSeqs[h]) : Placed(next, h, i)
  BY <1>1, HashPlace
<1>3. PICK i \in 1 .. Len(HashSeqs[h]) : Placed(next, h, i)
  BY <1>2
<1>4. HashSeqs[h] \in Seq(HashNodes)
  BY DEF HashSeqInv, HashLaid, Layout
<1>5. i \in 1 .. Len(HashSeqs[h]) + 1
  BY <1>4, LenProperties
<1>6. c \in HashHeads \cup Hashed /\ cell[c] = next /\ c = Spot(h, i - 1)
  BY <1>1, <1>3 DEF HashInv, HashWellLinked, Placed
<1>7. c \in Cells /\ n \in Cells /\ c # n
  BY <1>1, <1>6, NoCells DEF Hashed
<1>8. \A d \in Cells : cell'[d] = IF d = n THEN cell[c] ELSE IF d = c THEN n ELSE cell[d]
  BY <1>1, <1>6, <1>7 DEF HListAddBefore, HashInv, HashTypeOK
<1>9. \A m \in HashNodes : pprev'[m] = IF m = n THEN c
                                      ELSE IF m = cell[c] THEN n ELSE pprev[m]
  BY <1>1, <1>6 DEF HListAddBefore, HashInv, HashTypeOK
<1> HIDE DEF c
<1>10. /\ HashSeqInv'
       /\ HashSeqs' = [HashSeqs EXCEPT ![h] = InsertAt(HashSeqs[h], i, n)]
  BY <1>1, <1>5, <1>6, <1>8, <1>9, HashPuts
<1>. QED  BY <1>1, <1>5, <1>10 DEF HashStep, HashSeqInv

\* ... and hlist_add_after at the place behind n.
LEMMA AddAfterInserts ==
  ASSUME HashSeqInv, NEW n \in HashNodes, NEW next \in HashNodes, HListAddAfter(n, next)
  PROVE  HashSeqInv' /\ HashStep
<1>1. HashInv /\ HashInv' /\ n \in Hashed /\ next \notin Hashed /\ n # next
  BY AddAfterKeeps DEF HashSeqInv, HListAddAfter
<1>2. PICK h \in HashHeads : \E i \in 1 .. Len(HashSeqs[h]) : Placed(n, h, i)
  BY <1>1, HashPlace
<1>3. PICK j \in 1 .. Len(HashSeqs[h]) : Placed(n, h, j)
  BY <1>2
<1>4. HashSeqs[h] \in Seq(HashNodes)
  BY DEF HashSeqInv, HashLaid, Layout
<1>5. PICK i \in 1 .. Len(HashSeqs[h]) + 1 : n = Spot(h, i - 1)
  <2>1. j + 1 \in 1 .. Len(HashSeqs[h]) + 1 /\ j + 1 - 1 = j
    BY <1>4, LenProperties
  <2>. QED  BY <1>3, <2>1 DEF Placed
<1>6. n \in Cells /\ next \in Cells
  BY NoCells
<1>7. \A d \in Cells : cell'[d] = IF d = next THEN cell[n] ELSE IF d = n THEN next ELSE cell[d]
  BY <1>1, <1>6 DEF HListAddAfter, HashInv, HashTypeOK
<1>8. \A m \in HashNodes : pprev'[m] = IF m = next THEN n
                                      ELSE IF m = cell[n] THEN next ELSE pprev[m]
  BY DEF HListAddAfter
<1>9. /\ HashSeqInv'
      /\ HashSeqs' = [HashSeqs EXCEPT ![h] = InsertAt(HashSeqs[h], i, next)]
  BY <1>1, <1>5, <1>7, <1>8, HashPuts
<1>. QED  BY <1>1, <1>5, <1>9 DEF HashStep, HashSeqInv

\* Every step keeps the invariant and is a step of Lists, or none.
LEMMA HashSeqNext ==
  ASSUME HashSeqInv, [HashNext]_hashVars
  PROVE  HashSeqInv' /\ HashStep
<1>1. CASE UNCHANGED hashVars
  <2>1. HashSeqs' = HashSeqs /\ Hashed' = Hashed /\ HashInv'
    BY <1>1 DEF hashVars, HashSeqs, HashContents, Hashed, HashSeqInv, HashInv, HashTypeOK,
                HashWellLinked
  <2>. QED  BY <1>1, <2>1 DEF hashVars, HashSeqInv, HashLaid, HashEnds, HashStep
<1>2. ASSUME NEW n \in HashNodes, HListDel(n) \/ HListDelInit(n)
      PROVE  HashSeqInv' /\ HashStep
  <2>1. PICK next \in {NULL, LIST_POISON1}, back \in {NULL, LIST_POISON2} :
           n \in Hashed /\ Unhash(n, next, back)
    BY <1>2 DEF HListDel, HListDelInit
  <2>. QED  BY <2>1, UnhashRemoves DEF HashStep
<1>. QED
  BY <1>1, <1>2, AddHeadInserts, AddBeforeInserts, AddAfterInserts DEF HashNext

\* The empty lists of the initial state.
LEMMA HashSeqStart ==
  ASSUME HashInit
  PROVE  HashSeqInv /\ HashSeqs = [h \in HashHeads |-> <<>>]
<1>1. HashInv
  BY NoCells DEF HashInit, HashInv, HashTypeOK, HashWellLinked, Hashed
<1>2. PICK m : m = [h \in HashHeads |-> <<>>]
  OBVIOUS
<1>3. Hashed = {} /\ \A x : ~ In(<<>>, x)
  BY DEF HashInit, Hashed, In
<1>4. HashLaid(cell, m)
  <2>1. \A h \in HashHeads : Chain(cell, h, HashEnds[h], m[h])
    BY <1>2, NoCells DEF HashInit, HashEnds, Chain, Nth
  <2>. QED  BY <1>2, <1>3, <2>1 DEF HashLaid, Layout, Once
<1>5. m = HashSeqs
  BY <1>4, HashWalk DEF HashSeqs, HashContents
<1>. QED  BY <1>1, <1>2, <1>3, <1>4, <1>5 DEF HashSeqInv

\* Each step of HashList is one of Lists, or none.
LEMMA HashStepIsList ==
  ASSUME HashSeqInv, HashStep
  PROVE  [HashSequences!Next]_HashSeqs
<1>1. DOMAIN HashSeqs = HashHeads
  BY DEF HashSeqs
<1>2. CASE HashSeqs' = HashSeqs
  BY <1>2
<1>3. ASSUME NEW h \in HashHeads, NEW i \in 1 .. Len(HashSeqs[h]),
             HashSeqs' = [HashSeqs EXCEPT ![h] = RemoveAt(HashSeqs[h], i)]
      PROVE  HashSequences!Next
  <2>1. HashSequences!Delete(h, i)
    BY <1>3 DEF HashSequences!Delete, HashSequences!RemoveAt, RemoveAt, HashSeqs
  <2>. QED  BY <1>1, <1>3, <2>1 DEF HashSequences!Next, HashSequences!Owners, HashSeqs
<1>4. ASSUME NEW n \in HashNodes, NEW h \in HashHeads, NEW i \in 1 .. Len(HashSeqs[h]) + 1,
             \A g \in HashHeads : ~ In(HashSeqs[g], n),
             HashSeqs' = [HashSeqs EXCEPT ![h] = InsertAt(HashSeqs[h], i, n)]
      PROVE  HashSequences!Next
  <2>1. HashSequences!Insert(n, h, i)
    BY <1>1, <1>4 DEF HashSequences!Insert, HashSequences!InsertAt, InsertAt, HashSeqs,
       HashSequences!Owners, HashSequences!On, HashSequences!ToSet, In
  <2>. QED  BY <1>1, <1>4, <2>1 DEF HashSequences!Next, HashSequences!Owners,
               HashSequences!Places, HashSeqs
<1>. QED  BY <1>2, <1>3, <1>4 DEF HashStep

\* The lists with one pointer in the head implement the sequences of Lists:
\* what the walk from a head finds changes as a sequence does.
THEOREM HashImplements == HashSpec => HashListsAreSequences
<1>1. HashInit => HashSeqInv /\ HashSequences!Init
  <2>1. ASSUME HashInit PROVE HashSequences!Init
    BY <2>1, HashSeqStart DEF HashSequences!Init, HashSequences!Owners, HashSeqs
  <2>. QED  BY <2>1, HashSeqStart
<1>2. HashSeqInv /\ [HashNext]_hashVars => HashSeqInv' /\ [HashSequences!Next]_HashSeqs
  BY HashSeqNext, HashStepIsList
<1>. QED  BY <1>1, <1>2, PTL DEF HashSpec, HashListsAreSequences, HashSequences!Spec, HashSeqs

=============================================================================
