---------------------------- MODULE Chains_proofs ----------------------------
(***************************************************************************)
(* What the walk along the links finds when items are linked in, out, and  *)
(* lists into lists. A Layout says that the links are those of a family of *)
(* sequences that share no item; each change of a few links is then one of *)
(* a sequence. The induction over the walk goes through least numbers.     *)
(***************************************************************************)
EXTENDS Chains, TLAPS, WellFoundedInduction, FiniteSetTheorems, SequenceTheorems

\* A set of numbers that is not empty has a least one.
LEMMA Least ==
  ASSUME NEW T \in SUBSET Nat, T # {}
  PROVE  \E n \in T : \A m \in T : n <= m
<1> DEFINE R == OpToRel(<, Nat)
<1>1. \A p : p \in R <=> p \in Nat \X Nat /\ p[1] < p[2]
  BY DEF OpToRel
<1>2. IsWellFoundedOn(R, Nat)
  BY NatLessThanWellFounded
<1> HIDE DEF R
<1>3. PICK n \in T : \A m \in T : ~ (<<m, n>> \in R)
  BY <1>2, WFMin
<1>4. ASSUME NEW m \in T PROVE n <= m
  <2>1. <<m, n>> \in Nat \X Nat /\ ~ (<<m, n>> \in R)
    BY <1>3
  <2>2. ~ (m < n)
    BY <1>1, <2>1
  <2>. QED  BY <2>2
<1>. QED  BY <1>4

\* So a property of zero and of every successor is one of all numbers.
LEMMA Climb ==
  ASSUME NEW T \in SUBSET Nat, 0 \in T, \A n \in T : n + 1 \in T
  PROVE  T = Nat
<1> SUFFICES ASSUME T # Nat PROVE FALSE
  OBVIOUS
<1>1. PICK n \in Nat \ T : \A m \in Nat \ T : n <= m
  <2>1. Nat \ T \in SUBSET Nat /\ Nat \ T # {}
    OBVIOUS
  <2>. QED  BY <2>1, Least
<1>2. n # 0 /\ n - 1 \in Nat /\ n - 1 \in T
  BY <1>1
<1>. QED  BY <1>1, <1>2

\* w is the function the walk of Along is defined by, for n steps.
Steps(w, link, S, n) ==
  w = [k \in 0 .. n |->
        [y \in S |-> <<y>> \o IF k > 0 /\ link[y] \in S THEN w[k - 1][link[y]] ELSE <<>>]]

\* There is one, for any number of steps.
LEMMA WalkExists ==
  ASSUME NEW link, NEW S, NEW n \in Nat
  PROVE  \E w : Steps(w, link, S, n)
<1> DEFINE T == {m \in Nat : \E w : Steps(w, link, S, m)}
<1>1. 0 \in T
  <2>1. PICK w : w = [k \in 0 .. 0 |-> [y \in S |-> <<y>> \o <<>>]]
    OBVIOUS
  <2>2. w = [k \in 0 .. 0 |->
        [y \in S |-> <<y>> \o IF k > 0 /\ link[y] \in S THEN w[k - 1][link[y]] ELSE <<>>]]
    BY <2>1
  <2>. QED  BY <2>2 DEF Steps
<1>2. ASSUME NEW m \in T PROVE m + 1 \in T
  <2>1. PICK w : Steps(w, link, S, m)
    OBVIOUS
  <2>2. PICK v : v = [k \in 0 .. m + 1 |->
        [y \in S |-> <<y>> \o IF k > 0 /\ link[y] \in S THEN w[k - 1][link[y]] ELSE <<>>]]
    OBVIOUS
  <2>3. \A k \in 0 .. m : v[k] = w[k]
    <3>. TAKE k \in 0 .. m
    <3>1. w[k] = [y \in S |-> <<y>> \o IF k > 0 /\ link[y] \in S THEN w[k - 1][link[y]] ELSE <<>>]
      BY <2>1 DEF Steps
    <3>. QED BY <2>2, <3>1
  <2>4. \A k \in 0 .. m + 1 : v[k] = 
        [y \in S |-> <<y>> \o IF k > 0 /\ link[y] \in S THEN v[k - 1][link[y]] ELSE <<>>]
    <3>. TAKE k \in 0 .. m + 1
    <3>1. v[k] = [y \in S |-> <<y>> \o IF k > 0 /\ link[y] \in S THEN w[k - 1][link[y]] ELSE <<>>]
      BY <2>2
    <3>2. k > 0 => w[k - 1] = v[k - 1]
      BY <2>3
    <3>. QED BY <3>1, <3>2
  <2>5. Steps(v, link, S, m + 1)
    BY <2>2, <2>4 DEF Steps
  <2>. QED  BY <2>5
<1> HIDE DEF T
<1>3. T \in SUBSET Nat
  BY DEF T
<1>4. T = Nat
  BY <1>1, <1>2, <1>3, Climb
<1>5. n \in T
  BY <1>4
<1>. QED  BY <1>5 DEF T

\* So Along is what it computes.
LEMMA AlongSteps ==
  ASSUME NEW link, NEW S, IsFiniteSet(S)
  PROVE  \E w : /\ Steps(w, link, S, Cardinality(S))
                /\ \A x \in S : Along(link, S, x) = w[Cardinality(S)][x]
<1>. DEFINE walk[k \in 0 .. Cardinality(S)] ==
        [y \in S |-> <<y>> \o IF k > 0 /\ link[y] \in S THEN walk[k - 1][link[y]] ELSE <<>>]
<1>1. Cardinality(S) \in Nat
  BY FS_CardinalityType
<1>2. \E w : w = [k \in 0 .. Cardinality(S) |->
        [y \in S |-> <<y>> \o IF k > 0 /\ link[y] \in S THEN w[k - 1][link[y]] ELSE <<>>]]
  <2>1. \E w : Steps(w, link, S, Cardinality(S))
    BY <1>1, WalkExists
  <2>. QED  BY <2>1, Zenon DEF Steps
<1>3. walk = [k \in 0 .. Cardinality(S) |->
        [y \in S |-> <<y>> \o IF k > 0 /\ link[y] \in S THEN walk[k - 1][link[y]] ELSE <<>>]]
  BY <1>2, Zenon
<1>4. \A x \in S : Along(link, S, x) = walk[Cardinality(S)][x]
  BY Zenon DEF Along
<1>5. Steps(walk, link, S, Cardinality(S))
  BY <1>3 DEF Steps
<1>. QED  BY <1>4, <1>5

\* No item is twice in s.
Once(s) == \A i, j \in 1 .. Len(s) : s[i] = s[j] => i = j

\* s is the items of S from x on along link, to the first link out of S.
Path(link, S, x, s) ==
  /\ s \in Seq(S)
  /\ IF s = <<>> THEN x \notin S ELSE s[1] = x /\ link[s[Len(s)]] \notin S
  /\ \A i \in 1 .. Len(s) - 1 : link[s[i]] = s[i + 1]

\* A sequence without repetition is no longer than its set is large.
LEMMA OnceBounded ==
  ASSUME NEW S, IsFiniteSet(S), NEW s \in Seq(S), Once(s)
  PROVE  Len(s) <= Cardinality(S)
<1>1. s \in Injection(1 .. Len(s), S)
  <2>1. s \in [1 .. Len(s) -> S]
    BY LenProperties
  <2>. QED  BY <2>1 DEF Once, Injection, IsInjective
<1>2. Cardinality(1 .. Len(s)) <= Cardinality(S)
  BY <1>1, FS_Injection
<1>3. Len(s) \in Nat /\ Cardinality(1 .. Len(s)) = Len(s)
  <2>1. PICK n \in Nat : n = Len(s)
    BY LenProperties
  <2>2. Cardinality(1 .. n) = IF 1 > n THEN 0 ELSE n - 1 + 1
    <3>1. 1 \in Int /\ n \in Int
      OBVIOUS
    <3>. QED  BY <3>1, FS_Interval, Zenon
  <2>3. Cardinality(1 .. n) = n
    BY <2>1, <2>2
  <2>. QED  BY <2>1, <2>3
<1>. QED  BY <1>2, <1>3

\* Along finds the path there is: it never needs to cut it off.
LEMMA AlongPath ==
  ASSUME NEW link, NEW S, IsFiniteSet(S), NEW x, NEW s, Path(link, S, x, s), Once(s)
  PROVE  Along(link, S, x) = s
<1> DEFINE n == Cardinality(S)
           last == Len(s)
<1>1. s \in Seq(S) /\ last \in Nat /\ n \in Nat /\ last <= n
  BY OnceBounded, FS_CardinalityType, LenProperties DEF Path
<1>2. CASE s = <<>>
  BY <1>2 DEF Path, Along
<1>3. CASE s # <<>>
  <2>1. last > 0 /\ x \in S /\ s[1] = x
    BY <1>1, <1>3, EmptySeq, ElementOfSeq DEF Path
  <2>2. PICK w : Steps(w, link, S, n) /\ Along(link, S, x) = w[n][x]
    BY <2>1, AlongSteps
  <2> HIDE DEF n, last
  <2>3. \A k \in 0 .. n, y \in S :
           w[k][y] = <<y>> \o IF k > 0 /\ link[y] \in S THEN w[k - 1][link[y]] ELSE <<>>
    <3>. TAKE k \in 0 .. n, y \in S
    <3>1. w[k] = [z \in S |-> <<z>> \o IF k > 0 /\ link[z] \in S THEN w[k - 1][link[z]] ELSE <<>>]
      BY <2>2 DEF Steps
    <3>. QED  BY <3>1
  <2> DEFINE T == {m \in Nat : m < last =>
                     \A k \in m .. n : w[k][s[last - m]] = SubSeq(s, last - m, last)}
  <2>4. 0 \in T
    <3>. SUFFICES ASSUME NEW k \in 0 .. n PROVE w[k][s[last]] = SubSeq(s, last, last)
      BY <1>1
    <3>1. s[last] \in S /\ link[s[last]] \notin S
      BY <1>1, <1>3, <2>1, ElementOfSeq DEF Path, last
    <3>2. w[k][s[last]] = <<s[last]>> \o <<>>
      BY <2>3, <3>1
    <3>3. SubSeq(s, last, last) = <<s[last]>> \o SubSeq(s, last + 1, last)
      BY <1>1, <2>1, SubSeqRecursiveFirst DEF last
    <3>4. SubSeq(s, last + 1, last) = <<>>
      BY <1>1, SubSeqEmpty
    <3>. QED  BY <3>2, <3>3, <3>4
  <2>5. ASSUME NEW m \in T PROVE m + 1 \in T
    <3>. SUFFICES ASSUME m + 1 < last, NEW k \in m + 1 .. n
                  PROVE  w[k][s[last - (m + 1)]] = SubSeq(s, last - (m + 1), last)
      OBVIOUS
    <3>1. PICK i \in 1 .. last - 1 : i = last - (m + 1)
      BY <1>1
    <3>2. s[i] \in S /\ s[i + 1] \in S /\ link[s[i]] = s[i + 1] /\ last - m = i + 1
      <4>1. i \in 1 .. Len(s) /\ i + 1 \in 1 .. Len(s) /\ i \in 1 .. Len(s) - 1
        BY <1>1, <3>1 DEF last
      <4>2. s[i] \in S /\ s[i + 1] \in S
        BY <1>1, <4>1, ElementOfSeq
      <4>3. link[s[i]] = s[i + 1]
        BY <4>1 DEF Path
      <4>. QED  BY <1>1, <3>1, <4>2, <4>3
    <3>3. w[k - 1][s[i + 1]] = SubSeq(s, i + 1, last)
      <4>1. k - 1 \in m .. n /\ m < last
        BY <1>1
      <4>2. \A h \in m .. n : w[h][s[last - m]] = SubSeq(s, last - m, last)
        BY <4>1
      <4>3. w[k - 1][s[last - m]] = SubSeq(s, last - m, last)
        BY <4>1, <4>2
      <4>. QED  BY <3>2, <4>3
    <3>4. w[k][s[i]] = <<s[i]>> \o SubSeq(s, i + 1, last)
      <4>1. k \in 0 .. n /\ k > 0
        BY <1>1
      <4>2. w[k][s[i]] = <<s[i]>> \o w[k - 1][link[s[i]]]
        BY <2>3, <3>2, <4>1
      <4>. QED  BY <3>2, <3>3, <4>2
    <3>5. SubSeq(s, i, last) = <<s[i]>> \o SubSeq(s, i + 1, last)
      BY <1>1, <3>1, SubSeqRecursiveFirst DEF last
    <3>. QED  BY <3>1, <3>4, <3>5
  <2> HIDE DEF T
  <2>6. T = Nat
    <3>1. T \in SUBSET Nat
      BY DEF T
    <3>. QED  BY <2>4, <2>5, <3>1, Climb
  <2>7. last - 1 \in T
    BY <1>1, <2>1, <2>6
  <2>8. w[n][s[1]] = SubSeq(s, 1, last)
    BY <1>1, <2>1, <2>7 DEF T
  <2>9. SubSeq(s, 1, last) = s
    BY <1>1, SubSeqFull DEF last
  <2>. QED  BY <2>1, <2>2, <2>8, <2>9
<1>. QED  BY <1>2, <1>3

-----------------------------------------------------------------------------
(* Sequences that are inserted into, removed from and joined.              *)

\* The first i items of a sequence.
LEMMA FrontIs ==
  ASSUME NEW S, NEW s \in Seq(S), NEW i \in 0 .. Len(s)
  PROVE  /\ SubSeq(s, 1, i) \in Seq(S)
         /\ Len(SubSeq(s, 1, i)) = i
         /\ \A j \in 1 .. i : SubSeq(s, 1, i)[j] = s[j]
<1>1. Len(s) \in Nat /\ i \in Int /\ 1 \in Int /\ \A j \in 1 .. i : s[j] \in S
  BY LenProperties, ElementOfSeq
<1>2. /\ SubSeq(s, 1, i) \in Seq(S)
      /\ Len(SubSeq(s, 1, i)) = IF 1 <= i THEN i - 1 + 1 ELSE 0
      /\ \A j \in 1 .. i - 1 + 1 : SubSeq(s, 1, i)[j] = s[1 + j - 1]
  BY <1>1, SubSeqProperties
<1>. QED  BY <1>1, <1>2

\* The items from the i-th on.
LEMMA BackIs ==
  ASSUME NEW S, NEW s \in Seq(S), NEW i \in 1 .. Len(s) + 1
  PROVE  /\ SubSeq(s, i, Len(s)) \in Seq(S)
         /\ Len(SubSeq(s, i, Len(s))) = Len(s) + 1 - i
         /\ \A j \in 1 .. Len(s) + 1 - i : SubSeq(s, i, Len(s))[j] = s[i + j - 1]
<1>1. Len(s) \in Nat /\ i \in Int /\ Len(s) \in Int /\ \A j \in i .. Len(s) : s[j] \in S
  BY LenProperties, ElementOfSeq
<1>2. /\ SubSeq(s, i, Len(s)) \in Seq(S)
      /\ Len(SubSeq(s, i, Len(s))) = IF i <= Len(s) THEN Len(s) - i + 1 ELSE 0
      /\ \A j \in 1 .. Len(s) - i + 1 : SubSeq(s, i, Len(s))[j] = s[i + j - 1]
  BY <1>1, SubSeqProperties
<1>. QED  BY <1>1, <1>2

\* Two sequences, one behind the other.
LEMMA ConcatIs ==
  ASSUME NEW S, NEW s \in Seq(S), NEW t \in Seq(S), NEW u, u = s \o t,
         NEW m, m = Len(s), NEW n, n = Len(t)
  PROVE  /\ m \in Nat /\ n \in Nat /\ u \in Seq(S) /\ Len(u) = m + n
         /\ \A j \in 1 .. m : u[j] = s[j]
         /\ \A j \in 1 .. n : u[m + j] = t[j]
<1>1. m \in Nat /\ n \in Nat
  BY LenProperties
<1>2. /\ u \in Seq(S) /\ Len(u) = m + n
      /\ \A j \in 1 .. m + n : u[j] = IF j <= m THEN s[j] ELSE t[j - m]
  BY ConcatProperties
<1>3. ASSUME NEW j \in 1 .. n PROVE u[m + j] = t[j]
  <2>1. m + j \in 1 .. m + n /\ ~ (m + j <= m) /\ (m + j) - m = j
    BY <1>1
  <2>. QED  BY <1>2, <2>1
<1>. QED  BY <1>1, <1>2, <1>3

\* Item by item, what InsertAt makes of a sequence.
LEMMA InsertAtIs ==
  ASSUME NEW S, NEW s \in Seq(S), NEW e \in S, NEW i \in 1 .. Len(s) + 1
  PROVE  /\ InsertAt(s, i, e) \in Seq(S)
         /\ Len(InsertAt(s, i, e)) = Len(s) + 1
         /\ \A j \in 1 .. i - 1 : InsertAt(s, i, e)[j] = s[j]
         /\ InsertAt(s, i, e)[i] = e
         /\ \A j \in i .. Len(s) : InsertAt(s, i, e)[j + 1] = s[j]
<1> DEFINE front == SubSeq(s, 1, i - 1)
           back == SubSeq(s, i, Len(s))
           most == front \o <<e>>
           all == InsertAt(s, i, e)
<1>1. Len(s) \in Nat /\ i - 1 \in 0 .. Len(s)
  BY LenProperties
<1>2. /\ front \in Seq(S) /\ i - 1 = Len(front) /\ \A j \in 1 .. i - 1 : front[j] = s[j]
  BY <1>1, FrontIs
<1>3. /\ back \in Seq(S) /\ Len(s) + 1 - i = Len(back)
      /\ \A j \in 1 .. Len(s) + 1 - i : back[j] = s[i + j - 1]
  BY <1>1, BackIs
<1>4. all = most \o back
  BY DEF InsertAt
<1>5. <<e>> \in Seq(S) /\ 1 = Len(<<e>>) /\ <<e>>[1] = e
  OBVIOUS
<1>6. most = front \o <<e>>
  OBVIOUS
<1> HIDE DEF front, back, most, all
<1>7. /\ most \in Seq(S) /\ Len(most) = (i - 1) + 1
      /\ \A j \in 1 .. i - 1 : most[j] = front[j]
      /\ \A j \in 1 .. 1 : most[(i - 1) + j] = <<e>>[j]
  <2> DEFINE m == Len(front)
             n == Len(<<e>>)
  <2>1. m = i - 1 /\ n = 1
    BY <1>2, <1>5
  <2>2. /\ most \in Seq(S) /\ Len(most) = m + n
        /\ \A j \in 1 .. m : most[j] = front[j]
        /\ \A j \in 1 .. n : most[m + j] = <<e>>[j]
    BY <1>2, <1>5, <1>6, ConcatIs
  <2> HIDE DEF m, n
  <2>. QED  BY <2>1, <2>2
<1>8. /\ i = Len(most) /\ \A j \in 1 .. i - 1 : most[j] = s[j]
      /\ most[i] = e
  BY <1>1, <1>2, <1>5, <1>7
<1>9. /\ all \in Seq(S) /\ Len(all) = i + (Len(s) + 1 - i)
      /\ \A j \in 1 .. i : all[j] = most[j]
      /\ \A j \in 1 .. Len(s) + 1 - i : all[i + j] = back[j]
  BY <1>3, <1>4, <1>7, <1>8, ConcatIs
<1>10. ASSUME NEW j \in i .. Len(s) PROVE all[j + 1] = s[j]
  <2>1. PICK k \in 1 .. Len(s) + 1 - i : k = j + 1 - i
    BY <1>1
  <2>2. i + k = j + 1 /\ i + k - 1 = j
    BY <1>1, <2>1
  <2>3. all[i + k] = back[k] /\ back[k] = s[i + k - 1]
    BY <1>3, <1>9
  <2>. QED  BY <2>2, <2>3
<1>. QED  BY <1>1, <1>8, <1>9, <1>10 DEF all

\* Item by item, what RemoveAt makes of a sequence.
LEMMA RemoveAtIs ==
  ASSUME NEW S, NEW s \in Seq(S), NEW i \in 1 .. Len(s)
  PROVE  /\ RemoveAt(s, i) \in Seq(S)
         /\ Len(RemoveAt(s, i)) = Len(s) - 1
         /\ \A j \in 1 .. i - 1 : RemoveAt(s, i)[j] = s[j]
         /\ \A j \in i .. Len(s) - 1 : RemoveAt(s, i)[j] = s[j + 1]
<1> DEFINE front == SubSeq(s, 1, i - 1)
           back == SubSeq(s, i + 1, Len(s))
           all == RemoveAt(s, i)
<1>1. Len(s) \in Nat /\ i - 1 \in 0 .. Len(s) /\ i + 1 \in 1 .. Len(s) + 1
  BY LenProperties
<1>2. front \in Seq(S) /\ i - 1 = Len(front) /\ \A j \in 1 .. i - 1 : front[j] = s[j]
  BY <1>1, FrontIs
<1>3. /\ back \in Seq(S) /\ Len(s) + 1 - (i + 1) = Len(back)
      /\ \A j \in 1 .. Len(s) + 1 - (i + 1) : back[j] = s[(i + 1) + j - 1]
  BY <1>1, BackIs
<1>4. all = front \o back
  BY DEF RemoveAt
<1> HIDE DEF front, back, all
<1>5. /\ all \in Seq(S) /\ Len(all) = (i - 1) + (Len(s) + 1 - (i + 1))
      /\ \A j \in 1 .. i - 1 : all[j] = front[j]
      /\ \A j \in 1 .. Len(s) + 1 - (i + 1) : all[(i - 1) + j] = back[j]
  <2> DEFINE m == Len(front)
             n == Len(back)
  <2>1. m = i - 1 /\ n = Len(s) + 1 - (i + 1)
    BY <1>2, <1>3
  <2>2. /\ all \in Seq(S) /\ Len(all) = m + n
        /\ \A j \in 1 .. m : all[j] = front[j]
        /\ \A j \in 1 .. n : all[m + j] = back[j]
    BY <1>2, <1>3, <1>4, ConcatIs
  <2> HIDE DEF m, n
  <2>. QED  BY <2>1, <2>2
<1>6. ASSUME NEW j \in i .. Len(s) - 1 PROVE all[j] = s[j + 1]
  <2>1. PICK k \in 1 .. Len(s) + 1 - (i + 1) : k = j - (i - 1)
    BY <1>1
  <2>2. (i - 1) + k = j /\ (i + 1) + k - 1 = j + 1
    BY <1>1, <2>1
  <2>3. all[(i - 1) + k] = back[k] /\ back[k] = s[(i + 1) + k - 1]
    BY <1>3, <1>5
  <2>. QED  BY <2>2, <2>3
<1>. QED  BY <1>1, <1>2, <1>5, <1>6 DEF all

\* All of t behind the first i of s.
Joined(s, i, t) == SubSeq(s, 1, i) \o t \o SubSeq(s, i + 1, Len(s))

\* u is s with t behind its first i items.
Joins(u, s, i, t) ==
  /\ Len(u) = Len(s) + Len(t)
  /\ \A j \in 1 .. i : u[j] = s[j]
  /\ \A j \in 1 .. Len(t) : u[i + j] = t[j]
  /\ \A j \in i + 1 .. Len(s) : u[j + Len(t)] = s[j]

\* Item by item, what Joined makes of two sequences.
LEMMA JoinedIs ==
  ASSUME NEW S, NEW s \in Seq(S), NEW t \in Seq(S), NEW i \in 0 .. Len(s)
  PROVE  Joined(s, i, t) \in Seq(S) /\ Joins(Joined(s, i, t), s, i, t)
<1> DEFINE front == SubSeq(s, 1, i)
           back == SubSeq(s, i + 1, Len(s))
           most == front \o t
           all == Joined(s, i, t)
<1>1. Len(s) \in Nat /\ Len(t) \in Nat /\ i + 1 \in 1 .. Len(s) + 1
  BY LenProperties
<1>2. front \in Seq(S) /\ i = Len(front) /\ \A j \in 1 .. i : front[j] = s[j]
  BY <1>1, FrontIs
<1>3. /\ back \in Seq(S) /\ Len(s) + 1 - (i + 1) = Len(back)
      /\ \A j \in 1 .. Len(s) + 1 - (i + 1) : back[j] = s[(i + 1) + j - 1]
  BY <1>1, BackIs
<1>4. all = most \o back
  BY DEF Joined
<1>5. most = front \o t
  OBVIOUS
<1> HIDE DEF front, back, most, all
<1>6. /\ most \in Seq(S) /\ Len(most) = i + Len(t)
      /\ \A j \in 1 .. i : most[j] = front[j]
      /\ \A j \in 1 .. Len(t) : most[i + j] = t[j]
  BY <1>2, <1>5, ConcatIs
<1>7. /\ all \in Seq(S) /\ Len(all) = i + Len(t) + (Len(s) + 1 - (i + 1))
      /\ \A j \in 1 .. i + Len(t) : all[j] = most[j]
      /\ \A j \in 1 .. Len(s) + 1 - (i + 1) : all[(i + Len(t)) + j] = back[j]
  <2> DEFINE m == Len(most)
             n == Len(back)
  <2>1. m = i + Len(t) /\ n = Len(s) + 1 - (i + 1)
    BY <1>3, <1>6
  <2>2. /\ all \in Seq(S) /\ Len(all) = m + n
        /\ \A j \in 1 .. m : all[j] = most[j]
        /\ \A j \in 1 .. n : all[m + j] = back[j]
    <3>1. most \in Seq(S) /\ back \in Seq(S)
      BY <1>3, <1>6
    <3>. QED  BY <1>4, <3>1, ConcatIs
  <2> HIDE DEF m, n
  <2>. QED  BY <2>1, <2>2
<1>8. /\ \A j \in 1 .. i : all[j] = s[j]
      /\ \A j \in 1 .. Len(t) : all[i + j] = t[j]
  BY <1>1, <1>2, <1>6, <1>7
<1>9. ASSUME NEW j \in i + 1 .. Len(s) PROVE all[j + Len(t)] = s[j]
  <2>1. PICK k \in 1 .. Len(s) + 1 - (i + 1) : k = j - i
    BY <1>1
  <2>2. (i + Len(t)) + k = j + Len(t) /\ (i + 1) + k - 1 = j
    BY <1>1, <2>1
  <2>3. all[(i + Len(t)) + k] = back[k] /\ back[k] = s[(i + 1) + k - 1]
    BY <1>3, <1>7
  <2>. QED  BY <2>2, <2>3
<1>. QED  BY <1>1, <1>7, <1>8, <1>9 DEF all, Joins

-----------------------------------------------------------------------------
(* Chains.                                                                 *)

\* The place i of a list: place 0 is its head, and behind the last is end.
Nth(s, h, end, i) == IF i = 0 THEN h ELSE IF i \in 1 .. Len(s) THEN s[i] ELSE end

\* From the head through all of s to end, along succ.
Chain(succ, h, end, s) ==
  \A i \in 0 .. Len(s) : succ[Nth(s, h, end, i)] = Nth(s, h, end, i + 1)

\* A chain is the path from the first link on.
LEMMA ChainPath ==
  ASSUME NEW S, NEW s \in Seq(S), NEW h, NEW end, end \notin S,
         NEW succ, Chain(succ, h, end, s)
  PROVE  Path(succ, S, succ[h], s)
<1>1. Len(s) \in Nat /\ (s = <<>> <=> Len(s) = 0)
  BY LenProperties, EmptySeq
<1>2. succ[h] = IF s = <<>> THEN end ELSE s[1]
  <2>1. succ[Nth(s, h, end, 0)] = Nth(s, h, end, 1)
    BY <1>1 DEF Chain
  <2>. QED  BY <1>1, <2>1 DEF Nth
<1>3. ASSUME NEW i \in 1 .. Len(s) - 1 PROVE succ[s[i]] = s[i + 1]
  <2>1. i \in 0 .. Len(s) /\ i # 0 /\ i \in 1 .. Len(s) /\ i + 1 # 0 /\ i + 1 \in 1 .. Len(s)
    BY <1>1
  <2>. QED  BY <2>1 DEF Chain, Nth
<1>4. ASSUME s # <<>> PROVE succ[s[Len(s)]] \notin S
  <2>1. Len(s) \in 1 .. Len(s) /\ Len(s) \in 0 .. Len(s) /\ Len(s) # 0
        /\ Len(s) + 1 # 0 /\ Len(s) + 1 \notin 1 .. Len(s)
    BY <1>1, <1>4
  <2>. QED  BY <2>1 DEF Chain, Nth
<1>. QED  BY <1>2, <1>3, <1>4 DEF Path

\* What the links of a chain lead to is what the walk along them finds.
LEMMA AlongChain ==
  ASSUME NEW S, IsFiniteSet(S), NEW s \in Seq(S), Once(s), NEW h, NEW end, end \notin S,
         NEW succ, Chain(succ, h, end, s)
  PROVE  Along(succ, S, succ[h]) = s
BY ChainPath, AlongPath

\* No two places of a chain are the same item.
LEMMA NthOnce ==
  ASSUME NEW S, NEW s \in Seq(S), Once(s), NEW h, h \notin S, NEW end,
         NEW i \in 0 .. Len(s), NEW j \in 0 .. Len(s), Nth(s, h, end, i) = Nth(s, h, end, j)
  PROVE  i = j
<1>1. Len(s) \in Nat /\ \A k \in 1 .. Len(s) : s[k] \in S
  BY LenProperties, ElementOfSeq
<1>. QED  BY <1>1 DEF Nth, Once

\* A chain does not change when none of its own links does.
LEMMA ChainKept ==
  ASSUME NEW S, NEW s \in Seq(S), NEW h, NEW end,
         NEW succ, Chain(succ, h, end, s), NEW new,
         new[h] = succ[h], \A i \in 1 .. Len(s) : new[s[i]] = succ[s[i]]
  PROVE  Chain(new, h, end, s)
<1>1. Len(s) \in Nat
  BY LenProperties
<1>2. \A i \in 0 .. Len(s) : new[Nth(s, h, end, i)] = succ[Nth(s, h, end, i)]
  BY <1>1 DEF Nth
<1>. QED  BY <1>2 DEF Chain

\* An item goes between two places of the chain.
LEMMA ChainInserted ==
  ASSUME NEW S, NEW s \in Seq(S), Once(s), NEW h, h \notin S, NEW end,
         NEW succ, Chain(succ, h, end, s),
         NEW e \in S, \A j \in 1 .. Len(s) : s[j] # e,
         NEW i \in 1 .. Len(s) + 1, NEW new,
         new[e] = Nth(s, h, end, i),
         new[Nth(s, h, end, i - 1)] = e,
         \A j \in 0 .. Len(s) : j # i - 1 => new[Nth(s, h, end, j)] = succ[Nth(s, h, end, j)]
  PROVE  Chain(new, h, end, InsertAt(s, i, e))
<1> DEFINE n == Len(s)
           t == InsertAt(s, i, e)
           at(j) == Nth(s, h, end, j)
           to(j) == Nth(t, h, end, j)
<1>1. n \in Nat
  BY LenProperties
<1>2. /\ Len(t) = n + 1
      /\ \A j \in 1 .. i - 1 : t[j] = s[j]
      /\ t[i] = e
      /\ \A j \in i .. n : t[j + 1] = s[j]
  BY InsertAtIs
<1> HIDE DEF t
<1>3. \A j \in 0 .. i - 1 : to(j) = at(j)
  BY <1>1, <1>2 DEF Nth
<1>4. to(i) = e
  BY <1>1, <1>2 DEF Nth
<1>5. \A j \in i .. n + 1 : to(j + 1) = at(j)
  <2>. TAKE j \in i .. n + 1
  <2>1. CASE j = n + 1
    <3>1. j + 1 # 0 /\ j + 1 \notin 1 .. n + 1 /\ j # 0 /\ j \notin 1 .. n
      BY <1>1, <2>1
    <3>. QED  BY <1>2, <3>1 DEF Nth
  <2>2. CASE j # n + 1
    <3>1. j + 1 # 0 /\ j + 1 \in 1 .. n + 1 /\ j # 0 /\ j \in 1 .. n /\ j \in i .. n
      BY <1>1, <2>2
    <3>. QED  BY <1>2, <3>1 DEF Nth
  <2>. QED  BY <2>1, <2>2
<1>6. \A j \in 0 .. n : succ[at(j)] = at(j + 1)
  BY DEF Chain
<1>7. /\ new[e] = at(i) /\ new[at(i - 1)] = e
      /\ \A j \in 0 .. n : j # i - 1 => new[at(j)] = succ[at(j)]
  OBVIOUS
<1> HIDE DEF at, to, n
<1>8. ASSUME NEW j \in 0 .. n + 1 PROVE new[to(j)] = to(j + 1)
  <2>1. CASE j < i - 1
    <3>1. j \in 0 .. i - 1 /\ j + 1 \in 0 .. i - 1 /\ j \in 0 .. n /\ j # i - 1
      BY <1>1, <2>1 DEF n
    <3>. QED  BY <1>3, <1>6, <1>7, <3>1
  <2>2. CASE j = i - 1
    <3>1. j \in 0 .. i - 1 /\ j + 1 = i
      BY <1>1, <2>2 DEF n
    <3>. QED  BY <1>3, <1>4, <1>7, <2>2, <3>1
  <2>3. CASE j = i
    <3>1. i \in i .. n + 1
      BY <1>1 DEF n
    <3>. QED  BY <1>4, <1>5, <1>7, <2>3, <3>1
  <2>4. CASE j > i
    <3>1. PICK k \in 0 .. n : k = j - 1
      BY <1>1, <2>4 DEF n
    <3>2. k \in i .. n + 1 /\ k + 1 \in i .. n + 1 /\ k # i - 1 /\ j = k + 1
      BY <1>1, <2>4, <3>1 DEF n
    <3>3. to(j) = at(k) /\ to(j + 1) = at(k + 1)
      BY <1>5, <3>2
    <3>. QED  BY <1>6, <1>7, <3>2, <3>3
  <2>. QED  BY <1>1, <2>1, <2>2, <2>3, <2>4 DEF n
<1>. QED  BY <1>2, <1>8 DEF Chain, to, t, n

\* The places before and behind one are linked past it.
LEMMA ChainRemoved ==
  ASSUME NEW S, NEW s \in Seq(S), Once(s), NEW h, h \notin S, NEW end,
         NEW succ, Chain(succ, h, end, s),
         NEW i \in 1 .. Len(s), NEW new,
         new[Nth(s, h, end, i - 1)] = Nth(s, h, end, i + 1),
         \A j \in 0 .. Len(s) : j # i - 1 /\ j # i =>
            new[Nth(s, h, end, j)] = succ[Nth(s, h, end, j)]
  PROVE  Chain(new, h, end, RemoveAt(s, i))
<1> DEFINE n == Len(s)
           t == RemoveAt(s, i)
           at(j) == Nth(s, h, end, j)
           to(j) == Nth(t, h, end, j)
<1>1. n \in Nat
  BY LenProperties
<1>2. /\ Len(t) = n - 1
      /\ \A j \in 1 .. i - 1 : t[j] = s[j]
      /\ \A j \in i .. n - 1 : t[j] = s[j + 1]
  BY RemoveAtIs
<1> HIDE DEF t
<1>3. \A j \in 0 .. i - 1 : to(j) = at(j)
  BY <1>1, <1>2 DEF Nth
<1>4. \A j \in i .. n : to(j) = at(j + 1)
  <2>. TAKE j \in i .. n
  <2>1. CASE j = n
    <3>1. j # 0 /\ j \notin 1 .. n - 1 /\ j + 1 # 0 /\ j + 1 \notin 1 .. n
      BY <1>1, <2>1
    <3>. QED  BY <1>2, <3>1 DEF Nth
  <2>2. CASE j # n
    <3>1. j # 0 /\ j \in 1 .. n - 1 /\ j + 1 # 0 /\ j + 1 \in 1 .. n /\ j \in i .. n - 1
      BY <1>1, <2>2
    <3>. QED  BY <1>2, <3>1 DEF Nth
  <2>. QED  BY <2>1, <2>2
<1>5. \A j \in 0 .. n : succ[at(j)] = at(j + 1)
  BY DEF Chain
<1>6. /\ new[at(i - 1)] = at(i + 1)
      /\ \A j \in 0 .. n : j # i - 1 /\ j # i => new[at(j)] = succ[at(j)]
  OBVIOUS
<1> HIDE DEF at, to, n
<1>7. ASSUME NEW j \in 0 .. n - 1 PROVE new[to(j)] = to(j + 1)
  <2>1. CASE j < i - 1
    <3>1. j \in 0 .. i - 1 /\ j + 1 \in 0 .. i - 1 /\ j \in 0 .. n /\ j # i - 1 /\ j # i
      BY <1>1, <2>1 DEF n
    <3>. QED  BY <1>3, <1>5, <1>6, <3>1
  <2>2. CASE j = i - 1
    <3>1. j \in 0 .. i - 1 /\ j + 1 = i /\ i \in i .. n
      BY <1>1, <2>2 DEF n
    <3>. QED  BY <1>3, <1>4, <1>6, <2>2, <3>1
  <2>3. CASE j >= i
    <3>1. /\ j \in i .. n /\ j + 1 \in i .. n /\ j + 1 \in 0 .. n
          /\ j + 1 # i - 1 /\ j + 1 # i
      BY <1>1, <2>3 DEF n
    <3>2. to(j) = at(j + 1) /\ to(j + 1) = at((j + 1) + 1)
      BY <1>4, <3>1
    <3>3. new[at(j + 1)] = at((j + 1) + 1)
      BY <1>5, <1>6, <3>1
    <3>. QED  BY <3>2, <3>3
  <2>. QED  BY <1>1, <2>1, <2>2, <2>3 DEF n
<1>. QED  BY <1>2, <1>7 DEF Chain, to, t, n

\* All of another list goes behind place i.
LEMMA ChainJoined ==
  ASSUME NEW S, NEW s \in Seq(S), Once(s), NEW h, h \notin S, NEW end,
         NEW t \in Seq(S), t # <<>>, NEW g, NEW other,
         NEW succ, Chain(succ, h, end, s), Chain(succ, g, other, t),
         NEW i \in 0 .. Len(s), NEW new,
         new[Nth(s, h, end, i)] = t[1],
         new[t[Len(t)]] = Nth(s, h, end, i + 1),
         \A j \in 0 .. Len(s) : j # i => new[Nth(s, h, end, j)] = succ[Nth(s, h, end, j)],
         \A j \in 1 .. Len(t) - 1 : new[t[j]] = succ[t[j]]
  PROVE  Chain(new, h, end, Joined(s, i, t))
<1>n. PICK n : n = Len(s)
  OBVIOUS
<1>m. PICK m : m = Len(t)
  OBVIOUS
<1>u. PICK u : u = Joined(s, i, t)
  OBVIOUS
<1> DEFINE at(j) == Nth(s, h, end, j)
           to(j) == Nth(u, h, end, j)
<1>1. n \in Nat /\ m \in Nat /\ m > 0 /\ i \in Nat /\ i <= n
  BY <1>n, <1>m, LenProperties, EmptySeq
<1>2. /\ Len(u) = n + m
      /\ \A j \in 1 .. i : u[j] = s[j]
      /\ \A j \in 1 .. m : u[i + j] = t[j]
      /\ \A j \in i + 1 .. n : u[j + m] = s[j]
  <2>1. Joins(u, s, i, t)
    BY <1>u, JoinedIs
  <2>. QED  BY <1>n, <1>m, <2>1 DEF Joins
<1>3. \A j \in 1 .. m - 1 : succ[t[j]] = t[j + 1]
  <2>. TAKE j \in 1 .. m - 1
  <2>1. j \in 0 .. m /\ j # 0 /\ j \in 1 .. m /\ j + 1 # 0 /\ j + 1 \in 1 .. m
    BY <1>1
  <2>. QED  BY <1>m, <2>1 DEF Chain, Nth
<1>4. \A j \in 0 .. n : succ[at(j)] = at(j + 1)
  BY <1>n DEF Chain
<1>5. \A j \in 0 .. i : to(j) = at(j)
  BY <1>1, <1>2 DEF Nth
<1>6. \A j \in 1 .. m : to(i + j) = t[j]
  <2>. TAKE j \in 1 .. m
  <2>1. i + j # 0 /\ i + j \in 1 .. n + m
    BY <1>1
  <2>. QED  BY <1>n, <1>2, <2>1 DEF Nth
<1>7. \A j \in i + 1 .. n + 1 : to(j + m) = at(j)
  <2>. TAKE j \in i + 1 .. n + 1
  <2>1. CASE j = n + 1
    <3>1. j + m # 0 /\ j + m \notin 1 .. n + m /\ j # 0 /\ j \notin 1 .. n
      BY <1>1, <2>1
    <3>. QED  BY <1>n, <1>2, <3>1 DEF Nth
  <2>2. CASE j # n + 1
    <3>1. j + m # 0 /\ j + m \in 1 .. n + m /\ j # 0 /\ j \in 1 .. n /\ j \in i + 1 .. n
      BY <1>1, <2>2
    <3>. QED  BY <1>n, <1>2, <3>1 DEF Nth
  <2>. QED  BY <2>1, <2>2
<1>8. /\ new[at(i)] = t[1] /\ new[t[m]] = at(i + 1)
      /\ \A j \in 0 .. n : j # i => new[at(j)] = succ[at(j)]
      /\ \A j \in 1 .. m - 1 : new[t[j]] = succ[t[j]]
  BY <1>n, <1>m
<1> HIDE DEF at, to
<1>9. ASSUME NEW j \in 0 .. n + m PROVE new[to(j)] = to(j + 1)
  <2>1. CASE j < i
    <3>1. j \in 0 .. i /\ j + 1 \in 0 .. i /\ j \in 0 .. n /\ j # i
      BY <1>1, <2>1
    <3>. QED  BY <1>4, <1>5, <1>8, <3>1
  <2>2. CASE j = i
    <3>1. i \in 0 .. i /\ 1 \in 1 .. m
      BY <1>1
    <3>. QED  BY <1>5, <1>6, <1>8, <2>2, <3>1
  <2>3. CASE j > i /\ j < i + m
    <3>1. PICK k \in 1 .. m - 1 : k = j - i
      BY <1>1, <2>3
    <3>2. k \in 1 .. m /\ k + 1 \in 1 .. m /\ j = i + k /\ j + 1 = i + (k + 1)
      BY <1>1, <3>1
    <3>3. to(j) = t[k] /\ to(j + 1) = t[k + 1]
      BY <1>6, <3>2
    <3>. QED  BY <1>3, <1>8, <3>3
  <2>4. CASE j = i + m
    <3>1. m \in 1 .. m /\ i + 1 \in i + 1 .. n + 1 /\ j + 1 = (i + 1) + m
      BY <1>1, <2>4
    <3>2. to(j) = t[m] /\ to(j + 1) = at(i + 1)
      BY <1>6, <1>7, <2>4, <3>1
    <3>. QED  BY <1>8, <3>2
  <2>5. CASE j > i + m
    <3>1. PICK k \in 0 .. n : k = j - m
      BY <1>1, <2>5
    <3>2. /\ k \in i + 1 .. n + 1 /\ k + 1 \in i + 1 .. n + 1 /\ k # i
          /\ j = k + m /\ j + 1 = (k + 1) + m
      BY <1>1, <2>5, <3>1
    <3>3. to(j) = at(k) /\ to(j + 1) = at(k + 1)
      BY <1>7, <3>2
    <3>. QED  BY <1>4, <1>8, <3>2, <3>3
  <2>. QED  BY <1>1, <2>1, <2>2, <2>3, <2>4, <2>5
<1>. QED  BY <1>n, <1>m, <1>u, <1>2, <1>9 DEF Chain, to

-----------------------------------------------------------------------------
(* What is on a sequence, and once.                                        *)

\* x is an item of s.
In(s, x) == \E j \in 1 .. Len(s) : s[j] = x

\* Inserting an item that was not there.
LEMMA InsertedOnce ==
  ASSUME NEW S, NEW s \in Seq(S), Once(s), NEW e \in S, ~ In(s, e), NEW i \in 1 .. Len(s) + 1,
         NEW t, t = InsertAt(s, i, e)
  PROVE  Once(t) /\ \A x : In(t, x) <=> x = e \/ In(s, x)
<1> DEFINE n == Len(s)
           from(j) == IF j < i THEN j ELSE j - 1
<1>1. n \in Nat
  BY LenProperties
<1>2. /\ Len(t) = n + 1
      /\ \A j \in 1 .. i - 1 : t[j] = s[j]
      /\ t[i] = e
      /\ \A j \in i .. n : t[j + 1] = s[j]
  BY InsertAtIs
<1>3. \A j \in 1 .. n + 1 : j # i => from(j) \in 1 .. n /\ t[j] = s[from(j)]
  <2>. TAKE j \in 1 .. n + 1
  <2>1. CASE j < i
    BY <1>1, <1>2, <2>1
  <2>2. CASE j > i
    <3>1. j - 1 \in i .. n /\ (j - 1) + 1 = j /\ j - 1 \in 1 .. n /\ ~ (j < i)
      BY <1>1, <2>2
    <3>2. t[(j - 1) + 1] = s[j - 1]
      BY <1>2, <3>1
    <3>. QED  BY <3>1, <3>2
  <2>. QED  BY <1>1, <2>1, <2>2
<1>4. \A j, k \in 1 .. n + 1 : j # i /\ k # i /\ from(j) = from(k) => j = k
  BY <1>1
<1>5. \A j \in 1 .. n : s[j] # e
  BY DEF In
<1> HIDE DEF from, n
<1>6. Once(t)
  <2>. SUFFICES ASSUME NEW j \in 1 .. n + 1, NEW k \in 1 .. n + 1, t[j] = t[k]
                PROVE  j = k
    BY <1>2 DEF Once
  <2>1. j = i <=> k = i
    BY <1>2, <1>3, <1>5
  <2>2. ASSUME j # i, k # i PROVE from(j) = from(k)
    BY <1>3, <2>2 DEF Once, n
  <2>. QED  BY <1>4, <2>1, <2>2
<1>7. ASSUME NEW x, In(t, x) PROVE x = e \/ In(s, x)
  BY <1>2, <1>3, <1>7 DEF In, n
<1>8. In(t, e)
  BY <1>1, <1>2 DEF In, n
<1>9. ASSUME NEW x, In(s, x) PROVE In(t, x)
  <2>1. PICK j \in 1 .. n : s[j] = x
    BY <1>9 DEF In, n
  <2>2. CASE j < i
    <3>1. j \in 1 .. i - 1 /\ j \in 1 .. n + 1
      BY <1>1, <2>2 DEF n
    <3>. QED  BY <1>2, <2>1, <3>1 DEF In
  <2>3. CASE j >= i
    <3>1. j \in i .. n /\ j + 1 \in 1 .. n + 1
      BY <1>1, <2>3 DEF n
    <3>. QED  BY <1>2, <2>1, <3>1 DEF In
  <2>. QED  BY <1>1, <2>2, <2>3 DEF n
<1>. QED  BY <1>6, <1>7, <1>8, <1>9

\* Removing the i-th item.
LEMMA RemovedOnce ==
  ASSUME NEW S, NEW s \in Seq(S), Once(s), NEW i \in 1 .. Len(s), NEW t, t = RemoveAt(s, i)
  PROVE  Once(t) /\ \A x : In(t, x) <=> In(s, x) /\ x # s[i]
<1> DEFINE n == Len(s)
           from(j) == IF j < i THEN j ELSE j + 1
<1>1. n \in Nat
  BY LenProperties
<1>2. /\ Len(t) = n - 1
      /\ \A j \in 1 .. i - 1 : t[j] = s[j]
      /\ \A j \in i .. n - 1 : t[j] = s[j + 1]
  BY RemoveAtIs
<1>3. ASSUME NEW j \in 1 .. n - 1
      PROVE  from(j) \in 1 .. n /\ from(j) # i /\ t[j] = s[from(j)]
  <2>1. CASE j < i
    <3>1. j \in 1 .. i - 1
      BY <1>1, <2>1
    <3>. QED  BY <1>1, <1>2, <2>1, <3>1
  <2>2. CASE j >= i
    <3>1. j \in i .. n - 1
      BY <1>1, <2>2
    <3>. QED  BY <1>1, <1>2, <2>2, <3>1
  <2>. QED  BY <1>1, <2>1, <2>2
<1>4. \A j, k \in 1 .. n - 1 : from(j) = from(k) => j = k
  BY <1>1
<1> HIDE DEF from, n
<1>5. Once(t)
  <2>. SUFFICES ASSUME NEW j \in 1 .. n - 1, NEW k \in 1 .. n - 1, t[j] = t[k]
                PROVE  j = k
    BY <1>2 DEF Once
  <2>1. from(j) = from(k)
    BY <1>3 DEF Once, n
  <2>. QED  BY <1>4, <2>1
<1>6. ASSUME NEW x, In(t, x) PROVE In(s, x) /\ x # s[i]
  <2>1. PICK j \in 1 .. n - 1 : t[j] = x
    BY <1>2, <1>6 DEF In
  <2>2. from(j) \in 1 .. Len(s) /\ from(j) # i /\ x = s[from(j)]
    BY <1>3, <2>1 DEF n
  <2>. QED  BY <2>2 DEF In, Once
<1>7. ASSUME NEW x, In(s, x), x # s[i] PROVE In(t, x)
  <2>1. PICK j \in 1 .. n : s[j] = x
    BY <1>7 DEF In, n
  <2>2. CASE j < i
    <3>1. j \in 1 .. i - 1 /\ j \in 1 .. n - 1
      BY <1>1, <2>2 DEF n
    <3>. QED  BY <1>2, <2>1, <3>1 DEF In
  <2>3. CASE j > i
    <3>1. PICK k \in i .. n - 1 : k + 1 = j
      BY <1>1, <2>3 DEF n
    <3>2. k \in 1 .. n - 1 /\ t[k] = x
      BY <1>1, <1>2, <2>1, <3>1 DEF n
    <3>. QED  BY <1>2, <3>2 DEF In
  <2>. QED  BY <1>1, <1>7, <2>1, <2>2, <2>3 DEF n
<1>. QED  BY <1>5, <1>6, <1>7

\* Joining two sequences that share nothing.
LEMMA JoinedOnce ==
  ASSUME NEW S, NEW s \in Seq(S), Once(s), NEW t \in Seq(S), Once(t),
         \A x : ~ (In(s, x) /\ In(t, x)), NEW i \in 0 .. Len(s),
         NEW u, u = Joined(s, i, t)
  PROVE  Once(u) /\ \A x : In(u, x) <=> In(s, x) \/ In(t, x)
<1>1. PICK n : n = Len(s)
  OBVIOUS
<1>2. PICK m : m = Len(t)
  OBVIOUS
<1>3. /\ n \in Nat /\ m \in Nat /\ i \in 0 .. n /\ Len(s) = n /\ Len(t) = m
      /\ Len(u) = n + m
      /\ \A j \in 1 .. i : u[j] = s[j]
      /\ \A j \in 1 .. m : u[i + j] = t[j]
      /\ \A j \in i + 1 .. n : u[j + m] = s[j]
  <2>1. n \in Nat /\ m \in Nat
    BY <1>1, <1>2, LenProperties
  <2>2. Joins(u, s, i, t)
    BY JoinedIs
  <2>. QED  BY <1>1, <1>2, <2>1, <2>2 DEF Joins
<1> DEFINE own(j) == j <= i \/ j > i + m
           from(j) == IF j <= i THEN j ELSE j - m
<1>4. \A j \in 1 .. n + m : own(j) => from(j) \in 1 .. n /\ u[j] = s[from(j)]
  <2>. TAKE j \in 1 .. n + m
  <2>1. CASE j <= i
    BY <1>3, <2>1
  <2>2. CASE j > i + m
    <3>1. PICK k \in i + 1 .. n : k = j - m
      BY <1>3, <2>2
    <3>2. k + m = j /\ from(j) = k /\ k \in 1 .. n
      BY <1>3, <2>2, <3>1
    <3>3. u[k + m] = s[k]
      BY <1>3
    <3>. QED  BY <3>2, <3>3
  <2>. QED  BY <2>1, <2>2
<1>5. \A j \in 1 .. n + m : ~ own(j) => j - i \in 1 .. m /\ u[j] = t[j - i]
  <2>. TAKE j \in 1 .. n + m
  <2>1. ASSUME ~ own(j) PROVE j - i \in 1 .. m /\ u[j] = t[j - i]
    <3>1. PICK k \in 1 .. m : k = j - i
      BY <1>3, <2>1
    <3>2. i + k = j
      BY <1>3, <3>1
    <3>3. u[i + k] = t[k]
      BY <1>3
    <3>. QED  BY <3>1, <3>2, <3>3
  <2>. QED  BY <2>1
<1>6. \A j, k \in 1 .. n + m : own(j) /\ own(k) /\ from(j) = from(k) => j = k
  BY <1>3
<1>7. \A j, k \in 1 .. n + m : j - i = k - i => j = k
  BY <1>3
<1> HIDE DEF from, own
<1>8. Once(u)
  <2>. SUFFICES ASSUME NEW j \in 1 .. n + m, NEW k \in 1 .. n + m, u[j] = u[k]
                PROVE  j = k
    BY <1>3 DEF Once
  <2>1. \A q \in 1 .. n + m : IF own(q) THEN In(s, u[q]) ELSE In(t, u[q])
    BY <1>3, <1>4, <1>5 DEF In
  <2>2. own(j) <=> own(k)
    BY <2>1
  <2>3. CASE own(j) /\ own(k)
    <3>1. from(j) = from(k)
      BY <1>3, <1>4, <2>3 DEF Once
    <3>. QED  BY <1>6, <2>3, <3>1
  <2>4. CASE ~ own(j) /\ ~ own(k)
    <3>1. j - i = k - i
      BY <1>3, <1>5, <2>4 DEF Once
    <3>. QED  BY <1>7, <3>1
  <2>. QED  BY <2>2, <2>3, <2>4
<1>9. ASSUME NEW x, In(u, x) PROVE In(s, x) \/ In(t, x)
  <2>1. PICK j \in 1 .. n + m : u[j] = x
    BY <1>3, <1>9 DEF In
  <2>. QED  BY <1>3, <1>4, <1>5, <2>1 DEF In
<1>10. ASSUME NEW x, In(t, x) PROVE In(u, x)
  <2>1. PICK j \in 1 .. m : t[j] = x
    BY <1>3, <1>10 DEF In
  <2>2. i + j \in 1 .. n + m
    BY <1>3
  <2>. QED  BY <1>3, <2>1, <2>2 DEF In
<1>11. ASSUME NEW x, In(s, x) PROVE In(u, x)
  <2>1. PICK j \in 1 .. n : s[j] = x
    BY <1>3, <1>11 DEF In
  <2>2. CASE j <= i
    <3>1. j \in 1 .. i /\ j \in 1 .. n + m
      BY <1>3, <2>2
    <3>. QED  BY <1>3, <2>1, <3>1 DEF In
  <2>3. CASE j > i
    <3>1. j \in i + 1 .. n /\ j + m \in 1 .. n + m
      BY <1>3, <2>3
    <3>. QED  BY <1>3, <2>1, <3>1 DEF In
  <2>. QED  BY <1>3, <2>2, <2>3
<1>. QED  BY <1>8, <1>9, <1>10, <1>11

-----------------------------------------------------------------------------
(* Several lists, laid out in the same items.                              *)

\* Heads are no items, and no chain ends in an item.
Grounds(S, Hs, end) == Hs \cap S = {} /\ \A h \in Hs : end[h] \notin S

\* Each item is on one list at most, once. The heads in used are linked to
\* their lists; the others have none.
Layout(S, Hs, succ, used, lists, end) ==
  /\ lists \in [Hs -> Seq(S)] /\ used \subseteq Hs
  /\ \A h \in Hs : Once(lists[h])
  /\ \A g, h \in Hs, x \in S : In(lists[g], x) /\ In(lists[h], x) => g = h
  /\ \A h \in used : Chain(succ, h, end[h], lists[h])
  /\ \A h \in Hs \ used : lists[h] = <<>>

\* The heads and the items whose links say what the lists are.
Laid(lists, used, x) == x \in used \/ \E h \in DOMAIN lists : In(lists[h], x)

\* What is in a sequence of items of S is in S.
LEMMA InIsItem ==
  ASSUME NEW S, NEW s \in Seq(S), NEW x, In(s, x)
  PROVE  x \in S
BY ElementOfSeq DEF In

\* What is not linked anew: the links of the list of another head.
LEMMA OthersKept ==
  ASSUME NEW S, NEW Hs, NEW succ, NEW used, NEW lists, NEW end, Grounds(S, Hs, end),
         Layout(S, Hs, succ, used, lists, end),
         NEW h \in used, NEW g \in used, g # h, NEW new,
         \A x : Laid(lists, used, x) =>
                  \/ new[x] = succ[x]
                  \/ x \in S /\ ~ In(lists[g], x)
                  \/ x \in Hs \ {g}
  PROVE  Chain(new, g, end[g], lists[g])
<1>1. g \in Hs /\ lists[g] \in Seq(S) /\ DOMAIN lists = Hs /\ Chain(succ, g, end[g], lists[g])
  BY DEF Layout
<1>2. new[g] = succ[g]
  BY <1>1 DEF Laid, Grounds
<1>3. ASSUME NEW i \in 1 .. Len(lists[g]) PROVE new[lists[g][i]] = succ[lists[g][i]]
  <2>1. In(lists[g], lists[g][i]) /\ lists[g][i] \in S
    BY <1>1, ElementOfSeq DEF In
  <2>2. Laid(lists, used, lists[g][i])
    BY <1>1, <2>1 DEF Laid
  <2>. QED  BY <2>1, <2>2 DEF Grounds
<1>. QED  BY <1>1, <1>2, <1>3, ChainKept

\* A place before the end is the head or an item of its list.
LEMMA NthIs ==
  ASSUME NEW S, NEW s \in Seq(S), NEW h, NEW end, NEW i \in 0 .. Len(s)
  PROVE  Nth(s, h, end, i) = h \/ (Nth(s, h, end, i) \in S /\ In(s, Nth(s, h, end, i)))
<1>1. Len(s) \in Nat
  BY LenProperties
<1>2. ASSUME i # 0 PROVE Nth(s, h, end, i) \in S /\ In(s, Nth(s, h, end, i))
  <2>1. i \in 1 .. Len(s)
    BY <1>1, <1>2
  <2>. QED  BY <1>2, <2>1, ElementOfSeq DEF Nth, In
<1>3. ASSUME i = 0 PROVE Nth(s, h, end, i) = h
  BY <1>3 DEF Nth
<1>. QED  BY <1>2, <1>3

\* e is linked into place i of the list of h, and nothing else is linked anew.
Inserts(S, Hs, succ, used, lists, end, h, i, e, new, m) ==
  /\ Grounds(S, Hs, end) /\ Layout(S, Hs, succ, used, lists, end)
  /\ h \in used /\ e \in S /\ \A g \in Hs : ~ In(lists[g], e)
  /\ i \in 1 .. Len(lists[h]) + 1
  /\ new[e] = Nth(lists[h], h, end[h], i)
  /\ new[Nth(lists[h], h, end[h], i - 1)] = e
  /\ \A x : Laid(lists, used, x) =>
               new[x] = succ[x] \/ x = Nth(lists[h], h, end[h], i - 1)
  /\ m = [lists EXCEPT ![h] = InsertAt(lists[h], i, e)]

\* Then the lists are the old ones with e inserted.
LEMMA LayoutInserted ==
  ASSUME NEW S, NEW Hs, NEW succ, NEW used, NEW lists, NEW end, NEW h, NEW i, NEW e,
         NEW new, NEW m, Inserts(S, Hs, succ, used, lists, end, h, i, e, new, m)
  PROVE  /\ Layout(S, Hs, new, used, m, end)
         /\ \A g \in Hs : \A x : In(m[g], x) <=> (g = h /\ x = e) \/ In(lists[g], x)
<1> USE DEF Inserts
<1> DEFINE at(j) == Nth(lists[h], h, end[h], j)
<1>1. /\ h \in Hs /\ h \notin S /\ lists[h] \in Seq(S) /\ Once(lists[h]) /\ DOMAIN lists = Hs
      /\ lists \in [Hs -> Seq(S)] /\ Len(lists[h]) \in Nat
      /\ Chain(succ, h, end[h], lists[h])
  BY LenProperties DEF Layout, Grounds
<1>2. PICK t : t = InsertAt(lists[h], i, e)
  OBVIOUS
<1>3. t \in Seq(S) /\ Once(t) /\ \A x : In(t, x) <=> x = e \/ In(lists[h], x)
  <2>1. t \in Seq(S)
    BY <1>1, <1>2, InsertAtIs
  <2>2. ~ In(lists[h], e)
    BY <1>1
  <2>. QED  BY <1>1, <1>2, <2>1, <2>2, InsertedOnce
<1>4. m \in [Hs -> Seq(S)] /\ \A g \in Hs : m[g] = IF g = h THEN t ELSE lists[g]
  BY <1>1, <1>2, <1>3
<1>5. \A g \in Hs : \A x : In(m[g], x) <=> (g = h /\ x = e) \/ In(lists[g], x)
  BY <1>3, <1>4
<1>6. ASSUME NEW j \in 0 .. Len(lists[h])
      PROVE  at(j) = h \/ (at(j) \in S /\ In(lists[h], at(j)))
  BY <1>1, NthIs, Zenon
<1>7. i - 1 \in 0 .. Len(lists[h])
  BY <1>1
<1>8. Chain(new, h, end[h], t)
  <2>1. \A j \in 1 .. Len(lists[h]) : lists[h][j] # e
    BY <1>1 DEF In
  <2>2. ASSUME NEW j \in 0 .. Len(lists[h]), j # i - 1
        PROVE  new[at(j)] = succ[at(j)]
    <3>1. at(j) # at(i - 1)
      BY <1>1, <1>7, <2>2, NthOnce
    <3>2. Laid(lists, used, at(j))
      BY <1>1, <1>6 DEF Laid
    <3>. QED  BY <3>1, <3>2
  <2>. QED  BY <1>1, <1>2, <2>1, <2>2, ChainInserted
<1>9. ASSUME NEW g \in used, g # h PROVE Chain(new, g, end[g], lists[g])
  <2>1. at(i - 1) = h \/ (at(i - 1) \in S /\ ~ In(lists[g], at(i - 1)))
    <3>1. at(i - 1) = h \/ (at(i - 1) \in S /\ In(lists[h], at(i - 1)))
      BY <1>6, <1>7, Zenon
    <3>2. g \in Hs /\ \A x \in S : ~ (In(lists[g], x) /\ In(lists[h], x))
      BY <1>1, <1>9 DEF Layout
    <3>. QED  BY <3>1, <3>2, Zenon
  <2>2. h \in Hs \ {g}
    BY <1>1, <1>9
  <2>3. \A x : Laid(lists, used, x) =>
                  \/ new[x] = succ[x]
                  \/ x \in S /\ ~ In(lists[g], x)
                  \/ x \in Hs \ {g}
    BY <2>1, <2>2
  <2>. QED  BY <1>9, <2>3, OthersKept
<1> HIDE DEF at
<1>10. used \subseteq Hs /\ \A g \in used : Chain(new, g, end[g], m[g])
  BY <1>4, <1>8, <1>9 DEF Layout
<1>11. /\ \A g \in Hs : Once(m[g])
       /\ \A g, k \in Hs, x \in S : In(m[g], x) /\ In(m[k], x) => g = k
       /\ \A g \in Hs \ used : m[g] = <<>>
  BY <1>3, <1>4, <1>5 DEF Layout
<1>. QED  BY <1>4, <1>5, <1>10, <1>11 DEF Layout

\* The i-th item of the list of h is linked past; its own link may be anything.
Removes(S, Hs, succ, used, lists, end, h, i, new, m) ==
  /\ Grounds(S, Hs, end) /\ Layout(S, Hs, succ, used, lists, end)
  /\ h \in used /\ i \in 1 .. Len(lists[h])
  /\ new[Nth(lists[h], h, end[h], i - 1)] = Nth(lists[h], h, end[h], i + 1)
  /\ \A x : Laid(lists, used, x) =>
               new[x] = succ[x] \/ x = Nth(lists[h], h, end[h], i - 1) \/ x = lists[h][i]
  /\ m = [lists EXCEPT ![h] = RemoveAt(lists[h], i)]

\* Then the lists are the old ones without it.
LEMMA LayoutRemoved ==
  ASSUME NEW S, NEW Hs, NEW succ, NEW used, NEW lists, NEW end, NEW h, NEW i, NEW new,
         NEW m, Removes(S, Hs, succ, used, lists, end, h, i, new, m)
  PROVE  /\ Layout(S, Hs, new, used, m, end)
         /\ \A g \in Hs : \A x : In(m[g], x) <=> In(lists[g], x) /\ x # lists[h][i]
<1> USE DEF Removes
<1> DEFINE at(j) == Nth(lists[h], h, end[h], j)
<1>1. /\ h \in Hs /\ h \notin S /\ lists[h] \in Seq(S) /\ Once(lists[h]) /\ DOMAIN lists = Hs
      /\ lists \in [Hs -> Seq(S)] /\ Len(lists[h]) \in Nat
      /\ Chain(succ, h, end[h], lists[h])
  BY LenProperties DEF Layout, Grounds
<1>2. PICK t : t = RemoveAt(lists[h], i)
  OBVIOUS
<1>3. t \in Seq(S) /\ Once(t) /\ \A x : In(t, x) <=> In(lists[h], x) /\ x # lists[h][i]
  <2>1. t \in Seq(S)
    BY <1>1, <1>2, RemoveAtIs
  <2>. QED  BY <1>1, <1>2, <2>1, RemovedOnce
<1>4. m \in [Hs -> Seq(S)] /\ \A g \in Hs : m[g] = IF g = h THEN t ELSE lists[g]
  BY <1>1, <1>2, <1>3
<1>5. In(lists[h], lists[h][i]) /\ lists[h][i] \in S
  BY <1>1, ElementOfSeq DEF In
<1>6. \A g \in Hs : \A x : In(m[g], x) <=> In(lists[g], x) /\ x # lists[h][i]
  <2>. TAKE g \in Hs
  <2>. TAKE x
  <2>1. CASE g = h
    BY <1>3, <1>4, <2>1
  <2>2. CASE g # h
    <3>1. ~ In(lists[g], lists[h][i])
      BY <1>1, <1>5, <2>2 DEF Layout
    <3>. QED  BY <1>4, <2>2, <3>1
  <2>. QED  BY <2>1, <2>2
<1>7. ASSUME NEW j \in 0 .. Len(lists[h])
      PROVE  at(j) = h \/ (at(j) \in S /\ In(lists[h], at(j)))
  BY <1>1, NthIs, Zenon
<1>8. i - 1 \in 0 .. Len(lists[h]) /\ i \in 0 .. Len(lists[h]) /\ at(i) = lists[h][i]
  BY <1>1 DEF Nth
<1>9. Chain(new, h, end[h], t)
  <2>1. ASSUME NEW j \in 0 .. Len(lists[h]), j # i - 1, j # i
        PROVE  new[at(j)] = succ[at(j)]
    <3>1. at(j) # at(i - 1) /\ at(j) # at(i)
      BY <1>1, <1>8, <2>1, NthOnce
    <3>2. Laid(lists, used, at(j))
      BY <1>1, <1>7 DEF Laid
    <3>. QED  BY <1>8, <3>1, <3>2
  <2>. QED  BY <1>1, <1>2, <2>1, ChainRemoved
<1>10. ASSUME NEW g \in used, g # h PROVE Chain(new, g, end[g], lists[g])
  <2>1. /\ at(i - 1) = h \/ (at(i - 1) \in S /\ ~ In(lists[g], at(i - 1)))
        /\ ~ In(lists[g], lists[h][i])
    <3>1. at(i - 1) = h \/ (at(i - 1) \in S /\ In(lists[h], at(i - 1)))
      BY <1>7, <1>8, Zenon
    <3>2. g \in Hs /\ \A x \in S : ~ (In(lists[g], x) /\ In(lists[h], x))
      BY <1>1, <1>10 DEF Layout
    <3>. QED  BY <1>5, <3>1, <3>2, Zenon
  <2>2. h \in Hs \ {g}
    BY <1>1, <1>10
  <2>3. \A x : Laid(lists, used, x) =>
                  \/ new[x] = succ[x]
                  \/ x \in S /\ ~ In(lists[g], x)
                  \/ x \in Hs \ {g}
    BY <1>5, <2>1, <2>2
  <2>. QED  BY <1>10, <2>3, OthersKept
<1> HIDE DEF at
<1>11. used \subseteq Hs /\ \A g \in used : Chain(new, g, end[g], m[g])
  BY <1>4, <1>9, <1>10 DEF Layout
<1>12. /\ \A g \in Hs : Once(m[g])
       /\ \A g, k \in Hs, x \in S : In(m[g], x) /\ In(m[k], x) => g = k
       /\ \A g \in Hs \ used : m[g] = <<>>
  BY <1>3, <1>4, <1>6 DEF Layout
<1>. QED  BY <1>4, <1>6, <1>11, <1>12 DEF Layout

\* The list of g goes to h. The head g may be left as it is, or made empty.
Splices(S, Hs, succ, used, lists, end, g, h, i, new, still, m) ==
  /\ Grounds(S, Hs, end) /\ Layout(S, Hs, succ, used, lists, end)
  /\ g \in used /\ h \in used /\ g # h /\ lists[g] # <<>>
  /\ i \in 0 .. Len(lists[h])
  /\ new[Nth(lists[h], h, end[h], i)] = lists[g][1]
  /\ new[lists[g][Len(lists[g])]] = Nth(lists[h], h, end[h], i + 1)
  /\ \A x : Laid(lists, used \ {g}, x) =>
               \/ new[x] = succ[x]
               \/ x = Nth(lists[h], h, end[h], i)
               \/ x = lists[g][Len(lists[g])]
  /\ \/ still = used \ {g}
     \/ still = used /\ new[g] = end[g]
  /\ m = [lists EXCEPT ![g] = <<>>, ![h] = Joined(lists[h], i, lists[g])]

\* Then all of the list of g is in the list of h, behind place i.
LEMMA LayoutJoined ==
  ASSUME NEW S, NEW Hs, NEW succ, NEW used, NEW lists, NEW end, NEW g, NEW h, NEW i,
         NEW new, NEW still, NEW m,
         Splices(S, Hs, succ, used, lists, end, g, h, i, new, still, m)
  PROVE  /\ Layout(S, Hs, new, still, m, end)
         /\ \A k \in Hs : \A x : In(m[k], x) <=>
              k # g /\ (In(lists[k], x) \/ (k = h /\ In(lists[g], x)))
<1> USE DEF Splices
<1> DEFINE at(j) == Nth(lists[h], h, end[h], j)
<1>s. PICK s : s = lists[h]
  OBVIOUS
<1>t. PICK t : t = lists[g]
  OBVIOUS
<1>1. /\ g \in Hs /\ h \in Hs /\ g \notin S /\ h \notin S
      /\ DOMAIN lists = Hs /\ lists \in [Hs -> Seq(S)]
  BY DEF Layout, Grounds
<1>2. /\ s \in Seq(S) /\ t \in Seq(S) /\ Once(s) /\ Once(t)
      /\ Chain(succ, h, end[h], s) /\ Chain(succ, g, end[g], t)
  BY <1>1, <1>s, <1>t DEF Layout
<1>3. Len(s) \in Nat /\ Len(t) \in Nat /\ Len(t) > 0 /\ i \in Nat /\ i <= Len(s)
  BY <1>s, <1>t, <1>2, LenProperties, EmptySeq
<1>4. \A x : ~ (In(s, x) /\ In(t, x))
  <2>1. \A x \in S : ~ (In(s, x) /\ In(t, x))
    BY <1>1, <1>s, <1>t DEF Layout
  <2>. QED  BY <1>2, <2>1, InIsItem
<1>5. PICK u : u = Joined(s, i, t)
  OBVIOUS
<1>6. u \in Seq(S)
  BY <1>2, <1>3, <1>5, JoinedIs
<1>7. Once(u) /\ \A x : In(u, x) <=> In(s, x) \/ In(t, x)
  BY <1>2, <1>3, <1>4, <1>5, JoinedOnce
<1>8. /\ m \in [Hs -> Seq(S)]
      /\ \A k \in Hs : m[k] = IF k = h THEN u ELSE IF k = g THEN <<>> ELSE lists[k]
  BY <1>1, <1>5, <1>6, <1>s, <1>t, EmptySeq
<1>9. \A x : ~ In(<<>>, x)
  BY DEF In
<1>10. \A k \in Hs : \A x : In(m[k], x) <=>
          k # g /\ (In(lists[k], x) \/ (k = h /\ In(lists[g], x)))
  BY <1>1, <1>7, <1>8, <1>9, <1>s, <1>t
<1>11. ASSUME NEW j \in 0 .. Len(s)
       PROVE  at(j) = h \/ (at(j) \in S /\ In(s, at(j)))
  BY <1>2, <1>s, NthIs, Zenon
<1>12. ASSUME NEW j \in 1 .. Len(t) PROVE t[j] \in S /\ In(t, t[j]) /\ Laid(lists, used \ {g}, t[j])
  BY <1>1, <1>2, <1>t, ElementOfSeq DEF In, Laid
<1>13. Len(t) \in 1 .. Len(t)
  BY <1>3
<1>14. Chain(new, h, end[h], u)
  <2>1. ASSUME NEW j \in 0 .. Len(s), j # i PROVE new[at(j)] = succ[at(j)]
    <3>1. at(j) # at(i)
      BY <1>1, <1>2, <1>s, <2>1, NthOnce
    <3>2. Laid(lists, used \ {g}, at(j))
      BY <1>1, <1>11, <1>s DEF Laid
    <3>3. at(j) # t[Len(t)]
      BY <1>1, <1>4, <1>11, <1>12, <1>13
    <3>. QED  BY <1>t, <3>1, <3>2, <3>3
  <2>2. ASSUME NEW j \in 1 .. Len(t) - 1 PROVE new[t[j]] = succ[t[j]]
    <3>1. j \in 1 .. Len(t) /\ t[j] # t[Len(t)]
      BY <1>2, <1>3, <1>13 DEF Once
    <3>2. Laid(lists, used \ {g}, t[j]) /\ t[j] # at(i)
      BY <1>1, <1>4, <1>11, <1>12, <1>s, <3>1
    <3>. QED  BY <1>t, <3>1, <3>2
  <2>3. new[at(i)] = t[1] /\ new[t[Len(t)]] = at(i + 1)
    BY <1>t
  <2>4. \A j \in 0 .. Len(s) : j # i =>
           new[Nth(s, h, end[h], j)] = succ[Nth(s, h, end[h], j)]
    BY <1>s, <2>1
  <2>5. new[Nth(s, h, end[h], i)] = t[1] /\ new[t[Len(t)]] = Nth(s, h, end[h], i + 1)
    BY <1>s, <2>3
  <2>6. t # <<>> /\ i \in 0 .. Len(s) /\ h \notin S
    BY <1>1, <1>s, <1>t
  <2> HIDE DEF Splices, at
  <2>7. Chain(new, h, end[h], Joined(s, i, t))
    BY <1>2, <2>2, <2>4, <2>5, <2>6, ChainJoined
  <2>. QED  BY <1>5, <2>7
<1>15. ASSUME NEW k \in used, k # h, k # g PROVE Chain(new, k, end[k], lists[k])
  <2>1. k \in Hs /\ (\A x \in S : ~ (In(lists[k], x) /\ In(s, x)))
        /\ (\A x \in S : ~ (In(lists[k], x) /\ In(t, x)))
    BY <1>1, <1>15, <1>s, <1>t DEF Layout
  <2>2. at(i) = h \/ (at(i) \in S /\ ~ In(lists[k], at(i)))
    BY <1>11, <1>s, <2>1
  <2>3. t[Len(t)] \in S /\ ~ In(lists[k], t[Len(t)])
    BY <1>12, <1>13, <2>1
  <2>4. \A x : Laid(lists, used, x) =>
                  \/ new[x] = succ[x]
                  \/ x \in S /\ ~ In(lists[k], x)
                  \/ x \in Hs \ {k}
    <3>1. \A x : Laid(lists, used, x) => x = g \/ Laid(lists, used \ {g}, x)
      BY DEF Laid
    <3>. QED  BY <1>1, <1>15, <1>t, <2>2, <2>3, <3>1
  <2>. QED  BY <1>15, <2>4, OthersKept
<1>16. new[g] = end[g] => Chain(new, g, end[g], <<>>)
  BY DEF Chain, Nth
<1> HIDE DEF at
<1>17. \A k \in still : Chain(new, k, end[k], m[k])
  <2>1. used \subseteq Hs /\ still \subseteq Hs
    BY DEF Layout
  <2>2. \A k \in still : k = g => new[g] = end[g]
    OBVIOUS
  <2>. SUFFICES ASSUME NEW k \in still PROVE Chain(new, k, end[k], m[k])
    OBVIOUS
  <2>3. CASE k = h
    BY <1>1, <1>8, <1>14, <2>3
  <2>4. CASE k = g
    <3>1. m[k] = <<>>
      BY <1>1, <1>8, <2>4
    <3>. QED  BY <1>16, <2>2, <2>4, <3>1
  <2>5. CASE k # g /\ k # h
    <3>1. k \in used /\ m[k] = lists[k]
      BY <1>8, <2>1, <2>5
    <3>. QED  BY <1>15, <2>5, <3>1
  <2>. QED  BY <2>3, <2>4, <2>5
<1>18. ASSUME NEW k \in Hs PROVE Once(m[k])
  <2>1. CASE k = h
    BY <1>7, <1>8, <2>1
  <2>2. CASE k # h /\ k = g
    <3>1. m[k] = <<>>
      BY <1>8, <2>2
    <3>. QED  BY <3>1 DEF Once
  <2>3. CASE k # h /\ k # g
    <3>1. m[k] = lists[k]
      BY <1>8, <2>3
    <3>. QED  BY <3>1 DEF Layout
  <2>. QED  BY <2>1, <2>2, <2>3
<1>19. \A k, l \in Hs, x \in S : In(m[k], x) /\ In(m[l], x) => k = l
  <2>1. \A k, l \in Hs, x \in S : In(lists[k], x) /\ In(lists[l], x) => k = l
    BY DEF Layout
  <2>. QED  BY <1>1, <1>10, <2>1
<1>20. \A k \in Hs \ still : m[k] = <<>>
  BY <1>1, <1>8 DEF Layout
<1>21. still \subseteq Hs
  BY DEF Layout
<1>. QED  BY <1>8, <1>10, <1>17, <1>18, <1>19, <1>20, <1>21 DEF Layout

\* A head that has no list is made the head of an empty one.
LEMMA LayoutFresh ==
  ASSUME NEW S, NEW Hs, NEW succ, NEW used, NEW lists, NEW end, Grounds(S, Hs, end),
         Layout(S, Hs, succ, used, lists, end),
         NEW h \in Hs \ used, NEW new, new[h] = end[h],
         \A x : Laid(lists, used, x) => new[x] = succ[x]
  PROVE  Layout(S, Hs, new, used \cup {h}, lists, end)
<1>1. /\ lists \in [Hs -> Seq(S)] /\ used \subseteq Hs /\ DOMAIN lists = Hs
      /\ \A k \in Hs \ used : lists[k] = <<>>
  BY DEF Layout
<1>2. Chain(new, h, end[h], lists[h])
  BY <1>1 DEF Chain, Nth
<1>3. ASSUME NEW k \in used PROVE Chain(new, k, end[k], lists[k])
  <2>1. lists[k] \in Seq(S) /\ Chain(succ, k, end[k], lists[k])
    BY <1>1 DEF Layout
  <2>2. new[k] = succ[k] /\ \A j \in 1 .. Len(lists[k]) : new[lists[k][j]] = succ[lists[k][j]]
    BY <1>1 DEF Laid, In
  <2>. QED  BY <2>1, <2>2, ChainKept
<1>. QED  BY <1>1, <1>2, <1>3 DEF Layout

\* Links that are in no list may change.
LEMMA LayoutKept ==
  ASSUME NEW S, NEW Hs, NEW succ, NEW used, NEW lists, NEW end,
         Layout(S, Hs, succ, used, lists, end), NEW new,
         \A x : Laid(lists, used, x) => new[x] = succ[x]
  PROVE  Layout(S, Hs, new, used, lists, end)
<1>1. lists \in [Hs -> Seq(S)] /\ used \subseteq Hs /\ DOMAIN lists = Hs
  BY DEF Layout
<1>2. ASSUME NEW k \in used PROVE Chain(new, k, end[k], lists[k])
  <2>1. lists[k] \in Seq(S) /\ Chain(succ, k, end[k], lists[k])
    BY <1>1 DEF Layout
  <2>2. new[k] = succ[k] /\ \A j \in 1 .. Len(lists[k]) : new[lists[k][j]] = succ[lists[k][j]]
    BY <1>1 DEF Laid, In
  <2>. QED  BY <2>1, <2>2, ChainKept
<1>. QED  BY <1>1, <1>2 DEF Layout

\* The walk along the links of a head finds its list.
LEMMA LayoutWalk ==
  ASSUME NEW S, IsFiniteSet(S), NEW Hs, NEW succ, NEW used, NEW lists, NEW end,
         Grounds(S, Hs, end), Layout(S, Hs, succ, used, lists, end), NEW h \in used
  PROVE  Along(succ, S, succ[h]) = lists[h]
<1>1. /\ h \in Hs /\ lists[h] \in Seq(S) /\ Once(lists[h]) /\ end[h] \notin S
      /\ Chain(succ, h, end[h], lists[h])
  BY DEF Layout, Grounds
<1>. QED  BY <1>1, AlongChain

-----------------------------------------------------------------------------
(* Trails: the part of a chain that is still ahead.                        *)

\* From x through all of s to end, along succ.
Trail(succ, end, x, s) ==
  /\ x = Nth(s, end, end, 1)
  /\ \A i \in 1 .. Len(s) : succ[s[i]] = Nth(s, end, end, i + 1)

\* Behind the head of a chain is a trail.
LEMMA ChainTrail ==
  ASSUME NEW S, NEW s \in Seq(S), NEW h, NEW succ, Chain(succ, h, h, s)
  PROVE  Trail(succ, h, succ[h], s)
<1>1. Len(s) \in Nat
  BY LenProperties
<1>2. succ[h] = Nth(s, h, h, 1)
  <2>1. 0 \in 0 .. Len(s) /\ 0 + 1 = 1 /\ Nth(s, h, h, 0) = h
    BY <1>1 DEF Nth
  <2>. QED  BY <2>1 DEF Chain
<1>3. ASSUME NEW i \in 1 .. Len(s) PROVE succ[s[i]] = Nth(s, h, h, i + 1)
  <2>1. i \in 0 .. Len(s) /\ Nth(s, h, h, i) = s[i]
    BY <1>1 DEF Nth
  <2>. QED  BY <2>1 DEF Chain
<1>. QED  BY <1>2, <1>3 DEF Trail

\* The walk along the links finds a trail.
LEMMA TrailWalk ==
  ASSUME NEW S, IsFiniteSet(S), NEW s \in Seq(S), Once(s), NEW end, end \notin S,
         NEW succ, NEW x, Trail(succ, end, x, s)
  PROVE  Along(succ, S, x) = s
<1>1. Len(s) \in Nat /\ (s = <<>> <=> Len(s) = 0)
  BY LenProperties, EmptySeq
<1>2. Path(succ, S, x, s)
  <2>1. IF s = <<>> THEN x \notin S ELSE s[1] = x /\ succ[s[Len(s)]] \notin S
    <3>1. ASSUME s # <<>> PROVE s[1] = x
      BY <1>1, <3>1 DEF Trail, Nth
    <3>2. ASSUME s # <<>> PROVE succ[s[Len(s)]] \notin S
      BY <1>1, <3>2 DEF Trail, Nth
    <3>3. ASSUME s = <<>> PROVE x \notin S
      BY <1>1, <3>3 DEF Trail, Nth
    <3>. QED  BY <3>1, <3>2, <3>3
  <2>2. \A i \in 1 .. Len(s) - 1 : succ[s[i]] = s[i + 1]
    BY <1>1 DEF Trail, Nth
  <2>. QED  BY <2>1, <2>2 DEF Path
<1>. QED  BY <1>2, AlongPath

\* x is the first item of s, and t the rest: a trail behind x.
StepsTo(S, succ, end, x, s, t) ==
  /\ t \in Seq(S) /\ x \in S /\ In(s, x) /\ s = <<x>> \o t /\ Once(t) /\ ~ In(t, x)
  /\ \A y : In(t, y) => In(s, y)
  /\ Trail(succ, end, succ[x], t)

\* A trail is at its end, or has a first item and a trail behind that.
LEMMA TrailSteps ==
  ASSUME NEW S, NEW s \in Seq(S), Once(s), NEW end, NEW succ, NEW x, Trail(succ, end, x, s)
  PROVE  (s = <<>> /\ x = end) \/ \E t : StepsTo(S, succ, end, x, s, t)
<1>1. Len(s) \in Nat /\ (s = <<>> <=> Len(s) = 0)
  BY LenProperties, EmptySeq
<1>2. CASE s = <<>>
  BY <1>1, <1>2 DEF Trail, Nth
<1>3. CASE s # <<>>
  <2>1. Len(s) # 0 /\ x = s[1] /\ x \in S /\ In(s, x)
    BY <1>1, <1>3, ElementOfSeq DEF Trail, Nth, In
  <2>2. PICK t : t = Tail(s)
    OBVIOUS
  <2>3. t \in Seq(S) /\ Len(t) = Len(s) - 1 /\ s = <<x>> \o t
    BY <1>3, <2>1, <2>2, HeadTailProperties
  <2>4. \A i \in 1 .. Len(t) : t[i] = s[i + 1]
    BY <1>3, <2>2, HeadTailProperties
  <2>5. \A i \in 1 .. Len(t) : i + 1 \in 1 .. Len(s) /\ i + 1 # 1
    BY <1>1, <2>3
  <2>6. Once(t) /\ ~ In(t, x) /\ \A y : In(t, y) => In(s, y)
    <3>1. \A i \in 1 .. Len(t) : \E k \in 1 .. Len(s) : k = i + 1 /\ k # 1 /\ t[i] = s[k]
      BY <2>4, <2>5
    <3>2. \A y : In(t, y) => In(s, y)
      BY <3>1 DEF In
    <3>3. 1 \in 1 .. Len(s)
      BY <1>1, <2>1
    <3>4. ~ In(t, x)
      BY <2>1, <3>1, <3>3 DEF In, Once
    <3>5. ASSUME NEW i \in 1 .. Len(t), NEW j \in 1 .. Len(t), t[i] = t[j] PROVE i = j
      <4>1. PICK k \in 1 .. Len(s), l \in 1 .. Len(s) :
               k = i + 1 /\ l = j + 1 /\ t[i] = s[k] /\ t[j] = s[l]
        BY <3>1
      <4>2. k = l
        BY <3>5, <4>1 DEF Once
      <4>. QED  BY <1>1, <2>3, <4>1, <4>2
    <3>. QED  BY <3>2, <3>4, <3>5 DEF Once
  <2>7. succ[x] = Nth(t, end, end, 1)
    <3>1. succ[x] = Nth(s, end, end, 1 + 1)
      BY <1>1, <2>1 DEF Trail
    <3>. QED  BY <1>1, <2>1, <2>3, <2>4, <3>1 DEF Nth
  <2>8. ASSUME NEW i \in 1 .. Len(t) PROVE succ[t[i]] = Nth(t, end, end, i + 1)
    <3>1. PICK j \in 1 .. Len(s) : j = i + 1
      BY <2>5
    <3>2. succ[s[j]] = Nth(s, end, end, j + 1)
      BY DEF Trail
    <3>3. t[i] = s[j]
      BY <2>4, <3>1
    <3>. QED  BY <1>1, <2>1, <2>3, <2>4, <3>1, <3>2, <3>3 DEF Nth
  <2>9. Trail(succ, end, succ[x], t)
    BY <2>7, <2>8 DEF Trail
  <2>10. StepsTo(S, succ, end, x, s, t)
    BY <2>1, <2>3, <2>6, <2>9 DEF StepsTo
  <2>. QED  BY <2>10
<1>. QED  BY <1>2, <1>3

\* A trail stays when none of its links changes.
LEMMA TrailKept ==
  ASSUME NEW S, NEW s \in Seq(S), NEW end, NEW succ, NEW x, Trail(succ, end, x, s), NEW new,
         \A y : In(s, y) => new[y] = succ[y]
  PROVE  Trail(new, end, x, s)
BY DEF Trail, In

\* What a link on a trail leads to.
LEMMA TrailLeads ==
  ASSUME NEW S, NEW s \in Seq(S), NEW end, NEW succ, NEW x, Trail(succ, end, x, s),
         NEW y, In(s, y)
  PROVE  succ[y] = end \/ In(s, succ[y])
<1>1. PICK i \in 1 .. Len(s) : s[i] = y
  BY DEF In
<1>2. succ[y] = Nth(s, end, end, i + 1)
  BY <1>1 DEF Trail
<1>3. PICK j : j = i + 1
  OBVIOUS
<1>. QED  BY <1>2, <1>3 DEF Nth, In

\* The other way round: links that lead back make a chain of the same items.
LEMMA ChainBack ==
  ASSUME NEW S, NEW s \in Seq(S), Once(s), NEW h, NEW succ, Chain(succ, h, h, s),
         NEW back, \A x : x = h \/ In(s, x) => back[succ[x]] = x
  PROVE  \E t \in Seq(S) :
           Once(t) /\ (\A x : In(t, x) <=> In(s, x)) /\ Chain(back, h, h, t)
<1> DEFINE n == Len(s)
           t == [i \in 1 .. n |-> s[n + 1 - i]]
<1>1. n \in Nat /\ \A i \in 1 .. n : n + 1 - i \in 1 .. n
  BY LenProperties
<1>2. t \in Seq(S)
  <2>1. \A i \in 1 .. n : s[n + 1 - i] \in S
    BY <1>1, ElementOfSeq
  <2>. QED  BY <1>1, <2>1, IsASeq
<1>3. Len(t) = n /\ \A i \in 1 .. n : t[i] = s[n + 1 - i]
  BY <1>1
<1> HIDE DEF t
<1>4. ASSUME NEW i \in 1 .. n, NEW j \in 1 .. n, t[i] = t[j] PROVE i = j
  <2>1. PICK k \in 1 .. n, l \in 1 .. n : k = n + 1 - i /\ l = n + 1 - j
    BY <1>1
  <2>2. s[k] = s[l]
    BY <1>3, <1>4, <2>1
  <2>3. k = l
    BY <2>2 DEF Once
  <2>. QED  BY <1>1, <2>1, <2>3
<1>5. ASSUME NEW x PROVE In(t, x) <=> In(s, x)
  <2>1. ASSUME In(t, x) PROVE In(s, x)
    BY <1>1, <1>3, <2>1 DEF In
  <2>2. ASSUME In(s, x) PROVE In(t, x)
    <3>1. PICK i \in 1 .. n : s[i] = x
      BY <2>2 DEF In
    <3>2. PICK j \in 1 .. n : j = n + 1 - i
      BY <1>1
    <3>3. t[j] = x
      BY <1>1, <1>3, <3>1, <3>2
    <3>. QED  BY <1>3, <3>3 DEF In
  <2>. QED  BY <2>1, <2>2
<1>6. ASSUME NEW i \in 0 .. n PROVE back[Nth(t, h, h, i)] = Nth(t, h, h, i + 1)
  <2>1. PICK j \in 0 .. n : j = n - i
    BY <1>1
  <2>2. succ[Nth(s, h, h, j)] = Nth(s, h, h, j + 1)
    BY DEF Chain
  <2>3. Nth(s, h, h, j) = h \/ In(s, Nth(s, h, h, j))
    BY <1>1 DEF Nth, In
  <2>4. back[Nth(s, h, h, j + 1)] = Nth(s, h, h, j)
    BY <2>2, <2>3
  <2>5. Nth(s, h, h, j + 1) = Nth(t, h, h, i)
    BY <1>1, <1>3, <2>1 DEF Nth
  <2>6. Nth(s, h, h, j) = Nth(t, h, h, i + 1)
    BY <1>1, <1>3, <2>1 DEF Nth
  <2>. QED  BY <2>4, <2>5, <2>6
<1>7. Chain(back, h, h, t)
  BY <1>3, <1>6 DEF Chain
<1>8. Once(t)
  BY <1>3, <1>4 DEF Once
<1>. QED  BY <1>2, <1>5, <1>7, <1>8

=============================================================================
