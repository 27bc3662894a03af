---------------------------- MODULE FileIO_proofs ----------------------------
(***************************************************************************)
(* The properties of FileIO for every page size, store size and data. Two  *)
(* inductive invariants, each with one lemma per step: IInv for calls that *)
(* stop only where it is safe (SmallStore and SafeUse), PlainInv for calls *)
(* that stop anywhere over data that reads as no offset (PlainData). Both  *)
(* put every call on the pages it should be on (Sound), and from that      *)
(* follow, for either (GoodUse), the books of the pages, the action        *)
(* properties and the refinement of PageAllocator.                         *)
(***************************************************************************)
EXTENDS FileIO, SequenceTheorems, TLAPS

\* A page's offset leads back to the page, and only the metadata page is at 0.
LEMMA OffsetOfPage ==
  ASSUME NEW p \in Nat
  PROVE  /\ index_to_offset(p) \in Nat
         /\ offset_to_index(index_to_offset(p)) = p
         /\ index_to_offset(p) = 0 <=> p = 0
<1> USE PageSizeAssumption DEF index_to_offset, offset_to_index
<1>1. index_to_offset(p) \in Nat
  BY SMT
<1>2. index_to_offset(p) = 0 <=> p = 0
  BY SMT
<1>3. (p * PAGESIZE) \div PAGESIZE = p
  BY SMT
<1>. QED  BY <1>1, <1>2, <1>3

\* Two pages are never at the same offset.
LEMMA OffsetInjective ==
  ASSUME NEW p \in Nat, NEW q \in Nat, index_to_offset(p) = index_to_offset(q)
  PROVE  p = q
BY OffsetOfPage

\* Every page number is a block of the file.
LEMMA PageInFile ==
  ASSUME NEW p \in 0 .. MaxSize
  PROVE  p \in Block
<1>1. MaxSize <= MaxSize * PAGESIZE
  BY PageSizeAssumption, MaxSizeAssumption, SMT
<1>. QED  BY <1>1, PageSizeAssumption, MaxSizeAssumption DEF Block

\* Blocks are numbered.
LEMMA BlockNumbers == Block \subseteq Nat
BY PageSizeAssumption, MaxSizeAssumption DEF Block

\* In a small store the stray blank of ReusePage lands behind every page.
LEMMA StrayBlock ==
  ASSUME SmallStore, NEW p \in 1 .. MaxSize
  PROVE  /\ index_to_offset(p) \in Block
         /\ index_to_offset(p) >= MaxSize
<1>1. PAGESIZE <= p * PAGESIZE /\ p * PAGESIZE <= MaxSize * PAGESIZE
  BY PageSizeAssumption, MaxSizeAssumption, SMT
<1>. QED  BY <1>1, PageSizeAssumption, MaxSizeAssumption DEF SmallStore, Block, index_to_offset

\* A place before the last has a place after it.
LEMMA BelowLast ==
  ASSUME NEW n \in Nat, NEW i \in 1 .. n - 1
  PROVE  i \in 1 .. n /\ i + 1 \in 1 .. n /\ i # n
OBVIOUS

\* A place is the last or comes before it.
LEMMA LastOrBelow ==
  ASSUME NEW n \in Nat, NEW i \in 1 .. n
  PROVE  i \in 1 .. n - 1 \/ i = n
OBVIOUS

\* The three words of a page.
LEMMA MetaWords ==
  ASSUME NEW x \in Int, NEW y \in Int, NEW z \in Int
  PROVE  /\ MetaPage(x, y, z) \in Page
         /\ SizeOf(MetaPage(x, y, z)) = x
         /\ HeadOf(MetaPage(x, y, z)) = y
         /\ TailOf(MetaPage(x, y, z)) = z
BY DEF Page, SizeOf, HeadOf, TailOf, MetaPage

\* The other pages, and the words they hold.
LEMMA PageWords ==
  /\ \A page \in Page :
       /\ SizeOf(page) \in Int /\ HeadOf(page) \in Int /\ TailOf(page) \in Int
       /\ LinkOf(page) \in Int
  /\ \A x \in Int : FreePage(x) \in Page /\ LinkOf(FreePage(x)) = x
  /\ \A x \in Int : DataPage(x) \in Page
  /\ BlankPage \in Page
BY DEF Page, SizeOf, HeadOf, TailOf, LinkOf, FreePage, DataPage, BlankPage

\* Metadata whose size has grown by one is a page.
LEMMA GrownWords ==
  ASSUME NEW meta \in Page
  PROVE  Grown(meta) \in Page
<1>1. /\ SizeOf(meta) + 1 \in Int
      /\ HeadOf(meta) \in Int /\ TailOf(meta) \in Int
  BY PageWords
<1>. QED  BY <1>1, MetaWords DEF Grown

\* The size in metadata that has grown.
LEMMA GrownSize ==
  ASSUME NEW meta \in Page
  PROVE  /\ SizeOf(Grown(meta)) = SizeOf(meta) + 1
         /\ HeadOf(Grown(meta)) = HeadOf(meta)
         /\ TailOf(Grown(meta)) = TailOf(meta)
<1>1. /\ SizeOf(meta) + 1 \in Int
      /\ HeadOf(meta) \in Int /\ TailOf(meta) \in Int
  BY PageWords
<1>. QED  BY <1>1, MetaWords DEF Grown

\* A list that is not empty has one page, or a second one.
LEMMA OneOrMore == \A n \in Nat \ {0} : n > 1 \/ n = 1
OBVIOUS

\* What both inductive invariants say of the pages, whatever the list is like.
Books == TypeOK /\ SizeInv /\ PagesAccounted

\* What they say of the state's parts, in the form the steps use.
LEMMA BooksFacts ==
  ASSUME Books
  PROVE  /\ disk \in [Block -> Page] /\ eof \in Nat
         /\ METADATA \in Block
         /\ disk[METADATA] \in Page
         /\ SizeOf(disk[METADATA]) \in 1 .. MaxSize
         /\ freeq \in Seq(1 .. MaxSize)
         /\ Len(freeq) \in Nat
         /\ DOMAIN freeq = 1 .. Len(freeq)
         /\ freeq = <<>> <=> Len(freeq) = 0
         /\ \A i \in 1 .. Len(freeq) :
              freeq[i] \in 1 .. MaxSize /\ freeq[i] < SizeOf(disk[METADATA])
         /\ \A p \in live \cup adrift :
              p \in 1 .. MaxSize /\ p < SizeOf(disk[METADATA])
         /\ MaxSize \in Nat
<1>1. TypeOK /\ SizeInv /\ PagesAccounted
  BY DEF Books
<1>2. METADATA \in Block
  BY PageInFile, MaxSizeAssumption DEF METADATA
<1>3. /\ Len(freeq) \in Nat
      /\ DOMAIN freeq = 1 .. Len(freeq)
      /\ freeq = <<>> <=> Len(freeq) = 0
  BY <1>1, LenProperties, EmptySeq DEF TypeOK
<1>4. \A i \in 1 .. Len(freeq) : freeq[i] \in Queued
  BY <1>3 DEF Queued
<1>5. SizeOf(disk[METADATA]) \in Int
  BY <1>1, <1>2, PageWords DEF TypeOK
<1>6. \A p \in live \cup Queued \cup adrift :
        p \in 1 .. MaxSize /\ p < SizeOf(disk[METADATA])
  BY <1>1, <1>5, MaxSizeAssumption DEF PagesAccounted, SizeInv
<1>. QED  BY <1>1, <1>2, <1>3, <1>4, <1>6, MaxSizeAssumption DEF TypeOK, SizeInv

\* The same, from the first of them.
LEMMA StateFacts ==
  ASSUME IInv
  PROVE  /\ disk \in [Block -> Page] /\ eof \in Nat
         /\ METADATA \in Block
         /\ disk[METADATA] \in Page
         /\ SizeOf(disk[METADATA]) \in 1 .. MaxSize
         /\ freeq \in Seq(1 .. MaxSize)
         /\ Len(freeq) \in Nat
         /\ DOMAIN freeq = 1 .. Len(freeq)
         /\ freeq = <<>> <=> Len(freeq) = 0
         /\ \A i \in 1 .. Len(freeq) :
              freeq[i] \in 1 .. MaxSize /\ freeq[i] < SizeOf(disk[METADATA])
         /\ \A p \in live \cup adrift :
              p \in 1 .. MaxSize /\ p < SizeOf(disk[METADATA])
         /\ MaxSize \in Nat
<1>1. Books
  BY DEF IInv, Books
<1>. QED  BY <1>1, BooksFacts

\* What a pwrite of one page does to the file.
LEMMA PwritePage ==
  ASSUME disk \in [Block -> Page], eof \in Nat,
         NEW p \in Block, NEW offset, IsAt(offset, p),
         NEW page \in Page, Pwrite(offset, page)
  PROVE  /\ disk' = [disk EXCEPT ![p] = page]
         /\ disk' \in [Block -> Page]
         /\ disk'[p] = page
         /\ \A b \in Block : b # p => disk'[b] = disk[b]
         /\ eof' \in Nat /\ eof' >= eof /\ eof' > p
         /\ eof' = eof \/ eof' = p + 1
<1>1. p \in Nat
  BY MaxSizeAssumption, PageSizeAssumption DEF Block
<1>2. offset_to_index(offset) = p
  BY <1>1, OffsetOfPage DEF IsAt
<1>. QED  BY <1>1, <1>2 DEF Pwrite

\* A pwrite to a page of the store is never refused.
LEMMA WritablePage ==
  ASSUME NEW p \in Block, NEW offset, IsAt(offset, p)
  PROVE  Writable(offset)
<1>1. p \in Nat
  BY MaxSizeAssumption, PageSizeAssumption DEF Block
<1>. QED  BY <1>1, OffsetOfPage DEF IsAt, Writable

\* A page of the store can be read.
LEMMA PageInStore ==
  ASSUME eof \in Nat, SizeInv,
         NEW p \in 1 .. MaxSize, p < SizeOf(disk[METADATA]), NEW offset, IsAt(offset, p)
  PROVE  offset_to_index(offset) = p /\ Readable(offset)
<1>1. SizeOf(disk[METADATA]) <= eof /\ SizeOf(disk[METADATA]) \in Int /\ p \in Nat
  BY MaxSizeAssumption DEF SizeInv
<1>2. p < eof
  BY <1>1
<1>. QED  BY <1>1, <1>2, OffsetOfPage DEF IsAt, Readable

-----------------------------------------------------------------------------
(* The inductive invariant. *)

\* The type of the call in progress.
Call == [at : Labels, index : Int, offset : Int, src : Data \cup {NULL}, meta : Page]

\* No call in progress is a call.
LEMMA IdleType == Idle \in Call /\ Idle.at = "idle"
BY PageWords DEF Idle, Call, Labels, ERR_SET

\* A new store: one page, no list.
LEMMA InitInvariant == Init => IInv
<1> SUFFICES ASSUME Init PROVE IInv
  OBVIOUS
<1>1. METADATA \in Block
  BY PageInFile, MaxSizeAssumption DEF METADATA
<1>2. /\ disk[METADATA] = MetaPage(1, EMPTY_LIST, EMPTY_LIST)
      /\ disk[METADATA] \in Page
      /\ SizeOf(disk[METADATA]) = 1
      /\ HeadOf(disk[METADATA]) = EMPTY_LIST
      /\ TailOf(disk[METADATA]) = EMPTY_LIST
  BY <1>1, MetaWords DEF Init, EMPTY_LIST
<1>3. disk \in [Block -> Page]
  BY <1>1, <1>2, PageWords DEF Init
<1>4. call = Idle /\ call.at = "idle"
  BY DEF Init, Idle
<1>5. TypeOK
  BY <1>3, <1>4, IdleType DEF TypeOK, Call, Init, Result, ERR_SET
<1>6. SizeInv
  BY <1>2, MaxSizeAssumption DEF SizeInv, Init
<1>7. PagesAccounted
  BY <1>2 DEF PagesAccounted, Queued, Init
<1>8. FreeListOnDisk
  BY <1>2 DEF FreeListOnDisk, EndsOfList, LinksOfList, EndLink, Init
<1>. QED
  BY <1>4, <1>5, <1>6, <1>7, <1>8
     DEF IInv, ReuseInv, ExtendInv, FirstInv, AppendInv

\* A call that ends without a write, where it is safe to end, and a call that
\* never writes.
LEMMA CallEnds ==
  ASSUME IInv, call' = Idle, UNCHANGED <<disk, eof, live, freeq, adrift>>,
         ret'.index \in Int, ~UnsafePoint
  PROVE  IInv'
<1>1. call'.at = "idle"
  BY IdleType
<1>2. TypeOK'
  <2>1. call' \in Call
    BY IdleType
  <2>. QED  BY <2>1 DEF IInv, TypeOK, Call
<1>3. SizeInv' /\ PagesAccounted'
  BY DEF IInv, SizeInv, PagesAccounted, Queued
<1>4. EndsOfList'
  BY DEF IInv, FreeListOnDisk, EndsOfList, IsAt
<1>5. LinksOfList'
  <2>1. \A i \in 1 .. Len(freeq) : freeq[i] \in Queued
    BY StateFacts DEF Queued
  <2>2. Len(freeq) \in Nat
    BY StateFacts
  <2>. QED  BY <2>1, <2>2 DEF IInv, FreeListOnDisk, LinksOfList, UnsafePoint
<1>6. EndLink'
  BY DEF IInv, FreeListOnDisk, EndLink, UnsafePoint, IsAt
<1>. QED
  BY <1>1, <1>2, <1>3, <1>4, <1>5, <1>6
     DEF IInv, FreeListOnDisk, ReuseInv, ExtendInv, FirstInv, AppendInv

\* Between calls the list is as it should be, with no call to excuse it.
LEMMA IdleList ==
  ASSUME IInv, call.at = "idle"
  PROVE  /\ freeq = <<>> =>
              /\ HeadOf(disk[METADATA]) = EMPTY_LIST
              /\ TailOf(disk[METADATA]) = EMPTY_LIST
         /\ freeq # <<>> =>
              /\ IsAt(HeadOf(disk[METADATA]), freeq[1])
              /\ IsAt(TailOf(disk[METADATA]), freeq[Len(freeq)])
              /\ Dangling(LinkOf(disk[freeq[Len(freeq)]]))
         /\ \A i \in 1 .. Len(freeq) - 1 : IsAt(LinkOf(disk[freeq[i]]), freeq[i + 1])
BY DEF IInv, FreeListOnDisk, EndsOfList, LinksOfList, EndLink, Dangling, IsAt

\* A call that starts writes nothing: the list is as it was.
LEMMA CallStarts ==
  ASSUME IInv, call.at = "idle", UNCHANGED <<disk, eof, freeq>>,
         adrift \subseteq adrift'
  PROVE  SizeInv' /\ FreeListOnDisk'
<1>1. SizeInv'
  BY DEF IInv, SizeInv
<1>2. EndsOfList'
  BY DEF IInv, FreeListOnDisk, EndsOfList, IsAt
<1>3. LinksOfList'
  BY IdleList DEF LinksOfList, IsAt
<1>4. EndLink'
  BY IdleList DEF EndLink, Dangling, IsAt
<1>. QED  BY <1>1, <1>2, <1>3, <1>4 DEF FreeListOnDisk

\* alloc_page takes the head of the list into its locals.
LEMMA AllocReuseStep ==
  ASSUME IInv, NEW src \in Sources, AllocReuse(src)
  PROVE  IInv'
<1> DEFINE offset == HeadOf(disk[METADATA])
           next == LinkOf(disk[offset_to_index(offset)])
           tail == IF offset = TailOf(disk[METADATA]) THEN next
                   ELSE TailOf(disk[METADATA])
<1>1. call.at = "idle" /\ offset # EMPTY_LIST
  BY DEF AllocReuse
<1>2. freeq # <<>> /\ IsAt(offset, freeq[1])
  BY <1>1, IdleList
<1>3. freeq[1] \in 1 .. MaxSize /\ Len(freeq) \in Nat \ {0}
  BY <1>2, StateFacts
<1>4. offset \in Int /\ offset_to_index(offset) = freeq[1]
  BY <1>2, <1>3, OffsetOfPage DEF IsAt
<1>5. next \in Int /\ next = LinkOf(disk[freeq[1]])
  <2>1. freeq[1] \in Block
    BY <1>3, PageInFile
  <2>2. disk[freeq[1]] \in Page
    BY <2>1, StateFacts
  <2>. QED  BY <1>4, <2>2, PageWords
<1>6. tail \in Int
  BY <1>5, StateFacts, PageWords
<1>7. call' = [at |-> "reuse_page", index |-> freeq[1], offset |-> offset,
               src |-> src, meta |-> MetaPage(SizeOf(disk[METADATA]), next, tail)]
  BY <1>4 DEF AllocReuse
<1>8. /\ call'.meta \in Page
      /\ SizeOf(call'.meta) = SizeOf(disk[METADATA])
      /\ HeadOf(call'.meta) = next
      /\ TailOf(call'.meta) = tail
  <2>1. SizeOf(disk[METADATA]) \in Int
    BY StateFacts, PageWords
  <2>2. call'.meta = MetaPage(SizeOf(disk[METADATA]), next, tail)
    BY <1>7
  <2> HIDE DEF next, tail
  <2>. QED  BY <1>5, <1>6, <2>1, <2>2, MetaWords
<1>9. UNCHANGED <<disk, eof, ret, live, freeq, adrift>>
  BY DEF AllocReuse
<1>10. TypeOK'
  <2>1. call' \in Call
    BY <1>3, <1>4, <1>7, <1>8, DataAssumption DEF Call, Labels
  <2>. QED  BY <1>9, <2>1 DEF IInv, TypeOK, Call
<1>11. SizeInv' /\ FreeListOnDisk'
  BY <1>1, <1>9, CallStarts
<1>12. PagesAccounted'
  BY <1>9 DEF IInv, PagesAccounted, Queued
<1>13. ReuseInv'
  <2>1. CASE Len(freeq) > 1
    <3>1. IsAt(next, freeq[2])
      BY <1>1, <1>5, <2>1, <1>3, IdleList
    <3>2. freeq[1] # freeq[Len(freeq)]
      BY <2>1, <1>3, StateFacts DEF IInv, PagesAccounted
    <3>3. offset # TailOf(disk[METADATA])
      BY <1>1, <1>2, <1>3, <3>2, IdleList, OffsetInjective, StateFacts DEF IsAt
    <3>. QED  BY <1>2, <1>7, <1>8, <1>9, <2>1, <3>1, <3>3 DEF ReuseInv, IsAt
  <2>2. CASE Len(freeq) = 1
    <3>1. offset = TailOf(disk[METADATA])
      BY <1>1, <1>2, <2>2, IdleList DEF IsAt
    <3>2. Dangling(next)
      BY <1>1, <1>2, <1>5, <2>2, IdleList
    <3>. QED  BY <1>2, <1>7, <1>8, <1>9, <2>2, <3>1, <3>2
              DEF ReuseInv, Dangling, IsAt
  <2>3. Len(freeq) > 1 \/ Len(freeq) = 1
    BY <1>3, OneOrMore
  <2>. QED  BY <2>1, <2>2, <2>3
<1>. QED
  BY <1>7, <1>10, <1>11, <1>12, <1>13 DEF IInv, ExtendInv, FirstInv, AppendInv

\* The write of ReusePage hits the page, or a block behind all pages.
LEMMA ReuseWrite ==
  ASSUME IInv, SmallStore, ReusePage
  PROVE  \E b \in Block :
           /\ (b = freeq[1] /\ call.src # NULL) \/ b >= MaxSize
           /\ disk' \in [Block -> Page]
           /\ \A c \in Block : c # b => disk'[c] = disk[c]
           /\ eof' \in Nat /\ eof' >= eof
<1>1. freeq # <<>> /\ IsAt(call.offset, freeq[1])
  BY DEF ReusePage, IInv, ReuseInv
<1>2. freeq[1] \in 1 .. MaxSize /\ freeq[1] \in Block
  BY <1>1, StateFacts, PageInFile
<1>3. disk \in [Block -> Page] /\ eof \in Nat
  BY StateFacts
<1>4. CASE call.src # NULL
  <2>1. DataPage(call.src) \in Page
    BY <1>4, PageWords, DataAssumption DEF IInv, TypeOK
  <2>2. Pwrite(call.offset, DataPage(call.src))
    BY <1>4 DEF ReusePage
  <2>. QED  BY <1>1, <1>2, <1>3, <1>4, <2>1, <2>2, PwritePage
<1>5. CASE call.src = NULL
  <2> DEFINE b == index_to_offset(freeq[1])
  <2>1. b \in Block /\ b >= MaxSize /\ IsAt(index_to_offset(call.offset), b)
    BY <1>1, <1>2, StrayBlock DEF IsAt
  <2>2. Pwrite(index_to_offset(call.offset), BlankPage)
    BY <1>5 DEF ReusePage
  <2> HIDE DEF b
  <2>3. /\ disk' \in [Block -> Page]
        /\ \A c \in Block : c # b => disk'[c] = disk[c]
        /\ eof' \in Nat /\ eof' >= eof
    BY <1>3, <2>1, <2>2, PwritePage, PageWords
  <2>. QED  BY <2>1, <2>3
<1>. QED  BY <1>4, <1>5

\* alloc_page writes the source over the page, or a blank one elsewhere.
LEMMA ReusePageStep ==
  ASSUME IInv, SmallStore, ReusePage
  PROVE  IInv'
<1> DEFINE last == freeq[Len(freeq)]
<1>1. PICK b \in Block :
        /\ (b = freeq[1] /\ call.src # NULL) \/ b >= MaxSize
        /\ disk' \in [Block -> Page]
        /\ \A c \in Block : c # b => disk'[c] = disk[c]
        /\ eof' \in Nat /\ eof' >= eof
  BY ReuseWrite
<1>2. /\ call.at = "reuse_page"
      /\ call' = [call EXCEPT !.at = "reuse_meta"]
      /\ UNCHANGED <<ret, live, freeq, adrift>>
  BY DEF ReusePage, Goto
<1>3. call \in Call
  BY DEF IInv, TypeOK, Call
<1>4. /\ call' \in Call /\ call'.at = "reuse_meta" /\ call'.index = call.index
      /\ call'.offset = call.offset /\ call'.src = call.src
      /\ call'.meta = call.meta
  BY <1>2, <1>3 DEF Call, Labels
<1>5. freeq # <<>> /\ Len(freeq) \in Nat \ {0}
  BY <1>2, StateFacts DEF IInv, ReuseInv
<1>6. \A p \in live \cup adrift : p \in Block /\ p # b /\ disk'[p] = disk[p]
  <2>1. freeq[1] \in Queued
    BY <1>5, StateFacts DEF Queued
  <2>2. ASSUME NEW p \in live \cup adrift
        PROVE  p \in 1 .. MaxSize /\ p < MaxSize /\ p # freeq[1]
    BY <2>1, StateFacts DEF IInv, PagesAccounted
  <2>. QED  BY <1>1, <2>2, PageInFile, BlockNumbers, MaxSizeAssumption
<1>7. \A i \in 1 .. Len(freeq) :
        freeq[i] \in Block /\ (i # 1 \/ call.src = NULL => disk'[freeq[i]] = disk[freeq[i]])
  <2>1. ASSUME NEW i \in 1 .. Len(freeq)
        PROVE  freeq[i] \in 1 .. MaxSize /\ freeq[i] < MaxSize
    BY StateFacts
  <2>2. ASSUME NEW i \in 1 .. Len(freeq), i # 1
        PROVE  freeq[i] # freeq[1]
    BY <1>5, <2>2, StateFacts DEF IInv, PagesAccounted
  <2>. QED  BY <1>1, <2>1, <2>2, PageInFile, BlockNumbers, MaxSizeAssumption
<1>8. disk'[METADATA] = disk[METADATA]
  <2>1. METADATA # b
    BY <1>1, <1>5, StateFacts, MaxSizeAssumption DEF METADATA
  <2>. QED  BY <1>1, <2>1, StateFacts
<1>9. TypeOK'
  BY <1>1, <1>2, <1>4 DEF IInv, TypeOK, Call
<1>10. SizeInv'
  BY <1>1, <1>8, StateFacts DEF IInv, SizeInv
<1>11. PagesAccounted'
  BY <1>2, <1>8 DEF IInv, PagesAccounted, Queued
<1>12. EndsOfList'
  BY <1>2, <1>8 DEF IInv, FreeListOnDisk, EndsOfList, IsAt
<1>13. LinksOfList'
  <2>1. \A i \in 1 .. Len(freeq) - 1 : LinkOf(disk[freeq[i]]) = index_to_offset(freeq[i + 1])
    BY <1>2 DEF IInv, FreeListOnDisk, LinksOfList
  <2>. QED  BY <1>2, <1>4, <1>5, <1>7, <2>1 DEF LinksOfList
<1>14. EndLink'
  <2>1. Dangling(LinkOf(disk[last]))
    BY <1>2, <1>5 DEF IInv, FreeListOnDisk, EndLink, Dangling
  <2>2. CASE Len(freeq) = 1 /\ call.src # NULL
    BY <1>2, <1>4, <2>2 DEF EndLink
  <2>3. CASE Len(freeq) # 1 \/ call.src = NULL
    <3>1. disk'[last] = disk[last]
      <4>1. Len(freeq) \in 1 .. Len(freeq)
        BY <1>5
      <4>. QED  BY <1>7, <2>3, <4>1
    <3>. QED  BY <1>2, <1>6, <2>1, <3>1 DEF EndLink, Dangling, IsAt
  <2>. QED  BY <2>2, <2>3
<1>15. ReuseInv'
  BY <1>2, <1>4, <1>6, <1>8 DEF IInv, ReuseInv, Dangling, IsAt
<1>. QED
  BY <1>4, <1>9, <1>10, <1>11, <1>12, <1>13, <1>14, <1>15
     DEF IInv, FreeListOnDisk, ExtendInv, FirstInv, AppendInv

\* A write of the metadata leaves every other page alone.
LEMMA MetaWrite ==
  ASSUME disk \in [Block -> Page], eof \in Nat,
         NEW meta \in Page, Pwrite(index_to_offset(METADATA), meta)
  PROVE  /\ disk' \in [Block -> Page]
         /\ disk'[METADATA] = meta
         /\ \A b \in Block : b # METADATA => disk'[b] = disk[b]
         /\ \A p \in 1 .. MaxSize : p \in Block /\ disk'[p] = disk[p]
         /\ eof' \in Nat /\ eof' >= eof
         /\ eof' = eof \/ eof' = 1
<1>1. IsAt(index_to_offset(METADATA), METADATA) /\ METADATA \in Block
  BY PageInFile, MaxSizeAssumption DEF IsAt, METADATA
<1>2. /\ disk' \in [Block -> Page]
      /\ disk'[METADATA] = meta
      /\ \A b \in Block : b # METADATA => disk'[b] = disk[b]
      /\ eof' \in Nat /\ eof' >= eof
      /\ eof' = eof \/ eof' = 1
  BY <1>1, PwritePage DEF METADATA
<1>3. ASSUME NEW p \in 1 .. MaxSize
      PROVE  p \in Block /\ p # METADATA
  BY PageInFile, MaxSizeAssumption DEF METADATA
<1>. QED  BY <1>2, <1>3

\* The pages behind the first free page, by which one the list goes on to.
LEMMA RestCases ==
  ASSUME IInv, call.at = "reuse_meta"
  PROVE  \/ Len(freeq) > 1 /\ RestOfQueue = Tail(freeq)
         \/ /\ Len(freeq) = 1
            /\ HeadOf(call.meta) = EMPTY_LIST /\ TailOf(call.meta) = EMPTY_LIST
            /\ RestOfQueue = <<>>
         \/ /\ Len(freeq) = 1
            /\ \E p \in adrift :
                 /\ IsAt(HeadOf(call.meta), p) /\ IsAt(TailOf(call.meta), p)
                 /\ LinkOf(disk[p]) = EMPTY_LIST
                 /\ RestOfQueue = <<p>>
<1>1. Len(freeq) \in Nat \ {0}
  BY StateFacts DEF IInv, ReuseInv
<1>2. CASE Len(freeq) > 1
  BY <1>2 DEF RestOfQueue
<1>3. CASE Len(freeq) = 1
  <2>1. HeadOf(call.meta) = TailOf(call.meta) /\ Dangling(HeadOf(call.meta))
    BY <1>3 DEF IInv, ReuseInv
  <2>2. CASE HeadOf(call.meta) = EMPTY_LIST
    <3>1. ~Readable(HeadOf(call.meta))
      BY <2>2 DEF Readable, EMPTY_LIST
    <3>. QED  BY <1>3, <2>1, <2>2, <3>1 DEF RestOfQueue
  <2>3. CASE HeadOf(call.meta) # EMPTY_LIST
    <3>1. PICK p \in adrift :
            IsAt(HeadOf(call.meta), p) /\ LinkOf(disk[p]) = EMPTY_LIST
      BY <2>1, <2>3 DEF Dangling
    <3>2. offset_to_index(HeadOf(call.meta)) = p /\ Readable(HeadOf(call.meta))
      BY <3>1, StateFacts, OffsetOfPage, PageInStore DEF IsAt, IInv
    <3>. QED  BY <1>3, <2>1, <3>1, <3>2 DEF RestOfQueue
  <2>. QED  BY <2>2, <2>3
<1>4. Len(freeq) > 1 \/ Len(freeq) = 1
  BY <1>1, OneOrMore
<1>. QED  BY <1>2, <1>3, <1>4

\* The books when the first free page is taken: the list goes on with the rest
\* of it, or ends, or goes on to a page adrift.
LEMMA ReusePlaces ==
  ASSUME Books, freeq # <<>>, live' = live \cup {freeq[1]},
         adrift' = adrift \ Queued',
         SizeOf(disk'[METADATA]) = SizeOf(disk[METADATA]),
         \/ Len(freeq) > 1 /\ freeq' = Tail(freeq)
         \/ Len(freeq) = 1 /\ freeq' = <<>>
         \/ Len(freeq) = 1 /\ \E p \in adrift : freeq' = <<p>>
  PROVE  /\ live' \in SUBSET (1 .. MaxSize) /\ freeq' \in Seq(1 .. MaxSize)
         /\ PagesAccounted'
         /\ Len(freeq) > 1 =>
              /\ Len(freeq') = Len(freeq) - 1 /\ Len(freeq') \in Nat \ {0}
              /\ \A i \in 1 .. Len(freeq') : freeq'[i] = freeq[i + 1]
              /\ adrift' = adrift
<1>1. /\ Len(freeq) \in Nat \ {0} /\ freeq \in Seq(1 .. MaxSize)
      /\ DOMAIN freeq = 1 .. Len(freeq) /\ 1 \in 1 .. Len(freeq)
  BY BooksFacts
<1>2. freeq[1] \in 1 .. MaxSize /\ freeq[1] \in Queued
  BY <1>1, BooksFacts DEF Queued
<1>3. live' \in SUBSET (1 .. MaxSize)
  BY <1>2 DEF Books, TypeOK
<1>4. CASE Len(freeq) > 1 /\ freeq' = Tail(freeq)
  <2>1. /\ freeq' \in Seq(1 .. MaxSize)
        /\ Len(freeq') = Len(freeq) - 1
        /\ \A i \in 1 .. Len(freeq') : freeq'[i] = freeq[i + 1]
    BY <1>1, <1>4, HeadTailProperties
  <2>2. DOMAIN freeq' = 1 .. Len(freeq) - 1 /\ Len(freeq') \in Nat \ {0}
    BY <1>1, <1>4, <2>1, LenProperties
  <2>3. Queued' = {freeq[i] : i \in 2 .. Len(freeq)}
    <3>1. ASSUME NEW i \in DOMAIN freeq'
          PROVE  i + 1 \in 2 .. Len(freeq) /\ freeq'[i] = freeq[i + 1]
      BY <1>1, <2>1, <2>2
    <3>2. ASSUME NEW i \in 2 .. Len(freeq)
          PROVE  i - 1 \in DOMAIN freeq' /\ freeq'[i - 1] = freeq[i]
      BY <1>1, <2>1, <2>2
    <3>. QED  BY <3>1, <3>2 DEF Queued
  <2>4. Queued' = Queued \ {freeq[1]}
    <3>1. \A i \in 2 .. Len(freeq) : freeq[i] # freeq[1]
      BY <1>1 DEF Books, PagesAccounted
    <3>2. Queued = {freeq[i] : i \in 2 .. Len(freeq)} \cup {freeq[1]}
      <4>1. \A i : i \in 1 .. Len(freeq) <=> i = 1 \/ i \in 2 .. Len(freeq)
        BY <1>1
      <4>. QED  BY <1>1, <4>1 DEF Queued
    <3>. QED  BY <2>3, <3>1, <3>2
  <2>5. adrift' = adrift
    BY <2>4 DEF Books, PagesAccounted
  <2>6. \A i, j \in DOMAIN freeq' : freeq'[i] = freeq'[j] => i = j
    <3> SUFFICES ASSUME NEW i \in DOMAIN freeq', NEW j \in DOMAIN freeq',
                        freeq'[i] = freeq'[j]
                 PROVE  i = j
      OBVIOUS
    <3>1. i \in 1 .. Len(freeq') /\ j \in 1 .. Len(freeq') /\ i \in Int /\ j \in Int
      BY <1>1, <2>1, <2>2
    <3>2. freeq[i + 1] = freeq[j + 1]
      BY <2>1, <3>1
    <3>3. i + 1 \in DOMAIN freeq /\ j + 1 \in DOMAIN freeq
      BY <1>1, <2>1, <3>1
    <3>4. i + 1 = j + 1
      BY <3>2, <3>3 DEF Books, PagesAccounted
    <3>. QED  BY <3>1, <3>4
  <2>7. PagesAccounted'
    BY <1>2, <2>4, <2>5, <2>6 DEF Books, PagesAccounted
  <2>. QED  BY <1>3, <2>1, <2>2, <2>5, <2>7
<1>5. CASE Len(freeq) = 1 /\ freeq' = <<>>
  <2>1. Queued = {freeq[1]} /\ Queued' = {} /\ adrift' = adrift
    BY <1>1, <1>5 DEF Queued
  <2>. QED  BY <1>3, <1>5, <2>1 DEF Books, PagesAccounted
<1>6. CASE Len(freeq) = 1 /\ \E p \in adrift : freeq' = <<p>>
  <2>1. PICK p \in adrift : freeq' = <<p>>
    BY <1>6
  <2>2. DOMAIN freeq' = {1} /\ freeq'[1] = p /\ p \in 1 .. MaxSize
    BY <2>1, BooksFacts
  <2>3. Queued = {freeq[1]} /\ Queued' = {p} /\ adrift' = adrift \ {p}
    BY <1>1, <1>6, <2>2 DEF Queued
  <2>4. PagesAccounted'
    BY <2>1, <2>2, <2>3 DEF Books, PagesAccounted
  <2>. QED  BY <1>3, <1>6, <2>1, <2>2, <2>4
<1>. QED  BY <1>4, <1>5, <1>6

\* alloc_page takes the page off the list.
LEMMA ReuseMetaStep ==
  ASSUME IInv, ReuseMeta
  PROVE  IInv'
<1>1. /\ call.at = "reuse_meta"
      /\ call' = Idle /\ call'.at = "idle"
      /\ ret'.index \in Int
      /\ freeq' = RestOfQueue
      /\ adrift' = adrift \ {RestOfQueue[i] : i \in DOMAIN RestOfQueue}
  BY IdleType DEF ReuseMeta, Result, IInv, TypeOK
<1>2. freeq # <<>> /\ live' = live \cup {freeq[1]}
  BY <1>1 DEF ReuseMeta, IInv, ReuseInv
<1>3. Len(freeq) \in Nat \ {0} /\ freeq \in Seq(1 .. MaxSize)
  BY <1>2, StateFacts
<1>4. /\ call.meta \in Page
      /\ SizeOf(call.meta) = SizeOf(disk[METADATA])
  BY <1>1 DEF IInv, TypeOK, ReuseInv
<1>5. /\ disk' \in [Block -> Page]
      /\ disk'[METADATA] = call.meta
      /\ \A p \in 1 .. MaxSize : disk'[p] = disk[p]
      /\ eof' \in Nat /\ eof' >= eof
  BY <1>4, StateFacts, MetaWrite DEF ReuseMeta
<1>6. SizeInv'
  BY <1>4, <1>5, StateFacts DEF IInv, SizeInv
<1>7. freeq[1] \in 1 .. MaxSize /\ freeq[1] \in Queued
  BY <1>3, StateFacts DEF Queued
<1>8. SUFFICES /\ freeq' \in Seq(1 .. MaxSize)
               /\ PagesAccounted' /\ FreeListOnDisk'
  <2>1. TypeOK'
    BY <1>1, <1>2, <1>5, <1>7, <1>8, IdleType DEF IInv, TypeOK, Call
  <2>. QED
    BY <1>1, <1>6, <1>8, <2>1 DEF IInv, ReuseInv, ExtendInv, FirstInv, AppendInv
<1>9. CASE Len(freeq) > 1 /\ RestOfQueue = Tail(freeq)
  <2>1. /\ freeq' \in Seq(1 .. MaxSize) /\ PagesAccounted'
        /\ Len(freeq') = Len(freeq) - 1
        /\ \A i \in 1 .. Len(freeq') : freeq'[i] = freeq[i + 1]
        /\ Len(freeq') \in Nat \ {0}
        /\ adrift' = adrift
    BY <1>1, <1>2, <1>4, <1>5, <1>9, ReusePlaces DEF IInv, Books, Queued
  <2>2. EndsOfList'
    <3>1. freeq'[1] = freeq[2] /\ freeq'[Len(freeq')] = freeq[Len(freeq)]
      BY <1>3, <2>1
    <3>2. IsAt(HeadOf(call.meta), freeq[2]) /\ TailOf(call.meta) = TailOf(disk[METADATA])
      BY <1>1, <1>9 DEF IInv, ReuseInv
    <3>3. IsAt(TailOf(disk[METADATA]), freeq[Len(freeq)])
      BY <1>2 DEF IInv, FreeListOnDisk, EndsOfList
    <3>4. freeq' # <<>>
      BY <2>1
    <3>. QED  BY <1>5, <3>1, <3>2, <3>3, <3>4 DEF EndsOfList, IsAt
  <2>3. LinksOfList'
    <3>1. ASSUME NEW i \in 1 .. Len(freeq') - 1
          PROVE  LinkOf(disk'[freeq'[i]]) = index_to_offset(freeq'[i + 1])
      <4>1. /\ i + 1 \in 1 .. Len(freeq) - 1 /\ i + 1 # 1
            /\ freeq'[i] = freeq[i + 1] /\ freeq'[i + 1] = freeq[(i + 1) + 1]
        BY <1>3, <2>1
      <4>2. LinkOf(disk[freeq[i + 1]]) = index_to_offset(freeq[(i + 1) + 1])
        BY <1>1, <4>1 DEF IInv, FreeListOnDisk, LinksOfList
      <4>3. freeq[i + 1] \in 1 .. MaxSize
        BY <1>3, <4>1, StateFacts
      <4>. QED  BY <1>5, <4>1, <4>2, <4>3
    <3>. QED  BY <3>1 DEF LinksOfList
  <2>4. EndLink'
    <3>1. freeq'[Len(freeq')] = freeq[Len(freeq)] /\ freeq[Len(freeq)] \in 1 .. MaxSize
      BY <1>3, <2>1, StateFacts
    <3>2. Dangling(LinkOf(disk[freeq[Len(freeq)]]))
      BY <1>1, <1>2, <1>9 DEF IInv, FreeListOnDisk, EndLink, Dangling
    <3>3. \A p \in adrift : disk'[p] = disk[p]
      BY <1>5, StateFacts
    <3>. QED  BY <1>5, <2>1, <3>1, <3>2, <3>3 DEF EndLink, Dangling, IsAt
  <2>. QED  BY <2>1, <2>2, <2>3, <2>4 DEF FreeListOnDisk
<1>10. CASE /\ Len(freeq) = 1
            /\ HeadOf(call.meta) = EMPTY_LIST /\ TailOf(call.meta) = EMPTY_LIST
            /\ RestOfQueue = <<>>
  <2>1. freeq' \in Seq(1 .. MaxSize) /\ PagesAccounted'
    BY <1>1, <1>2, <1>4, <1>5, <1>10, ReusePlaces DEF IInv, Books, Queued
  <2>2. freeq' = <<>> /\ Len(freeq') = 0
    BY <1>1, <1>10
  <2>3. FreeListOnDisk'
    BY <1>5, <1>10, <2>2 DEF FreeListOnDisk, EndsOfList, LinksOfList, EndLink
  <2>. QED  BY <2>1, <2>3
<1>11. CASE /\ Len(freeq) = 1
            /\ \E p \in adrift :
                 /\ IsAt(HeadOf(call.meta), p) /\ IsAt(TailOf(call.meta), p)
                 /\ LinkOf(disk[p]) = EMPTY_LIST
                 /\ RestOfQueue = <<p>>
  <2>1. PICK p \in adrift :
          /\ IsAt(HeadOf(call.meta), p) /\ IsAt(TailOf(call.meta), p)
          /\ LinkOf(disk[p]) = EMPTY_LIST
          /\ RestOfQueue = <<p>>
    BY <1>11
  <2>2. p \in 1 .. MaxSize
    BY StateFacts
  <2>3. /\ freeq' = <<p>> /\ Len(freeq') = 1 /\ freeq'[1] = p
        /\ DOMAIN freeq' = {1}
    BY <1>1, <2>1, <2>2
  <2>4. freeq' \in Seq(1 .. MaxSize) /\ PagesAccounted'
    BY <1>1, <1>2, <1>4, <1>5, <1>11, <2>3, ReusePlaces DEF IInv, Books, Queued
  <2>5. LinkOf(disk'[p]) = EMPTY_LIST
    BY <1>5, <2>1, <2>2
  <2>6. FreeListOnDisk'
    BY <1>5, <2>1, <2>3, <2>5 DEF FreeListOnDisk, EndsOfList, LinksOfList, EndLink, IsAt
  <2>. QED  BY <2>4, <2>6
<1>. QED  BY <1>1, <1>9, <1>10, <1>11, RestCases

\* alloc_page, with no free page, takes the number behind the last one.
LEMMA AllocExtendStep ==
  ASSUME IInv, NEW src \in Sources, AllocExtend(src)
  PROVE  IInv'
<1> DEFINE size == SizeOf(disk[METADATA])
<1>1. /\ call.at = "idle" /\ HeadOf(disk[METADATA]) = EMPTY_LIST /\ size < MaxSize
      /\ call' = [at |-> "extend_blank", index |-> size,
                  offset |-> index_to_offset(size), src |-> src,
                  meta |-> disk[METADATA]]
      /\ UNCHANGED <<disk, eof, ret, live, freeq, adrift>>
  BY DEF AllocExtend
<1>2. freeq = <<>>
  <2>1. freeq # <<>> => HeadOf(disk[METADATA]) \in Nat
    BY <1>1, IdleList, StateFacts, OffsetOfPage DEF IsAt
  <2>. QED  BY <1>1, <2>1 DEF EMPTY_LIST
<1>3. size \in 1 .. MaxSize /\ disk[METADATA] \in Page
  BY StateFacts
<1>4. index_to_offset(size) \in Int
  BY <1>3, OffsetOfPage
<1>5. TypeOK'
  <2>1. call' \in Call
    BY <1>1, <1>3, <1>4, DataAssumption DEF Call, Labels
  <2>. QED  BY <1>1, <2>1 DEF IInv, TypeOK, Call
<1>6. SizeInv' /\ FreeListOnDisk'
  BY <1>1, CallStarts
<1>7. PagesAccounted'
  BY <1>1 DEF IInv, PagesAccounted, Queued
<1>8. ExtendInv'
  BY <1>1, <1>2 DEF ExtendInv, IsAt
<1>. QED
  BY <1>1, <1>5, <1>6, <1>7, <1>8 DEF IInv, ReuseInv, FirstInv, AppendInv

\* The new page is behind all pages of the store, and the list is empty.
LEMMA NewPageWrite ==
  ASSUME IInv, call.at \in {"extend_blank", "extend_data"},
         NEW page \in Page, Pwrite(call.offset, page),
         UNCHANGED <<ret, live, freeq, adrift>>,
         \/ call.src # NULL /\ call' = [call EXCEPT !.at = "extend_data"]
         \/ call' = [call EXCEPT !.at = "extend_meta", !.meta = Grown(call.meta)]
  PROVE  IInv'
<1>1. /\ freeq = <<>>
      /\ call.index = SizeOf(disk[METADATA]) /\ call.index < MaxSize
      /\ IsAt(call.offset, call.index)
      /\ call.meta = disk[METADATA]
  BY DEF IInv, ExtendInv
<1>2. call.index \in 1 .. MaxSize /\ call.index \in Block /\ call.index # METADATA
  BY <1>1, StateFacts, PageInFile DEF METADATA
<1>3. /\ disk' \in [Block -> Page]
      /\ disk'[METADATA] = disk[METADATA]
      /\ eof' \in Nat /\ eof' >= eof /\ eof' > call.index
  BY <1>1, <1>2, StateFacts, PwritePage
<1>4. call \in Call /\ call.meta \in Page
  BY DEF IInv, TypeOK, Call
<1>5. Grown(call.meta) \in Page
  BY <1>4, GrownWords
<1>6. /\ call' \in Call /\ call'.index = call.index /\ call'.offset = call.offset
      /\ \/ call'.at = "extend_data" /\ call'.src # NULL /\ call'.meta = call.meta
         \/ call'.at = "extend_meta" /\ call'.meta = Grown(call.meta)
  BY <1>4, <1>5 DEF Call, Labels
<1>7. TypeOK'
  BY <1>3, <1>6 DEF IInv, TypeOK, Call
<1>8. SizeInv'
  BY <1>3, StateFacts DEF IInv, SizeInv
<1>9. PagesAccounted'
  BY <1>3 DEF IInv, PagesAccounted, Queued
<1>10. FreeListOnDisk'
  BY <1>1, <1>3 DEF IInv, FreeListOnDisk, EndsOfList, LinksOfList, EndLink
<1>11. ExtendInv'
  BY <1>1, <1>3, <1>6 DEF ExtendInv, IsAt
<1>. QED
  BY <1>6, <1>7, <1>8, <1>9, <1>10, <1>11 DEF IInv, ReuseInv, FirstInv, AppendInv

\* alloc_page writes the new page blank.
LEMMA ExtendBlankStep ==
  ASSUME IInv, ExtendBlank
  PROVE  IInv'
BY NewPageWrite, PageWords DEF ExtendBlank

\* alloc_page writes the source into the new page.
LEMMA ExtendDataStep ==
  ASSUME IInv, ExtendData
  PROVE  IInv'
<1>1. call.src # NULL
  BY DEF ExtendData, IInv, ExtendInv
<1>2. DataPage(call.src) \in Page
  BY <1>1, PageWords, DataAssumption DEF IInv, TypeOK
<1>. QED  BY <1>2, NewPageWrite DEF ExtendData

\* alloc_page writes the grown size.
LEMMA ExtendMetaStep ==
  ASSUME IInv, ExtendMeta
  PROVE  IInv'
<1> DEFINE size == SizeOf(disk[METADATA])
<1>1. /\ call.at = "extend_meta" /\ call' = Idle /\ call'.at = "idle"
      /\ ret'.index \in Int
      /\ live' = live \cup {call.index}
      /\ UNCHANGED <<freeq, adrift>>
  BY IdleType DEF ExtendMeta, Result, IInv, TypeOK
<1>2. /\ freeq = <<>> /\ call.index = size /\ call.index < MaxSize
      /\ call.meta = Grown(disk[METADATA]) /\ call.index < eof
  BY <1>1 DEF IInv, ExtendInv
<1>3. size \in 1 .. MaxSize /\ disk[METADATA] \in Page /\ call.meta \in Page
  BY StateFacts DEF IInv, TypeOK
<1>4. /\ SizeOf(call.meta) = size + 1
      /\ HeadOf(call.meta) = HeadOf(disk[METADATA])
      /\ TailOf(call.meta) = TailOf(disk[METADATA])
  <2>1. /\ size + 1 \in Int /\ HeadOf(disk[METADATA]) \in Int
        /\ TailOf(disk[METADATA]) \in Int
    BY <1>3, PageWords
  <2>. QED  BY <1>2, <2>1, MetaWords DEF Grown
<1>5. /\ disk' \in [Block -> Page] /\ disk'[METADATA] = call.meta
      /\ eof' \in Nat /\ eof' >= eof
  BY <1>3, StateFacts, MetaWrite DEF ExtendMeta
<1>6. TypeOK'
  BY <1>1, <1>2, <1>3, <1>5, IdleType DEF IInv, TypeOK, Call
<1>7. SizeInv'
  BY <1>2, <1>3, <1>4, <1>5, MaxSizeAssumption, StateFacts DEF SizeInv
<1>8. PagesAccounted'
  BY <1>1, <1>2, <1>3, <1>4, <1>5 DEF IInv, PagesAccounted, Queued
<1>9. FreeListOnDisk'
  BY <1>1, <1>2, <1>4, <1>5
     DEF IInv, FreeListOnDisk, EndsOfList, LinksOfList, EndLink
<1>. QED
  BY <1>1, <1>6, <1>7, <1>8, <1>9 DEF IInv, ReuseInv, ExtendInv, FirstInv, AppendInv

\* free_page reads the metadata; its page is adrift from here on.
LEMMA FreePageCallStep ==
  ASSUME IInv, SafeUse, NEW index \in FreeArgument, FreePageCall(index)
  PROVE  IInv'
<1> DEFINE meta == disk[METADATA]
           offset == index_to_offset(index)
           empty == TailOf(meta) = EMPTY_LIST /\ HeadOf(meta) = EMPTY_LIST
<1>1. /\ call.at = "idle"
      /\ call' = [at |-> IF empty THEN "first_page" ELSE "append_old",
                  index |-> index, offset |-> offset, src |-> NULL,
                  meta |-> IF empty THEN MetaPage(SizeOf(meta), offset, offset)
                                    ELSE meta]
      /\ live' = live \ {index}
      /\ adrift' = adrift \cup ({index} \ Queued)
      /\ UNCHANGED <<disk, eof, ret, freeq>>
  BY DEF FreePageCall
<1>2. index \in live \cup Queued
  BY ModeAssumption DEF SafeUse, FreeArgument
<1>3. index \in 1 .. MaxSize
  BY <1>2, StateFacts DEF Queued
<1>4. offset \in Nat
  BY <1>3, OffsetOfPage
<1>5. empty <=> freeq = <<>>
  <2>1. freeq # <<>> => HeadOf(meta) \in Nat
    BY <1>1, IdleList, StateFacts, OffsetOfPage DEF IsAt
  <2>. QED  BY <1>1, <2>1, IdleList DEF EMPTY_LIST
<1>6. meta \in Page /\ MetaPage(SizeOf(meta), offset, offset) \in Page
  BY <1>4, StateFacts, MetaWords
<1>7. TypeOK'
  <2>1. call' \in Call
    BY <1>1, <1>3, <1>4, <1>6 DEF Call, Labels
  <2>. QED  BY <1>1, <1>3, <2>1 DEF IInv, TypeOK, Call
<1>8. SizeInv' /\ FreeListOnDisk'
  BY <1>1, CallStarts
<1>9. PagesAccounted'
  BY <1>1, <1>2 DEF IInv, PagesAccounted, Queued
<1>10. FirstInv'
  <2>1. SUFFICES ASSUME empty PROVE FirstInv'
    BY <1>1 DEF FirstInv
  <2>2. freeq = <<>> /\ Queued = {}
    BY <1>5, <2>1, StateFacts DEF Queued
  <2>. QED  BY <1>1, <2>1, <2>2 DEF FirstInv, IsAt
<1>11. AppendInv'
  <2>1. SUFFICES ASSUME ~empty PROVE AppendInv'
    BY <1>1 DEF AppendInv
  <2>2. index \in adrift' \cup Queued' /\ freeq' # <<>>
    BY <1>1, <1>5, <2>1 DEF Queued
  <2>. QED  BY <1>1, <2>1, <2>2 DEF AppendInv, IsAt
<1>12. call'.at \in {"first_page", "append_old"}
  BY <1>1
<1>. QED
  BY <1>7, <1>8, <1>9, <1>10, <1>11, <1>12 DEF IInv, ReuseInv, ExtendInv

\* free_page writes the end of a list of one page.
LEMMA FirstPageStep ==
  ASSUME IInv, FirstPage
  PROVE  IInv'
<1>1. /\ call.at = "first_page"
      /\ call' = [call EXCEPT !.at = "first_meta"]
      /\ Pwrite(call.offset, FreePage(EMPTY_LIST))
      /\ UNCHANGED <<ret, live, freeq, adrift>>
  BY DEF FirstPage, Goto
<1>2. /\ freeq = <<>> /\ call.index \in adrift /\ IsAt(call.offset, call.index)
      /\ call.meta = MetaPage(SizeOf(disk[METADATA]), call.offset, call.offset)
  BY <1>1 DEF IInv, FirstInv
<1>3. call.index \in 1 .. MaxSize /\ call.index \in Block /\ call.index # METADATA
  BY <1>2, StateFacts, PageInFile DEF METADATA
<1>4. FreePage(EMPTY_LIST) \in Page /\ LinkOf(FreePage(EMPTY_LIST)) = EMPTY_LIST
  BY PageWords DEF EMPTY_LIST
<1>5. /\ disk' \in [Block -> Page]
      /\ LinkOf(disk'[call.index]) = EMPTY_LIST
      /\ disk'[METADATA] = disk[METADATA]
      /\ eof' \in Nat /\ eof' >= eof
  BY <1>1, <1>2, <1>3, <1>4, StateFacts, PwritePage
<1>6. /\ call' \in Call /\ call'.at = "first_meta" /\ call'.index = call.index
      /\ call'.offset = call.offset /\ call'.meta = call.meta
  BY <1>1 DEF IInv, TypeOK, Call, Labels
<1>7. TypeOK'
  BY <1>1, <1>5, <1>6 DEF IInv, TypeOK, Call
<1>8. SizeInv' /\ PagesAccounted'
  BY <1>1, <1>5, StateFacts DEF IInv, SizeInv, PagesAccounted, Queued
<1>9. FreeListOnDisk'
  BY <1>1, <1>2, <1>5 DEF IInv, FreeListOnDisk, EndsOfList, LinksOfList, EndLink
<1>10. FirstInv'
  BY <1>1, <1>2, <1>5, <1>6 DEF FirstInv, IsAt
<1>. QED
  BY <1>6, <1>7, <1>8, <1>9, <1>10 DEF IInv, ReuseInv, ExtendInv, AppendInv

\* free_page makes its page the whole list.
LEMMA FirstMetaStep ==
  ASSUME IInv, FirstMeta
  PROVE  IInv'
<1>1. /\ call.at = "first_meta" /\ call' = Idle /\ call'.at = "idle"
      /\ ret'.index \in Int
      /\ freeq' = <<call.index>>
      /\ adrift' = adrift \ {call.index}
      /\ UNCHANGED live
  BY IdleType DEF FirstMeta, Result, ERR_SET
<1>2. /\ freeq = <<>> /\ call.index \in adrift /\ IsAt(call.offset, call.index)
      /\ call.meta = MetaPage(SizeOf(disk[METADATA]), call.offset, call.offset)
      /\ LinkOf(disk[call.index]) = EMPTY_LIST
  BY <1>1 DEF IInv, FirstInv
<1>3. call.index \in 1 .. MaxSize
  BY <1>2, StateFacts
<1>4. /\ call.meta \in Page
      /\ SizeOf(call.meta) = SizeOf(disk[METADATA])
      /\ IsAt(HeadOf(call.meta), call.index)
      /\ IsAt(TailOf(call.meta), call.index)
  <2>1. SizeOf(disk[METADATA]) \in Int /\ call.offset \in Int
    BY StateFacts DEF IInv, TypeOK
  <2>. QED  BY <1>2, <2>1, MetaWords DEF IsAt
<1>5. /\ disk' \in [Block -> Page] /\ disk'[METADATA] = call.meta
      /\ disk'[call.index] = disk[call.index]
      /\ eof' \in Nat /\ eof' >= eof
  BY <1>3, <1>4, StateFacts, MetaWrite DEF FirstMeta
<1>6. /\ Len(freeq') = 1 /\ freeq'[1] = call.index /\ DOMAIN freeq' = {1}
      /\ freeq' \in Seq(1 .. MaxSize) /\ freeq' # <<>>
  BY <1>1, <1>3
<1>7. TypeOK'
  BY <1>1, <1>5, <1>6, IdleType DEF IInv, TypeOK, Call
<1>8. SizeInv'
  BY <1>4, <1>5, StateFacts DEF IInv, SizeInv
<1>9. PagesAccounted'
  <2>1. Queued = {} /\ Queued' = {call.index}
    BY <1>2, <1>6, StateFacts DEF Queued
  <2>. QED  BY <1>1, <1>2, <1>4, <1>5, <1>6, <2>1 DEF IInv, PagesAccounted
<1>10. FreeListOnDisk'
  BY <1>2, <1>4, <1>5, <1>6 DEF FreeListOnDisk, EndsOfList, LinksOfList, EndLink, IsAt
<1>. QED
  BY <1>1, <1>7, <1>8, <1>9, <1>10 DEF IInv, ReuseInv, ExtendInv, FirstInv, AppendInv

\* What free_page finds when it appends: the last free page, and its own.
LEMMA AppendFacts ==
  ASSUME IInv, call.at \in {"append_old", "append_page", "append_meta"}
  PROVE  /\ freeq # <<>> /\ Len(freeq) \in Nat \ {0}
         /\ call.index \in adrift \cup Queued
         /\ IsAt(call.offset, call.index)
         /\ call.index \in 1 .. MaxSize /\ call.index \in Block
         /\ call.index # METADATA
         /\ freeq[Len(freeq)] \in 1 .. MaxSize /\ freeq[Len(freeq)] \in Block
         /\ freeq[Len(freeq)] # METADATA
         /\ freeq[Len(freeq)] \in Queued
         /\ IsAt(TailOf(disk[METADATA]), freeq[Len(freeq)])
         /\ FreePage(EMPTY_LIST) \in Page /\ LinkOf(FreePage(EMPTY_LIST)) = EMPTY_LIST
         /\ \A i \in 1 .. Len(freeq) - 1 :
              /\ freeq[i] \in Block /\ freeq[i] # freeq[Len(freeq)]
              /\ \/ LinkOf(disk[freeq[i]]) = index_to_offset(freeq[i + 1])
                 \/ call.at = "append_meta" /\ call.index = freeq[i]
<1>1. freeq # <<>> /\ call.index \in adrift \cup Queued /\ IsAt(call.offset, call.index)
  BY DEF IInv, AppendInv
<1>2. Len(freeq) \in Nat \ {0} /\ DOMAIN freeq = 1 .. Len(freeq)
  BY <1>1, StateFacts
<1>3. Len(freeq) \in DOMAIN freeq
  BY <1>2
<1>4. freeq[Len(freeq)] \in 1 .. MaxSize /\ freeq[Len(freeq)] \in Queued
  BY <1>2, <1>3, StateFacts DEF Queued
<1>5. call.index \in 1 .. MaxSize
  BY <1>1, StateFacts DEF Queued
<1>6. \A p \in 1 .. MaxSize : p \in Block /\ p # METADATA
  BY PageInFile, MaxSizeAssumption DEF METADATA
<1>7. IsAt(TailOf(disk[METADATA]), freeq[Len(freeq)])
  BY <1>1 DEF IInv, FreeListOnDisk, EndsOfList
<1>8. ASSUME NEW i \in 1 .. Len(freeq) - 1
      PROVE  /\ freeq[i] \in Block /\ freeq[i] # freeq[Len(freeq)]
             /\ \/ LinkOf(disk[freeq[i]]) = index_to_offset(freeq[i + 1])
                \/ call.at = "append_meta" /\ call.index = freeq[i]
  <2>1. i \in DOMAIN freeq /\ i # Len(freeq)
    BY <1>2, BelowLast
  <2>2. freeq[i] # freeq[Len(freeq)]
    BY <1>3, <2>1 DEF IInv, PagesAccounted
  <2>3. freeq[i] \in Block
    BY <1>2, <1>6, <2>1, StateFacts
  <2>. QED  BY <2>2, <2>3 DEF IInv, FreeListOnDisk, LinksOfList
<1>9. FreePage(EMPTY_LIST) \in Page /\ LinkOf(FreePage(EMPTY_LIST)) = EMPTY_LIST
  BY PageWords DEF EMPTY_LIST
<1>. QED  BY <1>1, <1>2, <1>4, <1>5, <1>6, <1>7, <1>8, <1>9

\* free_page links the last free page to its own.
LEMMA AppendOldStep ==
  ASSUME IInv, AppendOld
  PROVE  IInv'
<1> DEFINE last == freeq[Len(freeq)]
<1>1. /\ call.at = "append_old"
      /\ call' = [call EXCEPT !.at = "append_page"]
      /\ Pwrite(TailOf(call.meta), FreePage(call.offset))
      /\ UNCHANGED <<ret, live, freeq, adrift>>
  BY DEF AppendOld, Goto
<1>2. call.meta = disk[METADATA]
  BY <1>1 DEF IInv, AppendInv
<1>3. FreePage(call.offset) \in Page /\ LinkOf(FreePage(call.offset)) = call.offset
  BY PageWords DEF IInv, TypeOK
<1>4. /\ disk' \in [Block -> Page]
      /\ LinkOf(disk'[last]) = call.offset
      /\ \A b \in Block : b # last => disk'[b] = disk[b]
      /\ eof' \in Nat /\ eof' >= eof
  BY <1>1, <1>2, <1>3, AppendFacts, StateFacts, PwritePage
<1>5. disk'[METADATA] = disk[METADATA]
  BY <1>1, <1>4, AppendFacts, StateFacts
<1>6. /\ call' \in Call /\ call'.at = "append_page" /\ call'.index = call.index
      /\ call'.offset = call.offset /\ call'.meta = call.meta
  BY <1>1 DEF IInv, TypeOK, Call, Labels
<1>7. TypeOK'
  BY <1>1, <1>4, <1>6 DEF IInv, TypeOK, Call
<1>8. SizeInv' /\ PagesAccounted'
  BY <1>1, <1>4, <1>5, StateFacts DEF IInv, SizeInv, PagesAccounted, Queued
<1>9. EndsOfList'
  BY <1>1, <1>5 DEF IInv, FreeListOnDisk, EndsOfList, IsAt
<1>10. LinksOfList'
  BY <1>1, <1>4, AppendFacts DEF LinksOfList
<1>11. EndLink'
  BY <1>1, <1>4, <1>6, AppendFacts DEF EndLink, IsAt, Queued
<1>12. AppendInv'
  BY <1>1, <1>2, <1>4, <1>5, <1>6, AppendFacts DEF AppendInv, IsAt, Queued
<1>. QED
  BY <1>6, <1>7, <1>8, <1>9, <1>10, <1>11, <1>12
     DEF IInv, FreeListOnDisk, ReuseInv, ExtendInv, FirstInv

\* free_page makes its page the end of the list.
LEMMA AppendPageStep ==
  ASSUME IInv, AppendPage
  PROVE  IInv'
<1> DEFINE last == freeq[Len(freeq)]
           meta == MetaPage(SizeOf(call.meta), HeadOf(call.meta), call.offset)
<1>1. /\ call.at = "append_page"
      /\ call' = [call EXCEPT !.at = "append_meta", !.meta = meta]
      /\ Pwrite(call.offset, FreePage(EMPTY_LIST))
      /\ UNCHANGED <<ret, live, freeq, adrift>>
  BY DEF AppendPage
<1>2. call.meta = disk[METADATA] /\ LinkOf(disk[last]) = call.offset
  BY <1>1 DEF IInv, AppendInv
<1>3. meta \in Page
  <2>1. /\ SizeOf(call.meta) \in Int /\ HeadOf(call.meta) \in Int
        /\ call.offset \in Int
    BY PageWords DEF IInv, TypeOK
  <2>. QED  BY <2>1, MetaWords
<1>4. /\ disk' \in [Block -> Page]
      /\ LinkOf(disk'[call.index]) = EMPTY_LIST
      /\ \A b \in Block : b # call.index => disk'[b] = disk[b]
      /\ eof' \in Nat /\ eof' >= eof
  BY <1>1, AppendFacts, StateFacts, PwritePage
<1>5. disk'[METADATA] = disk[METADATA]
  BY <1>1, <1>4, AppendFacts, StateFacts
<1>6. /\ call' \in Call /\ call'.at = "append_meta" /\ call'.index = call.index
      /\ call'.offset = call.offset /\ call'.meta = meta
  <2> HIDE DEF meta
  <2>. QED  BY <1>1, <1>3 DEF IInv, TypeOK, Call, Labels
<1>7. TypeOK'
  BY <1>1, <1>4, <1>6 DEF IInv, TypeOK, Call
<1>8. SizeInv' /\ PagesAccounted'
  BY <1>1, <1>4, <1>5, StateFacts DEF IInv, SizeInv, PagesAccounted, Queued
<1>9. EndsOfList'
  BY <1>1, <1>5 DEF IInv, FreeListOnDisk, EndsOfList, IsAt
<1>10. LinksOfList'
  BY <1>1, <1>4, <1>6, AppendFacts DEF LinksOfList
<1>11. call.index \notin Queued => LinkOf(disk'[last]) = call.offset
  BY <1>1, <1>2, <1>4, AppendFacts
<1>12. EndLink'
  BY <1>1, <1>4, <1>6, <1>11, AppendFacts DEF EndLink, IsAt, Queued
<1>13. AppendInv'
  BY <1>1, <1>2, <1>4, <1>5, <1>6, <1>11, AppendFacts DEF AppendInv, IsAt, Queued
<1>. QED
  BY <1>6, <1>7, <1>8, <1>9, <1>10, <1>12, <1>13
     DEF IInv, FreeListOnDisk, ReuseInv, ExtendInv, FirstInv

\* AppendMeta ends the call with the page as the last of a queue whose earlier
\* pages are those of the queue before it.
LEMMA AppendMetaEnds ==
  ASSUME IInv, AppendMeta,
         NEW n \in Nat \ {0},
         freeq' \in Seq(1 .. MaxSize), Len(freeq') = n, freeq'[n] = call.index,
         \A i \in 1 .. n - 1 : i \in 1 .. Len(freeq) /\ freeq'[i] = freeq[i],
         n > 1 => freeq'[1] = freeq[1],
         n = 1 => IsAt(HeadOf(disk[METADATA]), call.index),
         \A i \in 1 .. n - 1 : LinkOf(disk[freeq'[i]]) = index_to_offset(freeq'[i + 1]),
         adrift' \in SUBSET (1 .. MaxSize),
         PagesAccounted'
  PROVE  IInv'
<1>1. /\ call.at = "append_meta" /\ call' = Idle /\ call'.at = "idle"
      /\ ret'.index \in Int
      /\ UNCHANGED live
  BY IdleType DEF AppendMeta, Result, ERR_SET
<1>2. /\ call.meta = MetaPage(SizeOf(disk[METADATA]), HeadOf(disk[METADATA]), call.offset)
      /\ LinkOf(disk[call.index]) = EMPTY_LIST
  BY <1>1 DEF IInv, AppendInv
<1>3. /\ call.meta \in Page
      /\ SizeOf(call.meta) = SizeOf(disk[METADATA])
      /\ HeadOf(call.meta) = HeadOf(disk[METADATA])
      /\ TailOf(call.meta) = call.offset
  <2>1. /\ SizeOf(disk[METADATA]) \in Int /\ HeadOf(disk[METADATA]) \in Int
        /\ call.offset \in Int
    BY StateFacts, PageWords DEF IInv, TypeOK
  <2>. QED  BY <1>2, <2>1, MetaWords
<1>4. /\ disk' \in [Block -> Page] /\ disk'[METADATA] = call.meta
      /\ \A p \in 1 .. MaxSize : disk'[p] = disk[p]
      /\ eof' \in Nat /\ eof' >= eof
  BY <1>3, StateFacts, MetaWrite DEF AppendMeta
<1>5. TypeOK'
  BY <1>1, <1>4, IdleType DEF IInv, TypeOK, Call
<1>6. SizeInv'
  BY <1>3, <1>4, StateFacts DEF IInv, SizeInv
<1>7. freeq' # <<>>
  OBVIOUS
<1>8. EndsOfList'
  <2>1. IsAt(call.offset, call.index)
    BY <1>1, AppendFacts
  <2>2. IsAt(HeadOf(disk[METADATA]), freeq'[1])
    <3>1. freeq # <<>> => IsAt(HeadOf(disk[METADATA]), freeq[1])
      BY DEF IInv, FreeListOnDisk, EndsOfList
    <3>. QED  BY <1>1, <3>1, AppendFacts, OneOrMore
  <2>. QED  BY <1>3, <1>4, <1>7, <2>1, <2>2 DEF EndsOfList, IsAt
<1>9. LinksOfList'
  <2>1. \A i \in 1 .. n - 1 : freeq'[i] \in 1 .. MaxSize
    BY StateFacts
  <2>. QED  BY <1>4, <2>1 DEF LinksOfList
<1>10. EndLink'
  BY <1>1, <1>2, <1>4, AppendFacts DEF EndLink
<1>. QED
  BY <1>1, <1>5, <1>6, <1>8, <1>9, <1>10
     DEF IInv, FreeListOnDisk, ReuseInv, ExtendInv, FirstInv, AppendInv

\* The metadata a call of free_page writes keeps the size of the store.
LEMMA AppendMetaSize ==
  ASSUME IInv, AppendMeta
  PROVE  SizeOf(disk'[METADATA]) = SizeOf(disk[METADATA])
<1>1. call.meta = MetaPage(SizeOf(disk[METADATA]), HeadOf(disk[METADATA]), call.offset)
  BY DEF AppendMeta, IInv, AppendInv
<1>2. call.meta \in Page /\ SizeOf(call.meta) = SizeOf(disk[METADATA])
  <2>1. /\ SizeOf(disk[METADATA]) \in Int /\ HeadOf(disk[METADATA]) \in Int
        /\ call.offset \in Int
    BY StateFacts, PageWords DEF IInv, TypeOK
  <2>. QED  BY <1>1, <2>1, MetaWords
<1>. QED  BY <1>2, StateFacts, MetaWrite DEF AppendMeta

\* The books when a page adrift becomes the last of the list.
LEMMA AppendPlaces ==
  ASSUME Books, NEW p \in adrift, freeq' = Append(freeq, p), adrift' = adrift \ {p},
         live' = live, SizeOf(disk'[METADATA]) = SizeOf(disk[METADATA])
  PROVE  /\ freeq' \in Seq(1 .. MaxSize) /\ Len(freeq') = Len(freeq) + 1
         /\ \A i \in 1 .. Len(freeq) : freeq'[i] = freeq[i] /\ freeq[i] # p
         /\ freeq'[Len(freeq) + 1] = p
         /\ PagesAccounted'
<1> DEFINE n == Len(freeq)
<1>1. /\ n \in Nat /\ freeq \in Seq(1 .. MaxSize) /\ DOMAIN freeq = 1 .. n
      /\ p \in 1 .. MaxSize
  BY BooksFacts
<1>2. /\ freeq' \in Seq(1 .. MaxSize) /\ Len(freeq') = n + 1
      /\ \A i \in 1 .. n : freeq'[i] = freeq[i]
      /\ freeq'[n + 1] = p
  BY <1>1, AppendProperties
<1>3. DOMAIN freeq' = 1 .. n + 1
  BY <1>2, LenProperties
<1>4. p \notin Queued
  BY DEF Books, PagesAccounted
<1>5. \A i \in 1 .. n : freeq[i] # p
  BY <1>1, <1>4 DEF Queued
<1>6. \A i : i \in 1 .. n + 1 <=> i \in 1 .. n \/ i = n + 1
  BY <1>1
<1>7. Queued' = Queued \cup {p}
  BY <1>1, <1>2, <1>3, <1>6 DEF Queued
<1>8. \A i, j \in 1 .. n + 1 : freeq'[i] = freeq'[j] => i = j
  BY <1>1, <1>2, <1>5, <1>6 DEF Books, PagesAccounted
<1>9. PagesAccounted'
  BY <1>3, <1>4, <1>7, <1>8 DEF Books, PagesAccounted
<1>. QED  BY <1>2, <1>5, <1>9

\* free_page moves the tail.
LEMMA AppendMetaStep ==
  ASSUME IInv, AppendMeta
  PROVE  IInv'
<1> DEFINE n == Len(freeq)
           index == call.index
<1>1. call.at = "append_meta" /\ UNCHANGED live
  BY DEF AppendMeta
<1>2. /\ freeq \in Seq(1 .. MaxSize) /\ n \in Nat \ {0} /\ DOMAIN freeq = 1 .. n
      /\ index \in 1 .. MaxSize
  BY <1>1, AppendFacts, StateFacts
<1>3. IsAt(HeadOf(disk[METADATA]), freeq[1])
  BY <1>1, AppendFacts DEF IInv, FreeListOnDisk, EndsOfList
<1>4. CASE index \notin Queued
  <2>1. freeq' = Append(freeq, index) /\ adrift' = adrift \ {index}
    BY <1>4 DEF AppendMeta
  <2>2. /\ freeq' \in Seq(1 .. MaxSize) /\ Len(freeq') = n + 1
        /\ \A i \in 1 .. n : freeq'[i] = freeq[i] /\ freeq[i] # index
        /\ freeq'[n + 1] = index
        /\ PagesAccounted'
    <3>1. index \in adrift
      BY <1>1, <1>4, AppendFacts
    <3>. QED  BY <1>1, <2>1, <3>1, AppendPlaces, AppendMetaSize DEF IInv, Books
  <2>3. ASSUME NEW i \in 1 .. n
        PROVE  LinkOf(disk[freeq'[i]]) = index_to_offset(freeq'[i + 1])
    <3>1. CASE i \in 1 .. n - 1
      <4>1. i \in 1 .. n /\ i + 1 \in 1 .. n
        BY <1>2, <3>1, BelowLast
      <4>. QED  BY <1>1, <2>2, <3>1, <4>1, AppendFacts
    <3>2. CASE i = n
      BY <1>1, <1>4, <2>2, <3>2, AppendFacts DEF IInv, AppendInv, IsAt
    <3>3. n \in Nat
      BY <1>2
    <3>. QED  BY <3>1, <3>2, <3>3, LastOrBelow
  <2>4. n + 1 \in Nat \ {0} /\ n + 1 # 1 /\ (n + 1) - 1 = n /\ 1 \in 1 .. n
    BY <1>2
  <2>5. adrift' \in SUBSET (1 .. MaxSize)
    BY <2>1 DEF IInv, TypeOK
  <2> HIDE DEF n
  <2>. QED  BY <1>1, <2>2, <2>3, <2>4, <2>5, AppendMetaEnds DEF n
<1>5. CASE index \in Queued
  <2>1. PICK k \in 1 .. n :
          /\ freeq[k] = index
          /\ freeq' = SubSeq(freeq, 1, k)
          /\ adrift' = adrift \cup {freeq[j] : j \in k + 1 .. n}
    BY <1>2, <1>5 DEF AppendMeta
  <2>2. k \in Nat \ {0} /\ \A i \in 1 .. k : i \in 1 .. n
    BY <1>2
  <2>3. /\ freeq' \in Seq(1 .. MaxSize) /\ Len(freeq') = k
        /\ \A i \in 1 .. k : freeq'[i] = freeq[i]
    <3>1. \A i \in 1 .. k : freeq[i] \in 1 .. MaxSize
      BY <2>2, StateFacts
    <3>. QED  BY <2>1, <2>2, <3>1, SubSeqProperties
  <2>4. DOMAIN freeq' = 1 .. k
    BY <2>3, LenProperties
  <2>5. \A i, j \in 1 .. n : freeq[i] = freeq[j] => i = j
    BY <1>2 DEF IInv, PagesAccounted
  <2>6. \A i : i \in 1 .. n <=> i \in 1 .. k \/ i \in k + 1 .. n
    BY <1>2, <2>2
  <2>7. Queued' = {freeq[i] : i \in 1 .. k}
    BY <2>3, <2>4 DEF Queued
  <2>8. Queued = Queued' \cup {freeq[j] : j \in k + 1 .. n}
    BY <1>2, <2>6, <2>7 DEF Queued
  <2>9. Queued' \cap {freeq[j] : j \in k + 1 .. n} = {}
    <3>1. ASSUME NEW i \in 1 .. k, NEW j \in k + 1 .. n
          PROVE  freeq[i] # freeq[j]
      <4>1. i # j /\ i \in 1 .. n /\ j \in 1 .. n
        BY <1>2, <2>2
      <4>. QED  BY <2>5, <4>1
    <3>. QED  BY <2>7, <3>1
  <2>10. PagesAccounted'
    <3>1. \A i, j \in DOMAIN freeq' : freeq'[i] = freeq'[j] => i = j
      BY <2>2, <2>3, <2>4, <2>5
    <3>. QED
      BY <1>1, <2>1, <2>8, <2>9, <3>1, AppendMetaSize DEF IInv, PagesAccounted
  <2>11. ASSUME NEW i \in 1 .. k - 1
         PROVE  /\ i \in 1 .. n /\ freeq'[i] = freeq[i]
                /\ LinkOf(disk[freeq'[i]]) = index_to_offset(freeq'[i + 1])
    <3>1. i \in 1 .. k /\ i + 1 \in 1 .. k /\ i \in 1 .. n - 1 /\ i # k
      BY <1>2, <2>2
    <3>2. freeq[i] # index
      BY <2>1, <2>2, <2>5, <3>1
    <3>. QED  BY <1>1, <2>2, <2>3, <3>1, <3>2, AppendFacts
  <2>12. freeq'[k] = index /\ freeq'[1] = freeq[1]
    BY <2>1, <2>2, <2>3
  <2>13. adrift' \in SUBSET (1 .. MaxSize)
    BY <2>1, <2>6, StateFacts DEF IInv, TypeOK
  <2>14. k = 1 => IsAt(HeadOf(disk[METADATA]), index)
    BY <1>3, <2>1
  <2>. QED  BY <2>2, <2>3, <2>10, <2>11, <2>12, <2>13, <2>14, AppendMetaEnds
<1>. QED  BY <1>4, <1>5

\* put_page writes a page the client owns, which is on no list.
LEMMA PutPageStep ==
  ASSUME IInv, NEW index \in live, NEW word \in Data, PutPage(index, word)
  PROVE  IInv'
<1>1. /\ call.at = "idle" /\ ret'.index \in Int
      /\ Pwrite(index_to_offset(index), DataPage(word))
      /\ UNCHANGED <<call, live, freeq, adrift>>
  BY DEF PutPage, Result, ERR_SET
<1>2. index \in 1 .. MaxSize /\ index \in Block /\ index # METADATA
  BY StateFacts, PageInFile DEF METADATA
<1>3. IsAt(index_to_offset(index), index) /\ DataPage(word) \in Page
  BY PageWords, DataAssumption DEF IsAt
<1>4. /\ disk' \in [Block -> Page]
      /\ \A b \in Block : b # index => disk'[b] = disk[b]
      /\ eof' \in Nat /\ eof' >= eof
  BY <1>1, <1>2, <1>3, StateFacts, PwritePage
<1>5. disk'[METADATA] = disk[METADATA]
  BY <1>2, <1>4, StateFacts
<1>6. \A p \in adrift \cup Queued : disk'[p] = disk[p]
  <2>1. \A p \in adrift \cup Queued : p \in Block
    BY StateFacts, PageInFile, MaxSizeAssumption DEF Queued
  <2>2. index \notin adrift \cup Queued
    BY DEF IInv, PagesAccounted
  <2>. QED  BY <1>4, <2>1, <2>2
<1>7. \A i \in 1 .. Len(freeq) : freeq[i] \in Queued
  BY StateFacts DEF Queued
<1>8. TypeOK'
  BY <1>1, <1>4 DEF IInv, TypeOK
<1>9. SizeInv' /\ PagesAccounted'
  BY <1>1, <1>4, <1>5, StateFacts DEF IInv, SizeInv, PagesAccounted, Queued
<1>10. EndsOfList'
  BY <1>1, <1>5 DEF IInv, FreeListOnDisk, EndsOfList, IsAt
<1>11. LinksOfList'
  <2>1. Len(freeq) \in Nat
    BY StateFacts
  <2>2. \A i \in 1 .. Len(freeq) - 1 : i \in 1 .. Len(freeq)
    BY <2>1, BelowLast
  <2>. QED  BY <1>1, <1>6, <1>7, <2>2, IdleList DEF LinksOfList, IsAt
<1>12. EndLink'
  <2>1. freeq # <<>> => Len(freeq) \in 1 .. Len(freeq)
    BY StateFacts
  <2>. QED  BY <1>1, <1>6, <1>7, <2>1, IdleList DEF EndLink, Dangling, IsAt
<1>. QED
  BY <1>1, <1>8, <1>9, <1>10, <1>11, <1>12
     DEF IInv, FreeListOnDisk, ReuseInv, ExtendInv, FirstInv, AppendInv

\* A call that writes nothing leaves everything in place.
LEMMA ReturnStep ==
  ASSUME IInv, NEW status, NEW index \in Int, Return(status, index)
  PROVE  IInv'
<1>1. call = Idle
  BY DEF IInv, Return
<1>2. ~UnsafePoint
  BY DEF Return, UnsafePoint
<1>. QED  BY <1>1, <1>2, CallEnds DEF Return, Result

\* The pending pwrite of a call is one the file can take: it fails only where
\* FaultMode lets it.
LEMMA TargetWritable ==
  ASSUME IInv, SmallStore, call.at # "idle"
  PROVE  Writable(Target)
<1>1. call.at \in Labels
  BY DEF IInv, TypeOK
<1>2. CASE call.at = "reuse_page"
  <2>1. IsAt(call.offset, freeq[1]) /\ freeq[1] \in 1 .. MaxSize
    BY <1>2, StateFacts DEF IInv, ReuseInv
  <2>2. CASE call.src # NULL
    BY <1>2, <2>1, <2>2, PageInFile, WritablePage DEF Target
  <2>3. CASE call.src = NULL
    <3>1. /\ call.offset \in Block
          /\ IsAt(index_to_offset(call.offset), call.offset)
      BY <2>1, StrayBlock DEF IsAt
    <3>. QED  BY <1>2, <2>3, <3>1, WritablePage DEF Target
  <2>. QED  BY <2>2, <2>3
<1>3. CASE call.at \in {"reuse_meta", "extend_meta", "first_meta", "append_meta"}
  <2>1. Target = index_to_offset(METADATA)
    BY <1>3 DEF Target
  <2>. QED  BY <2>1, StateFacts, WritablePage DEF IsAt
<1>4. CASE call.at = "append_old"
  <2>1. Target = TailOf(disk[METADATA])
    BY <1>4 DEF Target, IInv, AppendInv
  <2>. QED  BY <1>4, <2>1, AppendFacts, WritablePage
<1>5. CASE call.at \in {"extend_blank", "extend_data", "first_page", "append_page"}
  <2>1. Target = call.offset
    BY <1>5 DEF Target
  <2>2. IsAt(call.offset, call.index)
    BY <1>5 DEF IInv, ExtendInv, FirstInv, AppendInv
  <2>3. call.index \in Block
    <3>1. CASE call.at \in {"extend_blank", "extend_data"}
      BY <3>1, StateFacts, PageInFile DEF IInv, ExtendInv
    <3>2. CASE call.at = "first_page"
      BY <3>2, StateFacts, PageInFile DEF IInv, FirstInv
    <3>3. CASE call.at = "append_page"
      BY <3>3, AppendFacts
    <3>. QED  BY <1>5, <3>1, <3>2, <3>3
  <2>. QED  BY <2>1, <2>2, <2>3, WritablePage
<1>. QED  BY <1>1, <1>2, <1>3, <1>4, <1>5 DEF Labels

\* A pwrite that fails, a crash at a safe point, a read that fails.
LEMMA FaultStep ==
  ASSUME IInv, SmallStore, SafeUse, Fault
  PROVE  IInv'
<1>1. MayStop => ~UnsafePoint
  BY DEF MayStop, SafeUse
<1>2. CASE PwriteFails
  <2>1. MayStop
    BY <1>2, TargetWritable DEF PwriteFails
  <2>2. ret'.index \in Int
    BY <1>2 DEF PwriteFails, Result, IndexOnError, STATUS_ERR, ERR_SET
  <2>. QED  BY <1>1, <1>2, <2>1, <2>2, CallEnds DEF PwriteFails
<1>3. CASE Crash
  <2>1. ret'.index \in Int
    BY <1>3 DEF Crash, Result, ERR_SET
  <2>. QED  BY <1>1, <1>3, <2>1, CallEnds DEF Crash
<1>4. CASE IOFails
  <2>1. ERR_SET \in Int
    BY DEF ERR_SET
  <2>. QED  BY <1>4, <2>1, ReturnStep DEF IOFails
<1>. QED  BY <1>2, <1>3, <1>4 DEF Fault

\* Every step keeps the invariant.
LEMMA NextInvariant ==
  ASSUME IInv, SmallStore, SafeUse, [Next]_vars
  PROVE  IInv'
<1>0. ERR_SET \in Int
  BY DEF ERR_SET
<1>1. CASE Alloc
  BY <1>0, <1>1, AllocReuseStep, AllocExtendStep, ReturnStep, ReusePageStep,
     ReuseMetaStep, ExtendBlankStep, ExtendDataStep, ExtendMetaStep
     DEF Alloc, AllocBadLink
<1>2. CASE Free
  BY <1>2, FreePageCallStep, FirstPageStep, FirstMetaStep, AppendOldStep,
     AppendPageStep, AppendMetaStep DEF Free
<1>3. CASE Access
  BY <1>0, <1>3, ReturnStep, PutPageStep DEF Access, GetPage, Refuse
<1>4. CASE Fault
  BY <1>4, FaultStep
<1>5. CASE UNCHANGED vars
  <2>1. UNCHANGED <<disk, eof, call, ret, live, freeq, adrift>>
    BY <1>5 DEF vars
  <2>2. TypeOK' /\ SizeInv' /\ PagesAccounted'
    BY <2>1 DEF IInv, TypeOK, SizeInv, PagesAccounted, Queued
  <2>3. FreeListOnDisk'
    BY <2>1 DEF IInv, FreeListOnDisk, EndsOfList, LinksOfList, EndLink, IsAt, Queued
  <2>4. ReuseInv' /\ ExtendInv'
    BY <2>1 DEF IInv, ReuseInv, Dangling, ExtendInv, IsAt, Queued
  <2>5. FirstInv' /\ AppendInv' /\ (call.at = "idle" => call = Idle)'
    BY <2>1 DEF IInv, FirstInv, AppendInv, IsAt, Queued
  <2>. QED  BY <2>2, <2>3, <2>4, <2>5 DEF IInv
<1>. QED  BY <1>1, <1>2, <1>3, <1>4, <1>5 DEF Next

-----------------------------------------------------------------------------
(* The theorems. *)

\* The inductive invariant holds: in a store of at most PAGESIZE pages, whose
\* calls stop only where it is safe, of clients that free pages they own or
\* pages that are free.
THEOREM Invariant == ASSUME SmallStore, SafeUse PROVE Spec => []IInv
<1>1. Init => IInv
  BY InitInvariant
<1>2. IInv /\ [Next]_vars => IInv'
  BY NextInvariant
<1>. QED  BY <1>1, <1>2, PTL DEF Spec

\* The list of free pages in the file is the queue of freed pages: alloc_page
\* and free_page keep it through every interruption that is safe.
THEOREM FreeListCorrect == ASSUME SmallStore, SafeUse PROVE Spec => []FreeListOnDisk
<1>1. IInv => FreeListOnDisk
  BY DEF IInv
<1>. QED  BY <1>1, Invariant, PTL

-----------------------------------------------------------------------------
(* The inductive invariant of plain data: calls may stop anywhere.         *)

\* The facts on the state's parts, from this invariant.
LEMMA PlainFacts ==
  ASSUME PlainInv
  PROVE  /\ disk \in [Block -> Page] /\ eof \in Nat
         /\ METADATA \in Block
         /\ disk[METADATA] \in Page
         /\ SizeOf(disk[METADATA]) \in 1 .. MaxSize
         /\ freeq \in Seq(1 .. MaxSize)
         /\ Len(freeq) \in Nat
         /\ DOMAIN freeq = 1 .. Len(freeq)
         /\ freeq = <<>> <=> Len(freeq) = 0
         /\ \A i \in 1 .. Len(freeq) :
              freeq[i] \in 1 .. MaxSize /\ freeq[i] < SizeOf(disk[METADATA])
         /\ \A p \in live \cup adrift :
              p \in 1 .. MaxSize /\ p < SizeOf(disk[METADATA])
         /\ MaxSize \in Nat
<1>1. Books
  BY DEF PlainInv, Books
<1>. QED  BY <1>1, BooksFacts

\* Data names no place: it does not end a list, and no file has a block there.
LEMMA TextIsNoPlace ==
  ASSUME PlainData, eof - 1 \in Block, eof \in Nat, NEW x \in Int, Text(x)
  PROVE  /\ x # EMPTY_LIST /\ ~Writable(x) /\ ~Readable(x)
         /\ \A p \in Block : ~IsAt(x, p)
<1>1. x # EMPTY_LIST /\ ~Writable(x)
  BY DEF Text, PlainData
<1>2. ASSUME Readable(x) PROVE FALSE
  <2>1. offset_to_index(x) \in Nat /\ offset_to_index(x) <= eof - 1
    BY <1>2, PageSizeAssumption DEF Readable, offset_to_index
  <2>2. offset_to_index(x) \in Block
    BY <2>1, PageSizeAssumption, MaxSizeAssumption DEF Block
  <2>. QED  BY <1>1, <1>2, <2>2 DEF Readable, Writable
<1>. QED  BY <1>1, <1>2, WritablePage

\* A word of data is the first word of its page.
LEMMA TextPage ==
  ASSUME NEW word \in Data
  PROVE  /\ DataPage(word) \in Page /\ Text(LinkOf(DataPage(word)))
         /\ word \in Int /\ word # NULL
BY DataAssumption, PageWords DEF DataPage, LinkOf, Text

\* The source of a call is data: no client gives a null one.
LEMMA PlainSource ==
  ASSUME PlainData, NEW src \in Sources
  PROVE  src \in Data
BY DataAssumption DEF PlainData

\* A tail that can be written to is the last page of the list.
LEMMA PlainTail ==
  ASSUME PlainInv, PlainData, Writable(TailOf(disk[METADATA]))
  PROVE  freeq # <<>> /\ IsAt(TailOf(disk[METADATA]), freeq[Len(freeq)])
<1>1. TailOf(disk[METADATA]) \in Int
  BY PlainFacts, PageWords
<1>2. ~Text(TailOf(disk[METADATA]))
  BY <1>1, PlainFacts, TextIsNoPlace DEF PlainInv, PlainPages
<1>3. TailOf(disk[METADATA]) # EMPTY_LIST
  BY DEF Writable, EMPTY_LIST
<1>. QED  BY <1>2, <1>3 DEF PlainInv, PlainEnds

\* A head that ends the list is that of an empty list.
LEMMA PlainEmpty ==
  ASSUME PlainInv, PlainData, HeadOf(disk[METADATA]) = EMPTY_LIST
  PROVE  freeq = <<>>
<1>1. freeq # <<>> => freeq[1] \in Nat
  BY PlainFacts
<1>2. freeq # <<>> => HeadOf(disk[METADATA]) \in Nat \/ Text(HeadOf(disk[METADATA]))
  BY <1>1, OffsetOfPage DEF PlainInv, PlainEnds, IsAt
<1>. QED  BY <1>2 DEF EMPTY_LIST, Text, PlainData

\* A head that can be read is the first page of the list.
LEMMA PlainHead ==
  ASSUME PlainInv, PlainData, Readable(HeadOf(disk[METADATA]))
  PROVE  freeq # <<>> /\ IsAt(HeadOf(disk[METADATA]), freeq[1]) /\ ~Ruined
<1>1. HeadOf(disk[METADATA]) \in Int
  BY PlainFacts, PageWords
<1>2. ~Text(HeadOf(disk[METADATA]))
  BY <1>1, PlainFacts, TextIsNoPlace DEF PlainInv, PlainPages
<1>3. HeadOf(disk[METADATA]) # EMPTY_LIST
  BY DEF Readable, EMPTY_LIST
<1>. QED  BY <1>2, <1>3 DEF PlainInv, PlainEnds, Ruined

\* The pages behind the first free page.
LEMMA PlainRest ==
  ASSUME PlainInv, PlainData, call.at = "reuse_meta"
  PROVE  \/ Len(freeq) > 1 /\ RestOfQueue = Tail(freeq)
         \/ /\ Len(freeq) = 1 /\ RestOfQueue = <<>>
            /\ Text(HeadOf(call.meta)) \/ HeadOf(call.meta) = EMPTY_LIST
         \/ /\ Len(freeq) = 1
            /\ \E p \in adrift : IsAt(HeadOf(call.meta), p) /\ RestOfQueue = <<p>>
<1>1. Len(freeq) \in Nat \ {0} /\ HeadOf(call.meta) \in Int
  BY PlainFacts, PageWords DEF PlainInv, PlainReuse, TypeOK
<1>2. CASE Len(freeq) > 1
  BY <1>2 DEF RestOfQueue
<1>3. CASE Len(freeq) = 1
  <2>1. Text(HeadOf(call.meta)) \/ Loose(HeadOf(call.meta))
    BY <1>3 DEF PlainInv, PlainReuse, Onward
  <2>2. CASE Text(HeadOf(call.meta)) \/ HeadOf(call.meta) = EMPTY_LIST
    <3>1. ~Readable(HeadOf(call.meta))
      <4>1. HeadOf(call.meta) = EMPTY_LIST => ~Readable(HeadOf(call.meta))
        BY DEF Readable, EMPTY_LIST
      <4>. QED  BY <1>1, <2>2, <4>1, PlainFacts, TextIsNoPlace DEF PlainInv, PlainPages
    <3>. QED  BY <1>3, <2>2, <3>1 DEF RestOfQueue
  <2>3. CASE \E p \in adrift : IsAt(HeadOf(call.meta), p)
    <3>1. PICK p \in adrift : IsAt(HeadOf(call.meta), p)
      BY <2>3
    <3>2. offset_to_index(HeadOf(call.meta)) = p /\ Readable(HeadOf(call.meta))
      BY <3>1, PlainFacts, PageInStore DEF PlainInv
    <3>. QED  BY <1>3, <3>1, <3>2 DEF RestOfQueue
  <2>. QED  BY <2>1, <2>2, <2>3 DEF Loose
<1>4. Len(freeq) > 1 \/ Len(freeq) = 1
  BY <1>1, OneOrMore
<1>. QED  BY <1>2, <1>3, <1>4

\* What the invariant says of the file between two calls and between two
\* writes of one, the calls' own locals left out.
PlainFile == SizeInv /\ PagesAccounted /\ PlainPages /\ PlainEnds /\ PlainLinks

\* What it says of the call in progress.
PlainCall == PlainReuse /\ PlainExtend /\ PlainFirst /\ PlainAppend

\* The two, and the type of the state, are the invariant.
LEMMA PlainApart == PlainInv => PlainFile /\ PlainCall
BY DEF PlainInv, PlainFile, PlainCall

\* And back.
LEMMA PlainTogether ==
  ASSUME TypeOK', PlainFile', PlainCall'
  PROVE  PlainInv'
BY DEF PlainInv, PlainFile, PlainCall

\* A step that changes neither the file nor the books.
LEMMA PlainStill ==
  ASSUME PlainFile, UNCHANGED <<disk, eof, live, freeq, adrift>>
  PROVE  PlainFile'
BY DEF PlainFile, SizeInv, PagesAccounted, Queued, PlainPages, PlainEnds, PlainLinks,
       Ruined, Onward, Loose, Text, IsAt

\* No call is in progress.
LEMMA PlainIdle ==
  ASSUME call'.at = "idle"
  PROVE  PlainCall'
BY DEF PlainCall, PlainReuse, PlainExtend, PlainFirst, PlainAppend

\* A new store.
LEMMA InitPlain == Init => PlainInv
<1> SUFFICES ASSUME Init PROVE PlainInv
  OBVIOUS
<1>1. IInv
  BY InitInvariant
<1>2. freeq = <<>> /\ Len(freeq) = 0 /\ live = {} /\ adrift = {} /\ eof = 1 /\ call.at = "idle"
  BY DEF Init, Idle
<1>3. 0 \in Block
  BY PageInFile, MaxSizeAssumption
<1>4. PlainPages
  BY <1>2, <1>3 DEF PlainPages
<1>5. PlainEnds
  BY <1>1, <1>2 DEF IInv, FreeListOnDisk, EndsOfList, PlainEnds
<1>6. PlainLinks
  BY <1>2 DEF PlainLinks
<1>. QED
  BY <1>1, <1>2, <1>4, <1>5, <1>6
     DEF IInv, PlainInv, PlainReuse, PlainExtend, PlainFirst, PlainAppend

\* A call that ends without a write, wherever it was.
LEMMA PlainEndsCall ==
  ASSUME PlainInv, call' = Idle, UNCHANGED <<disk, eof, live, freeq, adrift>>,
         ret'.index \in Int
  PROVE  PlainInv'
<1>1. TypeOK'
  BY IdleType DEF PlainInv, TypeOK, Call
<1>. QED  BY <1>1, PlainApart, PlainStill, PlainIdle, IdleType, PlainTogether

\* A pwrite to page b: data to a client's, data or an end to one adrift, and
\* to one on the list nothing that leads elsewhere.
LEMMA PlainWrite ==
  ASSUME PlainInv, NEW b \in Block, b # METADATA, NEW offset, IsAt(offset, b),
         NEW page \in Page, Pwrite(offset, page), UNCHANGED <<live, freeq, adrift>>,
         b \in live => Text(LinkOf(page)),
         b \in adrift => Text(LinkOf(page)) \/ LinkOf(page) = EMPTY_LIST,
         \A i \in 1 .. Len(freeq) : b = freeq[i] => Onward(LinkOf(page), i)
  PROVE  /\ disk' \in [Block -> Page] /\ disk'[METADATA] = disk[METADATA]
         /\ disk'[b] = page /\ \A c \in Block : c # b => disk'[c] = disk[c]
         /\ eof' \in Nat /\ eof' >= eof /\ eof' > b
         /\ PlainFile'
<1>1. /\ disk' \in [Block -> Page]
      /\ disk'[b] = page /\ \A c \in Block : c # b => disk'[c] = disk[c]
      /\ eof' \in Nat /\ eof' >= eof /\ eof' > b
      /\ eof' = eof \/ eof' = b + 1
  BY PlainFacts, PwritePage
<1>2. disk'[METADATA] = disk[METADATA]
  BY <1>1, PlainFacts
<1>3. \A p \in 1 .. MaxSize : p \in Block
  BY PageInFile, MaxSizeAssumption
<1>4. SizeInv' /\ PagesAccounted'
  BY <1>1, <1>2, PlainFacts DEF PlainInv, SizeInv, PagesAccounted, Queued
<1>5. PlainPages'
  <2>1. eof' - 1 \in Block
    BY <1>1, BlockNumbers DEF PlainInv, PlainPages
  <2>2. \A p \in live : Text(LinkOf(disk'[p]))
    BY <1>1, <1>3, PlainFacts DEF PlainInv, PlainPages
  <2>3. \A p \in adrift : Text(LinkOf(disk'[p])) \/ LinkOf(disk'[p]) = EMPTY_LIST
    BY <1>1, <1>3, PlainFacts DEF PlainInv, PlainPages
  <2>. QED  BY <2>1, <2>2, <2>3 DEF PlainPages, Text
<1>6. PlainEnds'
  BY <1>2 DEF PlainInv, PlainEnds, Text, IsAt
<1>7. PlainLinks'
  <2>1. SUFFICES ASSUME ~Ruined, NEW i \in 1 .. Len(freeq)
                 PROVE  Onward(LinkOf(disk'[freeq[i]]), i)
    BY <1>2 DEF PlainLinks, Ruined, Text, Onward, Loose, IsAt
  <2>2. Onward(LinkOf(disk[freeq[i]]), i)
    BY <2>1 DEF PlainInv, PlainLinks
  <2>. QED  BY <1>1, <1>3, <2>2, PlainFacts
<1>. QED  BY <1>1, <1>2, <1>4, <1>5, <1>6, <1>7 DEF PlainFile

\* The pages of the list and the pages adrift, and that no page is both.
LEMMA PlainPlaces ==
  ASSUME PlainInv
  PROVE  /\ \A i \in 1 .. Len(freeq) :
              freeq[i] \notin live /\ freeq[i] \notin adrift
         /\ \A p \in live \cup adrift : p \in Block /\ p # METADATA
         /\ \A i \in 1 .. Len(freeq) : freeq[i] \in Block /\ freeq[i] # METADATA
         /\ \A p \in adrift : p \notin live
         /\ \A i, j \in 1 .. Len(freeq) : freeq[i] = freeq[j] => i = j
<1>1. \A p \in 1 .. MaxSize : p \in Block /\ p # METADATA
  BY PageInFile, MaxSizeAssumption DEF METADATA
<1>2. \A i \in 1 .. Len(freeq) : freeq[i] \in Queued
  BY PlainFacts DEF Queued
<1>. QED  BY <1>1, <1>2, PlainFacts DEF PlainInv, PagesAccounted

\* alloc_page takes the head of the list into its locals: a head it can read.
LEMMA PlainAllocReuse ==
  ASSUME PlainInv, PlainData, NEW src \in Sources, AllocReuse(src)
  PROVE  PlainInv'
<1> DEFINE offset == HeadOf(disk[METADATA])
           next == LinkOf(disk[offset_to_index(offset)])
           tail == IF offset = TailOf(disk[METADATA]) THEN next
                   ELSE TailOf(disk[METADATA])
<1>1. /\ Readable(offset)
      /\ call' = [at |-> "reuse_page", index |-> offset_to_index(offset),
                  offset |-> offset, src |-> src,
                  meta |-> MetaPage(SizeOf(disk[METADATA]), next, tail)]
      /\ UNCHANGED <<disk, eof, ret, live, freeq, adrift>>
  BY DEF AllocReuse
<1>2. freeq # <<>> /\ IsAt(offset, freeq[1]) /\ ~Ruined
  BY <1>1, PlainHead
<1>3. freeq[1] \in 1 .. MaxSize /\ Len(freeq) \in Nat \ {0}
  BY <1>2, PlainFacts
<1>4. offset \in Int /\ offset_to_index(offset) = freeq[1]
  BY <1>2, <1>3, OffsetOfPage DEF IsAt
<1>5. next \in Int /\ next = LinkOf(disk[freeq[1]])
  <2>1. disk[freeq[1]] \in Page
    BY <1>3, PageInFile, PlainFacts
  <2>. QED  BY <1>4, <2>1, PageWords
<1>6. tail \in Int /\ SizeOf(disk[METADATA]) \in Int
  BY <1>5, PlainFacts, PageWords
<1>7. /\ call'.meta \in Page
      /\ SizeOf(call'.meta) = SizeOf(disk[METADATA])
      /\ HeadOf(call'.meta) = next
      /\ TailOf(call'.meta) = tail
  <2>1. call'.meta = MetaPage(SizeOf(disk[METADATA]), next, tail)
    BY <1>1
  <2> HIDE DEF next, tail
  <2>. QED  BY <1>5, <1>6, <2>1, MetaWords
<1>8. /\ call'.at = "reuse_page" /\ call'.index = freeq[1] /\ call'.offset = offset
      /\ call'.src = src /\ src \in Data
  BY <1>1, <1>4, PlainSource
<1>9. TypeOK'
  <2>1. call' \in Call
    BY <1>1, <1>3, <1>4, <1>7, <1>8 DEF Call, Labels
  <2>. QED  BY <1>1, <2>1 DEF PlainInv, TypeOK, Call
<1>10. PlainFile'
  BY <1>1, PlainApart, PlainStill
<1>11. Onward(next, 1)
  BY <1>2, <1>3, <1>5 DEF PlainInv, PlainLinks
<1>12. tail = IF Len(freeq) > 1 THEN TailOf(disk[METADATA]) ELSE next
  <2>1. IsAt(TailOf(disk[METADATA]), freeq[Len(freeq)])
    BY <1>2 DEF PlainInv, PlainEnds
  <2>2. CASE Len(freeq) > 1
    <3>1. freeq[1] # freeq[Len(freeq)] /\ freeq[Len(freeq)] \in Nat
      BY <1>3, <2>2, PlainFacts, PlainPlaces
    <3>2. offset # TailOf(disk[METADATA])
      BY <1>2, <1>3, <2>1, <3>1, OffsetInjective DEF IsAt
    <3>. QED  BY <2>2, <3>2
  <2>3. CASE Len(freeq) = 1
    BY <1>2, <2>1, <2>3 DEF IsAt
  <2>. QED  BY <1>3, <2>2, <2>3, OneOrMore
<1>13. PlainReuse'
  BY <1>1, <1>2, <1>7, <1>8, <1>11, <1>12
     DEF PlainReuse, Ruined, Onward, Loose, Text, IsAt
<1>14. PlainCall'
  BY <1>8, <1>13 DEF PlainCall, PlainExtend, PlainFirst, PlainAppend
<1>. QED  BY <1>9, <1>10, <1>14, PlainTogether

\* alloc_page writes the source over the page: data where the link was.
LEMMA PlainReusePage ==
  ASSUME PlainInv, PlainData, ReusePage
  PROVE  PlainInv'
<1>1. /\ call.at = "reuse_page"
      /\ call' = [call EXCEPT !.at = "reuse_meta"]
      /\ UNCHANGED <<ret, live, freeq, adrift>>
  BY DEF ReusePage, Goto
<1>2. /\ freeq # <<>> /\ ~Ruined /\ call.src \in Data
      /\ IsAt(call.offset, freeq[1])
  BY <1>1 DEF PlainInv, PlainReuse
<1>3. 1 \in 1 .. Len(freeq)
  BY <1>2, PlainFacts
<1>4. Pwrite(call.offset, DataPage(call.src))
  BY <1>2, TextPage DEF ReusePage
<1>5. /\ disk' \in [Block -> Page] /\ disk'[METADATA] = disk[METADATA]
      /\ disk'[freeq[1]] = DataPage(call.src)
      /\ eof' \in Nat
      /\ PlainFile'
  BY <1>1, <1>2, <1>3, <1>4, TextPage, PlainPlaces, PlainWrite DEF Onward
<1>6. /\ call' \in Call /\ call'.at = "reuse_meta" /\ call'.index = call.index
      /\ call'.offset = call.offset /\ call'.src = call.src
      /\ call'.meta = call.meta
  BY <1>1 DEF PlainInv, TypeOK, Call, Labels
<1>7. TypeOK'
  BY <1>1, <1>5, <1>6 DEF PlainInv, TypeOK, Call
<1>8. PlainReuse'
  BY <1>1, <1>2, <1>5, <1>6, TextPage
     DEF PlainInv, PlainReuse, Ruined, Onward, Loose, Text, IsAt
<1>9. PlainCall'
  BY <1>6, <1>8 DEF PlainCall, PlainExtend, PlainFirst, PlainAppend
<1>. QED  BY <1>5, <1>7, <1>9, PlainTogether

\* alloc_page takes the page off the list, which goes on, or is over, or is
\* over for good because its head is data now.
LEMMA PlainReuseMeta ==
  ASSUME PlainInv, PlainData, ReuseMeta
  PROVE  PlainInv'
<1>1. /\ call.at = "reuse_meta"
      /\ call' = Idle /\ ret'.index \in Int
      /\ freeq' = RestOfQueue
      /\ adrift' = adrift \ Queued'
      /\ Pwrite(index_to_offset(METADATA), call.meta)
  BY DEF ReuseMeta, Result, PlainInv, TypeOK, Queued
<1>2. /\ freeq # <<>> /\ ~Ruined /\ live' = live \cup {freeq[1]}
      /\ call.meta \in Page /\ SizeOf(call.meta) = SizeOf(disk[METADATA])
      /\ Text(LinkOf(disk[freeq[1]]))
      /\ Onward(HeadOf(call.meta), 1)
      /\ TailOf(call.meta) = IF Len(freeq) > 1 THEN TailOf(disk[METADATA])
                             ELSE HeadOf(call.meta)
  BY <1>1 DEF ReuseMeta, PlainInv, TypeOK, PlainReuse
<1>3. /\ Len(freeq) \in Nat \ {0}
      /\ \A i \in 1 .. Len(freeq) : freeq[i] \in 1 .. MaxSize
      /\ \A p \in live \cup adrift : p \in 1 .. MaxSize
  BY <1>2, PlainFacts
<1>4. /\ disk' \in [Block -> Page] /\ disk'[METADATA] = call.meta
      /\ \A p \in 1 .. MaxSize : disk'[p] = disk[p]
      /\ eof' \in Nat /\ eof' >= eof /\ (eof' = eof \/ eof' = 1)
  BY <1>1, <1>2, PlainFacts, MetaWrite
<1>5. Books
  BY DEF PlainInv, Books
<1>6. SizeInv'
  BY <1>2, <1>4, PlainFacts DEF PlainInv, SizeInv
<1>7. /\ live' \in SUBSET (1 .. MaxSize) /\ freeq' \in Seq(1 .. MaxSize)
      /\ PagesAccounted'
      /\ Len(freeq) > 1 =>
           /\ Len(freeq') = Len(freeq) - 1 /\ Len(freeq') \in Nat \ {0}
           /\ \A i \in 1 .. Len(freeq') : freeq'[i] = freeq[i + 1]
           /\ adrift' = adrift
  BY <1>1, <1>2, <1>4, <1>5, PlainRest, ReusePlaces
<1>8. TypeOK'
  BY <1>1, <1>4, <1>7, IdleType DEF PlainInv, TypeOK, Call
<1>9. PlainPages'
  <2>1. eof' - 1 \in Block
    BY <1>4, PlainFacts DEF PlainInv, PlainPages, METADATA
  <2>2. \A p \in live' : Text(LinkOf(disk'[p]))
    BY <1>2, <1>3, <1>4 DEF PlainInv, PlainPages
  <2>3. \A p \in adrift' : Text(LinkOf(disk'[p])) \/ LinkOf(disk'[p]) = EMPTY_LIST
    BY <1>1, <1>3, <1>4 DEF PlainInv, PlainPages
  <2>. QED  BY <2>1, <2>2, <2>3 DEF PlainPages, Text
<1>10. PlainEnds' /\ PlainLinks'
  <2>1. CASE Len(freeq) > 1
    <3>1. /\ freeq' # <<>> /\ freeq'[1] = freeq[2]
          /\ freeq'[Len(freeq')] = freeq[Len(freeq)]
      BY <1>3, <1>7, <2>1
    <3>2. IsAt(TailOf(disk[METADATA]), freeq[Len(freeq)])
      BY <1>2 DEF PlainInv, PlainEnds
    <3>3. Text(HeadOf(call.meta)) \/ IsAt(HeadOf(call.meta), freeq[2])
      BY <1>2, <2>1 DEF Onward
    <3>4. PlainEnds'
      BY <1>2, <1>4, <2>1, <3>1, <3>2, <3>3 DEF PlainEnds, Text, IsAt
    <3>5. ASSUME NEW i \in 1 .. Len(freeq')
          PROVE  LET link == LinkOf(disk'[freeq'[i]]) IN
                 \/ Text(link)
                 \/ i < Len(freeq') /\ IsAt(link, freeq'[i + 1])
                 \/ i = Len(freeq') /\ Loose(link)
      <4>1. i + 1 \in 1 .. Len(freeq) /\ freeq'[i] = freeq[i + 1]
        BY <1>3, <1>7, <2>1
      <4>2. Onward(LinkOf(disk'[freeq'[i]]), i + 1)
        BY <1>2, <1>3, <1>4, <4>1 DEF PlainInv, PlainLinks
      <4>3. (i + 1 < Len(freeq) <=> i < Len(freeq')) /\ (i + 1 = Len(freeq) <=> i = Len(freeq'))
        BY <1>3, <1>7, <2>1
      <4>4. i < Len(freeq') => freeq'[i + 1] = freeq[(i + 1) + 1]
        BY <1>3, <1>7, <2>1
      <4>. QED  BY <4>2, <4>3, <4>4 DEF Onward
    <3>6. adrift' = adrift
      BY <1>7, <2>1
    <3>7. PlainLinks'
      BY <3>5, <3>6 DEF PlainLinks, Onward, Loose, Text, IsAt
    <3>. QED  BY <3>4, <3>7
  <2>2. CASE /\ Len(freeq) = 1 /\ RestOfQueue = <<>>
             /\ Text(HeadOf(call.meta)) \/ HeadOf(call.meta) = EMPTY_LIST
    BY <1>1, <1>2, <1>4, <2>2 DEF PlainEnds, PlainLinks, Text
  <2>3. CASE /\ Len(freeq) = 1
             /\ \E p \in adrift : IsAt(HeadOf(call.meta), p) /\ RestOfQueue = <<p>>
    <3>1. PICK p \in adrift : IsAt(HeadOf(call.meta), p) /\ freeq' = <<p>>
      BY <1>1, <2>3
    <3>2. freeq' # <<>> /\ Len(freeq') = 1 /\ freeq'[1] = p
      BY <3>1
    <3>3. PlainEnds'
      BY <1>2, <1>4, <2>3, <3>1, <3>2 DEF PlainEnds, IsAt
    <3>4. Text(LinkOf(disk'[p])) \/ LinkOf(disk'[p]) = EMPTY_LIST
      BY <1>3, <1>4 DEF PlainInv, PlainPages
    <3>5. PlainLinks'
      BY <3>2, <3>4 DEF PlainLinks, Onward, Loose, Text
    <3>. QED  BY <3>3, <3>5
  <2>. QED  BY <1>1, <2>1, <2>2, <2>3, PlainRest
<1>11. PlainFile' /\ PlainCall'
  BY <1>1, <1>6, <1>7, <1>9, <1>10, PlainIdle, IdleType DEF PlainFile
<1>. QED  BY <1>8, <1>11, PlainTogether

\* alloc_page, with no free page, takes the number behind the last one.
LEMMA PlainAllocExtend ==
  ASSUME PlainInv, PlainData, NEW src \in Sources, AllocExtend(src)
  PROVE  PlainInv'
<1> DEFINE size == SizeOf(disk[METADATA])
<1>1. /\ HeadOf(disk[METADATA]) = EMPTY_LIST /\ size < MaxSize
      /\ call' = [at |-> "extend_blank", index |-> size,
                  offset |-> index_to_offset(size), src |-> src,
                  meta |-> disk[METADATA]]
      /\ UNCHANGED <<disk, eof, ret, live, freeq, adrift>>
  BY DEF AllocExtend
<1>2. freeq = <<>> /\ src \in Data
  BY <1>1, PlainEmpty, PlainSource
<1>3. size \in 1 .. MaxSize /\ disk[METADATA] \in Page
  BY PlainFacts
<1>4. index_to_offset(size) \in Int
  BY <1>3, OffsetOfPage
<1>5. TypeOK'
  <2>1. call' \in Call
    BY <1>1, <1>2, <1>3, <1>4 DEF Call, Labels
  <2>. QED  BY <1>1, <2>1 DEF PlainInv, TypeOK, Call
<1>6. PlainExtend'
  BY <1>1, <1>2 DEF PlainExtend, IsAt
<1>7. PlainFile' /\ PlainCall'
  BY <1>1, <1>6, PlainApart, PlainStill DEF PlainCall, PlainReuse, PlainFirst, PlainAppend
<1>. QED  BY <1>5, <1>7, PlainTogether

\* A write of the new page, which is behind all pages of the store.
LEMMA PlainNewPage ==
  ASSUME PlainInv, PlainData, call.at \in {"extend_blank", "extend_data"},
         NEW page \in Page, Pwrite(call.offset, page),
         UNCHANGED <<ret, live, freeq, adrift>>,
         \/ call' = [call EXCEPT !.at = "extend_data"]
         \/ /\ Text(LinkOf(page))
            /\ call' = [call EXCEPT !.at = "extend_meta", !.meta = Grown(call.meta)]
  PROVE  PlainInv'
<1>1. /\ freeq = <<>>
      /\ call.index = SizeOf(disk[METADATA]) /\ call.index < MaxSize
      /\ IsAt(call.offset, call.index) /\ call.src \in Data
      /\ call.meta = disk[METADATA]
  BY DEF PlainInv, PlainExtend
<1>2. /\ call.index \in Block /\ call.index # METADATA
      /\ call.index \notin live /\ call.index \notin adrift
  BY <1>1, PlainFacts, PageInFile DEF METADATA
<1>3. /\ disk' \in [Block -> Page] /\ disk'[METADATA] = disk[METADATA]
      /\ disk'[call.index] = page
      /\ eof' \in Nat /\ eof' > call.index
      /\ PlainFile'
  <2>1. Len(freeq) = 0
    BY <1>1
  <2>. QED  BY <1>1, <1>2, <2>1, PlainWrite
<1>4. call \in Call /\ call.meta \in Page
  BY DEF PlainInv, TypeOK, Call
<1>5. Grown(call.meta) \in Page
  BY <1>4, GrownWords
<1>6. /\ call' \in Call /\ call'.index = call.index /\ call'.offset = call.offset
      /\ call'.src = call.src
      /\ \/ call'.at = "extend_data" /\ call'.meta = call.meta
         \/ /\ Text(LinkOf(page))
            /\ call'.at = "extend_meta" /\ call'.meta = Grown(call.meta)
  BY <1>4, <1>5 DEF Call, Labels
<1>7. TypeOK'
  BY <1>3, <1>6 DEF PlainInv, TypeOK, Call
<1>8. PlainExtend'
  BY <1>1, <1>3, <1>6 DEF PlainExtend, Text, IsAt
<1>9. PlainCall'
  BY <1>6, <1>8 DEF PlainCall, PlainReuse, PlainFirst, PlainAppend
<1>. QED  BY <1>3, <1>7, <1>9, PlainTogether

\* alloc_page writes the new page blank, then the source into it.
LEMMA PlainExtendPage ==
  ASSUME PlainInv, PlainData, ExtendBlank \/ ExtendData
  PROVE  PlainInv'
<1>1. call.src \in Data
  BY DEF ExtendBlank, ExtendData, PlainInv, PlainExtend
<1>2. CASE ExtendBlank
  BY <1>1, <1>2, TextPage, PlainNewPage, PageWords DEF ExtendBlank
<1>3. CASE ExtendData
  BY <1>1, <1>3, TextPage, PlainNewPage DEF ExtendData
<1>. QED  BY <1>2, <1>3

\* alloc_page writes the grown size.
LEMMA PlainExtendMeta ==
  ASSUME PlainInv, PlainData, ExtendMeta
  PROVE  PlainInv'
<1> DEFINE size == SizeOf(disk[METADATA])
<1>1. /\ call.at = "extend_meta" /\ call' = Idle
      /\ ret'.index \in Int
      /\ live' = live \cup {call.index}
      /\ Pwrite(index_to_offset(METADATA), call.meta)
      /\ UNCHANGED <<freeq, adrift>>
  BY DEF ExtendMeta, Result, PlainInv, TypeOK
<1>2. /\ freeq = <<>> /\ call.index = size /\ call.index < MaxSize
      /\ call.meta = Grown(disk[METADATA]) /\ call.index < eof
      /\ Text(LinkOf(disk[call.index]))
  BY <1>1 DEF PlainInv, PlainExtend
<1>3. size \in 1 .. MaxSize /\ disk[METADATA] \in Page /\ call.meta \in Page
  BY PlainFacts DEF PlainInv, TypeOK
<1>4. /\ SizeOf(call.meta) = size + 1
      /\ HeadOf(call.meta) = HeadOf(disk[METADATA])
      /\ TailOf(call.meta) = TailOf(disk[METADATA])
  BY <1>2, <1>3, GrownSize
<1>5. /\ disk' \in [Block -> Page] /\ disk'[METADATA] = call.meta
      /\ \A p \in 1 .. MaxSize : disk'[p] = disk[p]
      /\ eof' \in Nat /\ eof' >= eof /\ (eof' = eof \/ eof' = 1)
  BY <1>1, <1>3, PlainFacts, MetaWrite
<1>6. TypeOK'
  BY <1>1, <1>2, <1>3, <1>5, IdleType DEF PlainInv, TypeOK, Call
<1>7. SizeInv'
  BY <1>2, <1>3, <1>4, <1>5, MaxSizeAssumption, PlainFacts DEF SizeInv
<1>8. PagesAccounted'
  BY <1>1, <1>2, <1>3, <1>4, <1>5 DEF PlainInv, PagesAccounted, Queued
<1>9. PlainPages'
  <2>1. eof' - 1 \in Block
    BY <1>5, PlainFacts DEF PlainInv, PlainPages, METADATA
  <2>2. \A p \in live' : Text(LinkOf(disk'[p]))
    BY <1>1, <1>2, <1>3, <1>5, PlainFacts DEF PlainInv, PlainPages
  <2>3. \A p \in adrift' : Text(LinkOf(disk'[p])) \/ LinkOf(disk'[p]) = EMPTY_LIST
    BY <1>1, <1>5, PlainFacts DEF PlainInv, PlainPages
  <2>. QED  BY <2>1, <2>2, <2>3 DEF PlainPages, Text
<1>10. PlainEnds'
  BY <1>1, <1>2, <1>4, <1>5 DEF PlainInv, PlainEnds, Text
<1>11. PlainLinks'
  BY <1>1, <1>2 DEF PlainLinks
<1>12. PlainFile' /\ PlainCall'
  BY <1>1, <1>7, <1>8, <1>9, <1>10, <1>11, PlainIdle, IdleType DEF PlainFile
<1>. QED  BY <1>6, <1>12, PlainTogether

\* free_page reads the metadata; its page is adrift from here on.
LEMMA PlainFreePageCall ==
  ASSUME PlainInv, PlainData, NEW index \in FreeArgument, FreePageCall(index)
  PROVE  PlainInv'
<1> DEFINE meta == disk[METADATA]
           offset == index_to_offset(index)
           empty == TailOf(meta) = EMPTY_LIST /\ HeadOf(meta) = EMPTY_LIST
<1>1. /\ call' = [at |-> IF empty THEN "first_page" ELSE "append_old",
                  index |-> index, offset |-> offset, src |-> NULL,
                  meta |-> IF empty THEN MetaPage(SizeOf(meta), offset, offset)
                                    ELSE meta]
      /\ live' = live \ {index}
      /\ adrift' = adrift \cup ({index} \ Queued)
      /\ UNCHANGED <<disk, eof, ret, freeq>>
  BY DEF FreePageCall
<1>2. index \in live
  BY ModeAssumption DEF PlainData, FreeArgument
<1>3. index \notin Queued /\ adrift' = adrift \cup {index}
  BY <1>1, <1>2 DEF PlainInv, PagesAccounted
<1>4. index \in 1 .. MaxSize
  BY <1>2, PlainFacts
<1>5. offset \in Nat
  BY <1>4, OffsetOfPage
<1>6. meta \in Page /\ MetaPage(SizeOf(meta), offset, offset) \in Page
  BY <1>5, PlainFacts, MetaWords
<1>7. TypeOK'
  <2>1. call' \in Call
    BY <1>1, <1>4, <1>5, <1>6 DEF Call, Labels
  <2>. QED  BY <1>1, <1>4, <2>1 DEF PlainInv, TypeOK, Call
<1>8. SizeInv' /\ PagesAccounted'
  BY <1>1, <1>2, <1>3 DEF PlainInv, SizeInv, PagesAccounted, Queued
<1>9. PlainPages'
  BY <1>1, <1>2, <1>3 DEF PlainInv, PlainPages, Text
<1>10. PlainEnds'
  BY <1>1 DEF PlainInv, PlainEnds, Text, IsAt
<1>11. PlainLinks'
  BY <1>1, <1>3 DEF PlainInv, PlainLinks, Ruined, Onward, Loose, Text, IsAt
<1>12. call'.at \in {"first_page", "append_old"}
  BY <1>1
<1>13. PlainFirst'
  <2>1. SUFFICES ASSUME empty PROVE PlainFirst'
    BY <1>1 DEF PlainFirst
  <2>2. freeq = <<>>
    BY <2>1, PlainEmpty
  <2>. QED  BY <1>1, <1>3, <2>1, <2>2 DEF PlainFirst, IsAt
<1>14. PlainAppend'
  <2>1. SUFFICES ASSUME ~empty PROVE PlainAppend'
    BY <1>1 DEF PlainAppend
  <2>. QED  BY <1>1, <1>3, <2>1 DEF PlainAppend, IsAt
<1>15. PlainFile' /\ PlainCall'
  BY <1>8, <1>9, <1>10, <1>11, <1>12, <1>13, <1>14
     DEF PlainFile, PlainCall, PlainReuse, PlainExtend
<1>. QED  BY <1>7, <1>15, PlainTogether

\* free_page writes the end of a list of one page.
LEMMA PlainFirstPage ==
  ASSUME PlainInv, PlainData, FirstPage
  PROVE  PlainInv'
<1>1. /\ call.at = "first_page"
      /\ call' = [call EXCEPT !.at = "first_meta"]
      /\ Pwrite(call.offset, FreePage(EMPTY_LIST))
      /\ UNCHANGED <<ret, live, freeq, adrift>>
  BY DEF FirstPage, Goto
<1>2. /\ freeq = <<>> /\ call.index \in adrift /\ IsAt(call.offset, call.index)
      /\ call.meta = MetaPage(SizeOf(disk[METADATA]), call.offset, call.offset)
      /\ Len(freeq) = 0
  BY <1>1 DEF PlainInv, PlainFirst
<1>3. FreePage(EMPTY_LIST) \in Page /\ LinkOf(FreePage(EMPTY_LIST)) = EMPTY_LIST
  BY PageWords DEF EMPTY_LIST
<1>4. /\ disk' \in [Block -> Page] /\ disk'[METADATA] = disk[METADATA]
      /\ LinkOf(disk'[call.index]) = EMPTY_LIST
      /\ eof' \in Nat
      /\ PlainFile'
  BY <1>1, <1>2, <1>3, PlainPlaces, PlainWrite
<1>5. /\ call' \in Call /\ call'.at = "first_meta" /\ call'.index = call.index
      /\ call'.offset = call.offset /\ call'.meta = call.meta
  BY <1>1 DEF PlainInv, TypeOK, Call, Labels
<1>6. TypeOK'
  BY <1>1, <1>4, <1>5 DEF PlainInv, TypeOK, Call
<1>7. PlainFirst'
  BY <1>1, <1>2, <1>4, <1>5 DEF PlainFirst, IsAt
<1>8. PlainCall'
  BY <1>5, <1>7 DEF PlainCall, PlainReuse, PlainExtend, PlainAppend
<1>. QED  BY <1>4, <1>6, <1>8, PlainTogether

\* What the last write of free_page does to the file and the books: the page
\* is behind those that were on the list.
LEMMA PlainAddToList ==
  ASSUME PlainInv, PlainData, call' = Idle, ret'.index \in Int,
         Pwrite(index_to_offset(METADATA), call.meta), call.meta \in Page,
         call.index \in adrift, LinkOf(disk[call.index]) = EMPTY_LIST,
         SizeOf(call.meta) = SizeOf(disk[METADATA]),
         IsAt(TailOf(call.meta), call.index),
         freeq = <<>> => HeadOf(call.meta) = TailOf(call.meta),
         freeq # <<>> => /\ HeadOf(call.meta) = HeadOf(disk[METADATA])
                         /\ IsAt(LinkOf(disk[freeq[Len(freeq)]]), call.index),
         freeq' = Append(freeq, call.index),
         adrift' = adrift \ {call.index}, live' = live
  PROVE  PlainInv'
<1> DEFINE n == Len(freeq)
           index == call.index
<1>1. /\ n \in Nat /\ (freeq = <<>> <=> n = 0)
      /\ \A i \in 1 .. n : freeq[i] \in 1 .. MaxSize
      /\ \A p \in live \cup adrift : p \in 1 .. MaxSize
  BY PlainFacts
<1>2. /\ disk' \in [Block -> Page] /\ disk'[METADATA] = call.meta
      /\ \A p \in 1 .. MaxSize : disk'[p] = disk[p]
      /\ eof' \in Nat /\ eof' >= eof /\ (eof' = eof \/ eof' = 1)
  BY PlainFacts, MetaWrite
<1>3. SizeInv'
  BY <1>2, PlainFacts DEF PlainInv, SizeInv
<1>4. /\ freeq' \in Seq(1 .. MaxSize) /\ Len(freeq') = n + 1
      /\ \A i \in 1 .. n : freeq'[i] = freeq[i] /\ freeq[i] # index
      /\ freeq'[n + 1] = index
      /\ PagesAccounted'
  <2>1. Books
    BY DEF PlainInv, Books
  <2>. QED  BY <1>2, <2>1, AppendPlaces
<1>5. TypeOK'
  BY <1>2, <1>4, IdleType DEF PlainInv, TypeOK, Call
<1>6. PlainPages'
  <2>1. eof' - 1 \in Block
    BY <1>2, PlainFacts DEF PlainInv, PlainPages, METADATA
  <2>2. \A p \in live' : Text(LinkOf(disk'[p]))
    BY <1>1, <1>2 DEF PlainInv, PlainPages
  <2>3. \A p \in adrift' : Text(LinkOf(disk'[p])) \/ LinkOf(disk'[p]) = EMPTY_LIST
    BY <1>1, <1>2 DEF PlainInv, PlainPages
  <2>. QED  BY <2>1, <2>2, <2>3 DEF PlainPages, Text
<1>7. freeq' # <<>>
  BY <1>1, <1>4
<1>8. PlainEnds'
  <2>1. Text(HeadOf(call.meta)) \/ IsAt(HeadOf(call.meta), freeq'[1])
    <3>1. CASE freeq = <<>>
      BY <1>1, <1>4, <3>1 DEF IsAt
    <3>2. CASE freeq # <<>>
      <4>1. 1 \in 1 .. n
        BY <1>1, <3>2
      <4>. QED  BY <1>4, <3>2, <4>1 DEF PlainInv, PlainEnds
    <3>. QED  BY <3>1, <3>2
  <2>. QED  BY <1>2, <1>4, <1>7, <2>1 DEF PlainEnds, Text, IsAt
<1>9. PlainLinks'
  <2>1. SUFFICES ASSUME ~Text(HeadOf(call.meta)), NEW i \in 1 .. n + 1
                 PROVE  LET link == LinkOf(disk'[freeq'[i]]) IN
                        \/ Text(link)
                        \/ i < n + 1 /\ IsAt(link, freeq'[i + 1])
                        \/ i = n + 1 /\ link = EMPTY_LIST
    BY <1>2, <1>4 DEF PlainLinks, Ruined, Onward, Loose, Text, IsAt
  <2>2. CASE i = n + 1
    BY <1>1, <1>2, <1>4, <2>2
  <2>3. CASE i \in 1 .. n
    <3>1. /\ freeq # <<>> /\ freeq'[i] = freeq[i] /\ disk'[freeq[i]] = disk[freeq[i]]
          /\ i < n + 1
      BY <1>1, <1>2, <1>4, <2>3
    <3>2. ~Ruined
      BY <2>1, <3>1 DEF Ruined
    <3>3. Onward(LinkOf(disk[freeq[i]]), i)
      BY <2>3, <3>2 DEF PlainInv, PlainLinks
    <3>4. CASE i = n
      BY <1>4, <3>1, <3>4
    <3>5. CASE i \in 1 .. n - 1
      <4>1. i + 1 \in 1 .. n /\ i # n
        BY <1>1, <3>5, BelowLast
      <4>. QED  BY <1>4, <3>1, <3>3, <4>1 DEF Onward
    <3>. QED  BY <1>1, <2>3, <3>4, <3>5, LastOrBelow
  <2>4. i \in 1 .. n \/ i = n + 1
    BY <1>1
  <2>. QED  BY <2>2, <2>3, <2>4
<1>10. PlainFile' /\ PlainCall'
  BY <1>3, <1>4, <1>6, <1>8, <1>9, PlainIdle, IdleType DEF PlainFile
<1>. QED  BY <1>5, <1>10, PlainTogether

\* free_page makes its page the whole list.
LEMMA PlainFirstMeta ==
  ASSUME PlainInv, PlainData, FirstMeta
  PROVE  PlainInv'
<1>1. /\ call.at = "first_meta" /\ call' = Idle
      /\ ret'.index \in Int
      /\ freeq' = <<call.index>>
      /\ adrift' = adrift \ {call.index}
      /\ Pwrite(index_to_offset(METADATA), call.meta)
      /\ UNCHANGED live
  BY DEF FirstMeta, Result, ERR_SET
<1>2. /\ freeq = <<>> /\ call.index \in adrift /\ IsAt(call.offset, call.index)
      /\ call.meta = MetaPage(SizeOf(disk[METADATA]), call.offset, call.offset)
      /\ LinkOf(disk[call.index]) = EMPTY_LIST
  BY <1>1 DEF PlainInv, PlainFirst
<1>3. /\ call.meta \in Page
      /\ SizeOf(call.meta) = SizeOf(disk[METADATA])
      /\ HeadOf(call.meta) = call.offset /\ TailOf(call.meta) = call.offset
  <2>1. SizeOf(disk[METADATA]) \in Int /\ call.offset \in Int
    BY PlainFacts DEF PlainInv, TypeOK
  <2>. QED  BY <1>2, <2>1, MetaWords
<1>4. freeq' = Append(freeq, call.index)
  BY <1>1, <1>2
<1>. QED  BY <1>1, <1>2, <1>3, <1>4, PlainAddToList

\* free_page links the last free page to its own: the metadata names it, or
\* the write is refused.
LEMMA PlainAppendOld ==
  ASSUME PlainInv, PlainData, AppendOld
  PROVE  PlainInv'
<1> DEFINE last == freeq[Len(freeq)]
<1>1. /\ call.at = "append_old"
      /\ call' = [call EXCEPT !.at = "append_page"]
      /\ Pwrite(TailOf(call.meta), FreePage(call.offset))
      /\ UNCHANGED <<ret, live, freeq, adrift>>
  BY DEF AppendOld, Goto
<1>2. /\ call.index \in adrift /\ IsAt(call.offset, call.index)
      /\ call.meta = disk[METADATA]
  BY <1>1 DEF PlainInv, PlainAppend
<1>3. freeq # <<>> /\ IsAt(TailOf(call.meta), last)
  BY <1>1, <1>2, PlainTail DEF Pwrite
<1>4. Len(freeq) \in 1 .. Len(freeq)
  BY <1>3, PlainFacts
<1>5. FreePage(call.offset) \in Page /\ LinkOf(FreePage(call.offset)) = call.offset
  BY PageWords DEF PlainInv, TypeOK
<1>6. \A i \in 1 .. Len(freeq) : last = freeq[i] => Onward(call.offset, i)
  BY <1>2, <1>4, PlainPlaces DEF Onward, Loose
<1>7. /\ disk' \in [Block -> Page] /\ disk'[METADATA] = disk[METADATA]
      /\ LinkOf(disk'[last]) = call.offset
      /\ eof' \in Nat
      /\ PlainFile'
  BY <1>1, <1>3, <1>4, <1>5, <1>6, PlainPlaces, PlainWrite
<1>8. /\ call' \in Call /\ call'.at = "append_page" /\ call'.index = call.index
      /\ call'.offset = call.offset /\ call'.meta = call.meta
  BY <1>1 DEF PlainInv, TypeOK, Call, Labels
<1>9. TypeOK'
  BY <1>1, <1>7, <1>8 DEF PlainInv, TypeOK, Call
<1>10. PlainAppend'
  BY <1>1, <1>2, <1>3, <1>7, <1>8 DEF PlainAppend, IsAt
<1>11. PlainCall'
  BY <1>8, <1>10 DEF PlainCall, PlainReuse, PlainExtend, PlainFirst
<1>. QED  BY <1>7, <1>9, <1>11, PlainTogether

\* free_page makes its page the end of the list.
LEMMA PlainAppendPage ==
  ASSUME PlainInv, PlainData, AppendPage
  PROVE  PlainInv'
<1> DEFINE meta == MetaPage(SizeOf(call.meta), HeadOf(call.meta), call.offset)
<1>1. /\ call.at = "append_page"
      /\ call' = [call EXCEPT !.at = "append_meta", !.meta = meta]
      /\ Pwrite(call.offset, FreePage(EMPTY_LIST))
      /\ UNCHANGED <<ret, live, freeq, adrift>>
  BY DEF AppendPage
<1>2. /\ call.index \in adrift /\ IsAt(call.offset, call.index)
      /\ call.meta = disk[METADATA]
      /\ freeq # <<>> /\ LinkOf(disk[freeq[Len(freeq)]]) = call.offset
  BY <1>1 DEF PlainInv, PlainAppend
<1>3. meta \in Page
  <2>1. /\ SizeOf(call.meta) \in Int /\ HeadOf(call.meta) \in Int
        /\ call.offset \in Int
    BY PageWords DEF PlainInv, TypeOK
  <2>. QED  BY <2>1, MetaWords
<1>4. FreePage(EMPTY_LIST) \in Page /\ LinkOf(FreePage(EMPTY_LIST)) = EMPTY_LIST
  BY PageWords DEF EMPTY_LIST
<1>5. /\ disk' \in [Block -> Page] /\ disk'[METADATA] = disk[METADATA]
      /\ LinkOf(disk'[call.index]) = EMPTY_LIST
      /\ \A b \in Block : b # call.index => disk'[b] = disk[b]
      /\ eof' \in Nat
      /\ PlainFile'
  BY <1>1, <1>2, <1>4, PlainPlaces, PlainWrite
<1>6. LinkOf(disk'[freeq[Len(freeq)]]) = call.offset
  <2>1. Len(freeq) \in 1 .. Len(freeq)
    BY <1>2, PlainFacts
  <2>. QED  BY <1>2, <1>5, <2>1, PlainPlaces
<1>7. /\ call' \in Call /\ call'.at = "append_meta" /\ call'.index = call.index
      /\ call'.offset = call.offset /\ call'.meta = meta
  <2> HIDE DEF meta
  <2>. QED  BY <1>1, <1>3 DEF PlainInv, TypeOK, Call, Labels
<1>8. TypeOK'
  BY <1>1, <1>5, <1>7 DEF PlainInv, TypeOK, Call
<1>9. PlainAppend'
  BY <1>1, <1>2, <1>5, <1>6, <1>7 DEF PlainAppend, IsAt
<1>10. PlainCall'
  BY <1>7, <1>9 DEF PlainCall, PlainReuse, PlainExtend, PlainFirst
<1>. QED  BY <1>5, <1>8, <1>10, PlainTogether

\* free_page moves the tail.
LEMMA PlainAppendMeta ==
  ASSUME PlainInv, PlainData, AppendMeta
  PROVE  PlainInv'
<1>1. /\ call.at = "append_meta" /\ call' = Idle
      /\ ret'.index \in Int
      /\ Pwrite(index_to_offset(METADATA), call.meta)
      /\ UNCHANGED live
  BY DEF AppendMeta, Result, ERR_SET
<1>2. /\ call.index \in adrift /\ IsAt(call.offset, call.index)
      /\ freeq # <<>> /\ LinkOf(disk[freeq[Len(freeq)]]) = call.offset
      /\ call.meta = MetaPage(SizeOf(disk[METADATA]), HeadOf(disk[METADATA]), call.offset)
      /\ LinkOf(disk[call.index]) = EMPTY_LIST
  BY <1>1 DEF PlainInv, PlainAppend
<1>3. /\ call.meta \in Page
      /\ SizeOf(call.meta) = SizeOf(disk[METADATA])
      /\ HeadOf(call.meta) = HeadOf(disk[METADATA])
      /\ TailOf(call.meta) = call.offset
  <2>1. /\ SizeOf(disk[METADATA]) \in Int /\ HeadOf(disk[METADATA]) \in Int
        /\ call.offset \in Int
    BY PlainFacts, PageWords DEF PlainInv, TypeOK
  <2>. QED  BY <1>2, <2>1, MetaWords
<1>4. call.index \notin Queued
  BY <1>2 DEF PlainInv, PagesAccounted
<1>5. freeq' = Append(freeq, call.index) /\ adrift' = adrift \ {call.index}
  BY <1>4 DEF AppendMeta
<1>. QED  BY <1>1, <1>2, <1>3, <1>5, PlainAddToList

\* put_page writes data over the data of a page the client owns.
LEMMA PlainPutPage ==
  ASSUME PlainInv, PlainData, NEW index \in live, NEW word \in Data,
         PutPage(index, word)
  PROVE  PlainInv'
<1>1. /\ call.at = "idle" /\ ret'.index \in Int
      /\ Pwrite(index_to_offset(index), DataPage(word))
      /\ UNCHANGED <<call, live, freeq, adrift>>
  BY DEF PutPage, Result, ERR_SET
<1>2. /\ index \in Block /\ index # METADATA /\ index \notin adrift
      /\ \A i \in 1 .. Len(freeq) : index # freeq[i]
      /\ IsAt(index_to_offset(index), index)
  BY PlainPlaces DEF IsAt
<1>3. /\ disk' \in [Block -> Page] /\ eof' \in Nat
      /\ PlainFile'
  BY <1>1, <1>2, TextPage, PlainWrite
<1>4. TypeOK'
  BY <1>1, <1>3 DEF PlainInv, TypeOK
<1>. QED  BY <1>1, <1>3, <1>4, PlainIdle, PlainTogether

\* A call that writes nothing leaves everything in place.
LEMMA PlainReturn ==
  ASSUME PlainInv, NEW status, NEW index \in Int, Return(status, index)
  PROVE  PlainInv'
<1>1. call.at = "idle" /\ ret'.index \in Int
      /\ UNCHANGED <<disk, eof, call, live, freeq, adrift>>
  BY DEF Return, Result
<1>2. TypeOK'
  BY <1>1 DEF PlainInv, TypeOK
<1>. QED  BY <1>1, <1>2, PlainApart, PlainStill, PlainIdle, PlainTogether

\* A call that fails or is lost, at any of its writes.
LEMMA PlainFault ==
  ASSUME PlainInv, Fault
  PROVE  PlainInv'
<1>0. ERR_SET \in Int
  BY DEF ERR_SET
<1>1. CASE PwriteFails
  <2>1. ret'.index \in Int
    BY <1>1 DEF PwriteFails, Result, IndexOnError, STATUS_ERR, ERR_SET
  <2>. QED  BY <1>1, <2>1, PlainEndsCall DEF PwriteFails
<1>2. CASE Crash
  BY <1>0, <1>2, PlainEndsCall DEF Crash, Result
<1>3. CASE IOFails
  BY <1>0, <1>3, PlainReturn DEF IOFails
<1>. QED  BY <1>1, <1>2, <1>3 DEF Fault

\* Every step keeps the invariant.
LEMMA NextPlain ==
  ASSUME PlainInv, PlainData, [Next]_vars
  PROVE  PlainInv'
<1>0. ERR_SET \in Int
  BY DEF ERR_SET
<1>1. CASE Alloc
  BY <1>0, <1>1, PlainAllocReuse, PlainAllocExtend, PlainReturn, PlainReusePage,
     PlainReuseMeta, PlainExtendPage, PlainExtendMeta DEF Alloc, AllocBadLink
<1>2. CASE Free
  BY <1>2, PlainFreePageCall, PlainFirstPage, PlainFirstMeta, PlainAppendOld,
     PlainAppendPage, PlainAppendMeta DEF Free
<1>3. CASE Access
  BY <1>0, <1>3, PlainReturn, PlainPutPage DEF Access, GetPage, Refuse
<1>4. CASE Fault
  BY <1>4, PlainFault
<1>5. CASE UNCHANGED vars
  <2>1. TypeOK'
    BY <1>5 DEF vars, PlainInv, TypeOK
  <2>2. PlainFile'
    BY <1>5, PlainApart, PlainStill DEF vars
  <2>3. PlainCall'
    BY <1>5, PlainApart DEF vars, PlainCall, PlainReuse, PlainExtend, PlainFirst,
       PlainAppend, Ruined, Onward, Loose, Text, IsAt
  <2>. QED  BY <2>1, <2>2, <2>3, PlainTogether
<1>. QED  BY <1>1, <1>2, <1>3, <1>4, <1>5 DEF Next

\* The inductive invariant of plain data holds for a store of any size, whose
\* calls stop at any of their writes: what an interrupted alloc_page or
\* free_page leaves on the list leads to no page of a client.
THEOREM PlainInvariant == ASSUME PlainData PROVE Spec => []PlainInv
<1>1. Init => PlainInv
  BY InitPlain
<1>2. PlainInv /\ [Next]_vars => PlainInv'
  BY NextPlain
<1>. QED  BY <1>1, <1>2, PTL DEF Spec

-----------------------------------------------------------------------------
(* What both inductive invariants say of a call: the pages it is about to  *)
(* write and the state it ends in. The action properties and the           *)
(* refinement need no more.                                                *)

\* alloc_page is on the first free page, and ends with the list behind it, or
\* with the page adrift that page leads to.
ReuseOnPages ==
  /\ call.at \in {"reuse_page", "reuse_meta"} =>
       /\ freeq # <<>>
       /\ call.index = freeq[1]
       /\ IsAt(call.offset, freeq[1])
       /\ SizeOf(call.meta) = SizeOf(disk[METADATA])
  /\ call.at = "reuse_page" => call.src # NULL \/ SmallStore
  /\ call.at = "reuse_meta" =>
       \/ Len(freeq) > 1 /\ RestOfQueue = Tail(freeq)
       \/ Len(freeq) = 1 /\ RestOfQueue = <<>>
       \/ Len(freeq) = 1 /\ \E p \in adrift : RestOfQueue = <<p>>

\* alloc_page is on the page behind the last one.
ExtendOnPages ==
  call.at \in {"extend_blank", "extend_data", "extend_meta"} =>
    /\ freeq = <<>>
    /\ call.index = SizeOf(disk[METADATA])
    /\ call.index < MaxSize
    /\ IsAt(call.offset, call.index)
    /\ call.at = "extend_data" => call.src # NULL
    /\ call.at = "extend_meta" => SizeOf(call.meta) = SizeOf(disk[METADATA]) + 1

\* free_page is on a page that no client owns; the page it links to its own is
\* the last of the list.
FreeOnPages ==
  /\ call.at \in {"first_page", "first_meta"} => freeq = <<>> /\ call.index \in adrift
  /\ call.at \in {"append_old", "append_page", "append_meta"} =>
       call.index \in adrift \cup Queued
  /\ call.at \in {"first_page", "first_meta", "append_old", "append_page", "append_meta"} =>
       /\ IsAt(call.offset, call.index)
       /\ SizeOf(call.meta) = SizeOf(disk[METADATA])
  /\ call.at = "append_old" /\ Writable(TailOf(call.meta)) =>
       freeq # <<>> /\ IsAt(TailOf(call.meta), freeq[Len(freeq)])

\* What the proofs of the properties need of every state.
Sound == Books /\ ReuseOnPages /\ ExtendOnPages /\ FreeOnPages

\* The facts on the state's parts, once more.
LEMMA SoundFacts ==
  ASSUME Sound
  PROVE  /\ disk \in [Block -> Page] /\ eof \in Nat
         /\ METADATA \in Block
         /\ disk[METADATA] \in Page
         /\ SizeOf(disk[METADATA]) \in 1 .. MaxSize
         /\ freeq \in Seq(1 .. MaxSize)
         /\ Len(freeq) \in Nat
         /\ DOMAIN freeq = 1 .. Len(freeq)
         /\ freeq = <<>> <=> Len(freeq) = 0
         /\ \A i \in 1 .. Len(freeq) :
              freeq[i] \in 1 .. MaxSize /\ freeq[i] < SizeOf(disk[METADATA])
         /\ \A p \in live \cup adrift :
              p \in 1 .. MaxSize /\ p < SizeOf(disk[METADATA])
         /\ MaxSize \in Nat
<1>1. Books
  BY DEF Sound
<1>. QED  BY <1>1, BooksFacts

\* The invariant of safe interruptions says so.
LEMMA InvariantSound ==
  ASSUME IInv, SmallStore
  PROVE  Sound
<1>1. Books
  BY DEF IInv, Books
<1>2. ReuseOnPages
  <2>1. call.at \in {"reuse_page", "reuse_meta"} =>
          /\ freeq # <<>>
          /\ call.index = freeq[1]
          /\ IsAt(call.offset, freeq[1])
          /\ SizeOf(call.meta) = SizeOf(disk[METADATA])
    BY DEF IInv, ReuseInv
  <2>2. call.at = "reuse_meta" =>
          \/ Len(freeq) > 1 /\ RestOfQueue = Tail(freeq)
          \/ Len(freeq) = 1 /\ RestOfQueue = <<>>
          \/ Len(freeq) = 1 /\ \E p \in adrift : RestOfQueue = <<p>>
    BY RestCases
  <2>. QED  BY <2>1, <2>2, SmallStore DEF ReuseOnPages
<1>3. /\ call.meta \in Page /\ disk[METADATA] \in Page /\ call.offset \in Int
      /\ SizeOf(disk[METADATA]) \in Int /\ HeadOf(disk[METADATA]) \in Int
  BY StateFacts, PageWords DEF IInv, TypeOK
<1>4. ExtendOnPages
  BY <1>3, GrownSize DEF IInv, ExtendInv, ExtendOnPages
<1>5. /\ SizeOf(MetaPage(SizeOf(disk[METADATA]), call.offset, call.offset))
           = SizeOf(disk[METADATA])
      /\ SizeOf(MetaPage(SizeOf(disk[METADATA]), HeadOf(disk[METADATA]), call.offset))
           = SizeOf(disk[METADATA])
  BY <1>3, MetaWords
<1>6. FreeOnPages
  <2>1. call.at \in {"first_page", "first_meta"} =>
          /\ freeq = <<>> /\ call.index \in adrift /\ IsAt(call.offset, call.index)
          /\ SizeOf(call.meta) = SizeOf(disk[METADATA])
    BY <1>5 DEF IInv, FirstInv
  <2>2. call.at \in {"append_old", "append_page", "append_meta"} =>
          /\ call.index \in adrift \cup Queued /\ IsAt(call.offset, call.index)
          /\ SizeOf(call.meta) = SizeOf(disk[METADATA])
    BY <1>5 DEF IInv, AppendInv
  <2>3. call.at = "append_old" =>
          freeq # <<>> /\ IsAt(TailOf(call.meta), freeq[Len(freeq)])
    BY AppendFacts DEF IInv, AppendInv
  <2>. QED  BY <2>1, <2>2, <2>3 DEF FreeOnPages
<1>. QED  BY <1>1, <1>2, <1>4, <1>6 DEF Sound

\* The invariant of plain data says so too.
LEMMA PlainSound ==
  ASSUME PlainInv, PlainData
  PROVE  Sound
<1>1. Books
  BY DEF PlainInv, Books
<1>2. /\ call.meta \in Page /\ disk[METADATA] \in Page /\ call.offset \in Int
      /\ SizeOf(disk[METADATA]) \in Int /\ HeadOf(disk[METADATA]) \in Int
  BY <1>1, BooksFacts, PageWords DEF Books, TypeOK
<1>3. ReuseOnPages
  <2>1. call.at \in {"reuse_page", "reuse_meta"} =>
          /\ freeq # <<>>
          /\ call.index = freeq[1]
          /\ IsAt(call.offset, freeq[1])
          /\ SizeOf(call.meta) = SizeOf(disk[METADATA])
          /\ call.src # NULL
    BY DataAssumption DEF PlainInv, PlainReuse
  <2>2. call.at = "reuse_meta" =>
          \/ Len(freeq) > 1 /\ RestOfQueue = Tail(freeq)
          \/ Len(freeq) = 1 /\ RestOfQueue = <<>>
          \/ Len(freeq) = 1 /\ \E p \in adrift : RestOfQueue = <<p>>
    BY PlainRest
  <2>. QED  BY <2>1, <2>2 DEF ReuseOnPages
<1>4. ExtendOnPages
  BY <1>2, DataAssumption, GrownSize DEF PlainInv, PlainExtend, ExtendOnPages
<1>5. /\ SizeOf(MetaPage(SizeOf(disk[METADATA]), call.offset, call.offset))
           = SizeOf(disk[METADATA])
      /\ SizeOf(MetaPage(SizeOf(disk[METADATA]), HeadOf(disk[METADATA]), call.offset))
           = SizeOf(disk[METADATA])
  BY <1>2, MetaWords
<1>6. FreeOnPages
  <2>1. call.at \in {"first_page", "first_meta"} =>
          /\ freeq = <<>> /\ call.index \in adrift /\ IsAt(call.offset, call.index)
          /\ SizeOf(call.meta) = SizeOf(disk[METADATA])
    BY <1>5 DEF PlainInv, PlainFirst
  <2>2. call.at \in {"append_old", "append_page", "append_meta"} =>
          /\ call.index \in adrift \cup Queued /\ IsAt(call.offset, call.index)
          /\ SizeOf(call.meta) = SizeOf(disk[METADATA])
    BY <1>5 DEF PlainInv, PlainAppend
  <2>3. call.at = "append_old" /\ Writable(TailOf(call.meta)) =>
          freeq # <<>> /\ IsAt(TailOf(call.meta), freeq[Len(freeq)])
    BY PlainTail DEF PlainInv, PlainAppend
  <2>. QED  BY <2>1, <2>2, <2>3 DEF FreeOnPages
<1>. QED  BY <1>1, <1>3, <1>4, <1>6 DEF Sound

\* Each call is on the pages it should be, wherever calls may stop.
LEMMA AlwaysSound == ASSUME GoodUse PROVE Spec => []Sound
<1>1. CASE SmallStore /\ SafeUse
  <2>1. Spec => []IInv
    BY <1>1, Invariant
  <2>2. IInv => Sound
    BY <1>1, InvariantSound
  <2>. QED  BY <2>1, <2>2, PTL
<1>2. CASE PlainData
  <2>1. Spec => []PlainInv
    BY <1>2, PlainInvariant
  <2>2. PlainInv => Sound
    BY <1>2, PlainSound
  <2>. QED  BY <2>1, <2>2, PTL
<1>. QED  BY <1>1, <1>2 DEF GoodUse

\* Type correctness of alloc_page, free_page, get_page and put_page.
THEOREM TypeCorrect == ASSUME GoodUse PROVE Spec => []TypeOK
<1>1. Sound => TypeOK
  BY DEF Sound, Books
<1>. QED  BY <1>1, AlwaysSound, PTL

\* No page of the store is lost from the books or in two places at once.
THEOREM PagesAccountedFor == ASSUME GoodUse PROVE Spec => []PagesAccounted
<1>1. Sound => PagesAccounted
  BY DEF Sound, Books
<1>. QED  BY <1>1, AlwaysSound, PTL

-----------------------------------------------------------------------------
(* What a step never does. *)

\* The page alloc_page returns is in the store and nobody owns it.
LEMMA FreshPageStep ==
  ASSUME Sound, Sound', ReuseMeta \/ ExtendMeta
  PROVE  /\ ret'.index \notin live
         /\ ret'.index \in 1 .. SizeOf(disk'[METADATA]) - 1
         /\ ret'.index < eof'
<1>1. Books'
  BY DEF Sound
<1>2. ret'.index = call.index /\ live' = live \cup {call.index}
  BY DEF ReuseMeta, ExtendMeta, Result
<1>3. call.index \notin live
  <2>1. CASE ReuseMeta
    <3>1. call.index \in Queued
      BY <2>1, SoundFacts DEF ReuseMeta, Sound, ReuseOnPages, Queued
    <3>. QED  BY <3>1 DEF Sound, Books, PagesAccounted
  <2>2. CASE ExtendMeta
    BY <2>2, SoundFacts DEF ExtendMeta, Sound, ExtendOnPages
  <2>. QED  BY <2>1, <2>2
<1>4. call.index \in 1 .. SizeOf(disk'[METADATA]) - 1
  BY <1>1, <1>2 DEF Books, PagesAccounted
<1>5. SizeOf(disk'[METADATA]) <= eof' /\ SizeOf(disk'[METADATA]) \in Int /\ eof' \in Int
  BY <1>1, MaxSizeAssumption DEF Books, SizeInv, TypeOK
<1>. QED  BY <1>2, <1>3, <1>4, <1>5

\* alloc_page gives out a page nobody has.
THEOREM FreshPages == ASSUME GoodUse PROVE Spec => AllocGivesFreshPage
<1>1. Sound /\ Sound' /\ [Next]_vars =>
        [ReuseMeta \/ ExtendMeta =>
           /\ ret'.index \notin live
           /\ ret'.index \in 1 .. SizeOf(disk'[METADATA]) - 1
           /\ ret'.index < eof']_vars
  BY FreshPageStep
<1>. QED  BY <1>1, AlwaysSound, PTL DEF Spec, AllocGivesFreshPage

\* A pwrite to page b of the file, which no client owns.
WritesElsewhere ==
  \E b \in Block :
    /\ b # METADATA /\ b \notin live
    /\ \A c \in Block : c # b => disk'[c] = disk[c]

\* A pwrite to a page that is no client's is one.
LEMMA WriteElsewhere ==
  ASSUME Sound, NEW b \in Block, b # METADATA, b \notin live,
         NEW offset, IsAt(offset, b), NEW page \in Page, Pwrite(offset, page)
  PROVE  WritesElsewhere
<1>1. \A c \in Block : c # b => disk'[c] = disk[c]
  BY SoundFacts, PwritePage
<1>. QED  BY <1>1 DEF WritesElsewhere

\* The same, for a page on the list or adrift.
LEMMA WriteFree ==
  ASSUME Sound, NEW p \in Queued \cup adrift, NEW offset, IsAt(offset, p),
         NEW page \in Page, Pwrite(offset, page)
  PROVE  WritesElsewhere
<1>1. p \in Block /\ p # METADATA
  BY SoundFacts, PageInFile, MaxSizeAssumption DEF Queued, METADATA
<1>2. p \notin live
  BY DEF Sound, Books, PagesAccounted
<1>. QED  BY <1>1, <1>2, WriteElsewhere

\* The writes of alloc_page and free_page before the last of a call.
LEMMA PageWrites ==
  ASSUME Sound,
         ReusePage \/ ExtendBlank \/ ExtendData \/ FirstPage \/ AppendOld \/ AppendPage
  PROVE  WritesElsewhere
<1>1. /\ BlankPage \in Page
      /\ call.src # NULL => DataPage(call.src) \in Page
      /\ FreePage(EMPTY_LIST) \in Page /\ FreePage(call.offset) \in Page
  <2>1. call.src \in Data \cup {NULL} /\ call.offset \in Int /\ EMPTY_LIST \in Int
    BY DEF Sound, Books, TypeOK, EMPTY_LIST
  <2>2. call.src # NULL => call.src \in Int
    BY <2>1, DataAssumption
  <2>. QED  BY <2>1, <2>2, PageWords
<1>2. CASE ReusePage
  <2>1. freeq # <<>> /\ IsAt(call.offset, freeq[1]) /\ (call.src # NULL \/ SmallStore)
    BY <1>2 DEF ReusePage, Sound, ReuseOnPages
  <2>2. freeq[1] \in 1 .. MaxSize /\ freeq[1] \in Queued
    <3>1. DOMAIN freeq = 1 .. Len(freeq) /\ 1 \in 1 .. Len(freeq)
      BY <2>1, SoundFacts
    <3>2. freeq[1] \in 1 .. MaxSize
      BY <3>1, SoundFacts
    <3>3. freeq[1] \in Queued
      BY <3>1, Zenon DEF Queued
    <3>. QED  BY <3>2, <3>3
  <2>3. CASE call.src # NULL
    BY <1>1, <1>2, <2>1, <2>2, <2>3, WriteFree DEF ReusePage
  <2>4. CASE call.src = NULL
    <3> DEFINE b == index_to_offset(freeq[1])
    <3>1. b \in Block /\ b >= MaxSize /\ IsAt(index_to_offset(call.offset), b)
      BY <2>1, <2>2, <2>4, StrayBlock DEF IsAt
    <3>2. Pwrite(index_to_offset(call.offset), BlankPage)
      BY <1>2, <2>4 DEF ReusePage
    <3> HIDE DEF b
    <3>3. b # METADATA /\ b \notin live
      <4>1. \A p \in live : p \in Int /\ p < MaxSize
        BY SoundFacts, MaxSizeAssumption
      <4>. QED  BY <3>1, <4>1, BlockNumbers, MaxSizeAssumption DEF METADATA
    <3>. QED  BY <1>1, <3>1, <3>2, <3>3, WriteElsewhere
  <2>. QED  BY <2>3, <2>4
<1>3. CASE ExtendBlank \/ ExtendData
  <2>1. /\ call.index = SizeOf(disk[METADATA]) /\ IsAt(call.offset, call.index)
        /\ call.at = "extend_data" => call.src # NULL
    BY <1>3 DEF ExtendBlank, ExtendData, Sound, ExtendOnPages
  <2>2. call.index \in Block /\ call.index # METADATA /\ call.index \notin live
    BY <2>1, SoundFacts, PageInFile, MaxSizeAssumption DEF METADATA
  <2>. QED  BY <1>1, <1>3, <2>1, <2>2, WriteElsewhere DEF ExtendBlank, ExtendData
<1>4. CASE FirstPage \/ AppendPage
  <2>1. IsAt(call.offset, call.index) /\ call.index \in Queued \cup adrift
    BY <1>4 DEF FirstPage, AppendPage, Sound, FreeOnPages
  <2>. QED  BY <1>1, <1>4, <2>1, WriteFree DEF FirstPage, AppendPage
<1>5. CASE AppendOld
  <2>1. freeq # <<>> /\ IsAt(TailOf(call.meta), freeq[Len(freeq)])
    BY <1>5 DEF AppendOld, Pwrite, Sound, FreeOnPages
  <2>2. freeq[Len(freeq)] \in Queued
    BY <2>1, SoundFacts DEF Queued
  <2>. QED  BY <1>1, <1>5, <2>1, <2>2, WriteFree DEF AppendOld
<1>. QED  BY <1>2, <1>3, <1>4, <1>5

\* put_page writes its page and no other.
LEMMA PutWrites ==
  ASSUME Sound, NEW index \in live, NEW word \in Data, PutPage(index, word)
  PROVE  \A c \in Block : c # index => disk'[c] = disk[c]
<1>1. /\ index \in Block /\ DataPage(word) \in Page
      /\ IsAt(index_to_offset(index), index)
      /\ Pwrite(index_to_offset(index), DataPage(word))
  BY SoundFacts, PageInFile, PageWords, DataAssumption DEF PutPage, IsAt
<1>. QED  BY <1>1, SoundFacts, PwritePage

\* The clients' pages are pages of the file.
LEMMA LiveBlocks ==
  ASSUME Sound, NEW p \in live
  PROVE  p \in Block /\ p # METADATA /\ p \in 1 .. MaxSize
BY SoundFacts, PageInFile, MaxSizeAssumption DEF METADATA

\* The writes of the metadata touch no client's page.
LEMMA MetaKeepsMemory ==
  ASSUME Sound, ReuseMeta \/ ExtendMeta \/ FirstMeta \/ AppendMeta
  PROVE  \A p \in live : disk'[p] = disk[p]
<1>1. call.meta \in Page
  BY DEF Sound, Books, TypeOK
<1>2. Pwrite(index_to_offset(METADATA), call.meta)
  BY DEF ReuseMeta, ExtendMeta, FirstMeta, AppendMeta
<1>. QED  BY <1>1, <1>2, SoundFacts, LiveBlocks, MetaWrite

\* Every step writes a page nobody owns, or the metadata, or is put_page's, or
\* writes nothing.
LEMMA StepWrites ==
  ASSUME Next
  PROVE  \/ ReusePage \/ ExtendBlank \/ ExtendData \/ FirstPage \/ AppendOld \/ AppendPage
         \/ ReuseMeta \/ ExtendMeta \/ FirstMeta \/ AppendMeta
         \/ \E index \in live, word \in Data : PutPage(index, word)
         \/ \E index \in FreeArgument : FreePageCall(index)
         \/ UNCHANGED <<disk, live, freeq, adrift>>
BY DEF Next, Alloc, Free, Access, Fault, AllocReuse, AllocExtend, AllocBadLink,
       Return, GetPage, Refuse, PwriteFails, Crash, IOFails

\* A page that stays with its owner keeps its data, but for put_page.
LEMMA LiveKeptStep ==
  ASSUME Sound, Next,
         NEW p \in live, ~ \E word \in Data : PutPage(p, word)
  PROVE  disk'[p] = disk[p]
<1>1. WritesElsewhere => disk'[p] = disk[p]
  BY LiveBlocks DEF WritesElsewhere
<1>2. (\E index \in live, word \in Data : PutPage(index, word)) => disk'[p] = disk[p]
  BY LiveBlocks, PutWrites
<1>3. (\E index \in FreeArgument : FreePageCall(index)) => disk' = disk
  BY DEF FreePageCall
<1>. QED  BY <1>1, <1>2, <1>3, PageWrites, MetaKeepsMemory, StepWrites

\* No call on one page touches the contents of a page another client owns.
THEOREM LiveDataKept == ASSUME GoodUse PROVE Spec => LivePagesKeepData
<1>1. Sound /\ [Next]_vars =>
        [\A p \in live \cap live' :
           disk'[p] = disk[p] \/ \E word \in Data : PutPage(p, word)]_vars
  BY LiveKeptStep
<1>. QED  BY <1>1, AlwaysSound, PTL DEF Spec, LivePagesKeepData

-----------------------------------------------------------------------------
(* Refinement: every step of FileIO is a step of PageAllocator or none. *)

\* What PageAllocator sees of the size of the store.
LEMMA MetaSizes ==
  ASSUME Sound
  PROVE  /\ ExtendMeta => SizeOf(disk'[METADATA]) = SizeOf(disk[METADATA]) + 1
         /\ ReuseMeta \/ FirstMeta \/ AppendMeta =>
              SizeOf(disk'[METADATA]) = SizeOf(disk[METADATA])
<1>1. call.meta \in Page
  BY DEF Sound, Books, TypeOK
<1>2. ReuseMeta \/ FirstMeta \/ AppendMeta \/ ExtendMeta => disk'[METADATA] = call.meta
  BY <1>1, SoundFacts, MetaWrite DEF ReuseMeta, FirstMeta, AppendMeta, ExtendMeta
<1>3. ReuseMeta \/ FirstMeta \/ AppendMeta => SizeOf(call.meta) = SizeOf(disk[METADATA])
  BY DEF ReuseMeta, FirstMeta, AppendMeta, Sound, ReuseOnPages, FreeOnPages
<1>4. ExtendMeta => SizeOf(call.meta) = SizeOf(disk[METADATA]) + 1
  BY DEF ExtendMeta, Sound, ExtendOnPages
<1>. QED  BY <1>2, <1>3, <1>4

\* A step that neither moves a page nor writes the metadata or a client's page.
Unseen ==
  /\ UNCHANGED <<live, freeq, adrift>>
  /\ disk'[METADATA] = disk[METADATA]

\* The writes before the last of a call leave what PageAllocator sees.
LEMMA UnseenSteps ==
  ASSUME Sound, Next
  PROVE  \/ Unseen
         \/ \E index \in FreeArgument : FreePageCall(index)
         \/ ReuseMeta \/ ExtendMeta \/ FirstMeta \/ AppendMeta
<1>1. WritesElsewhere => disk'[METADATA] = disk[METADATA]
  BY SoundFacts DEF WritesElsewhere
<1>2. CASE ReusePage \/ ExtendBlank \/ ExtendData \/ FirstPage \/ AppendOld \/ AppendPage
  BY <1>1, <1>2, PageWrites
     DEF Unseen, ReusePage, ExtendBlank, ExtendData, FirstPage, AppendOld, AppendPage
<1>3. CASE \E index \in live, word \in Data : PutPage(index, word)
  BY <1>3, SoundFacts, LiveBlocks, PutWrites DEF PutPage, Unseen
<1>4. CASE UNCHANGED <<disk, live, freeq, adrift>>
  BY <1>4 DEF Unseen
<1>. QED  BY <1>2, <1>3, <1>4, StepWrites

\* The clients' pages as PageAllocator sees them.
memory == [p \in live |-> disk[p]]

\* Those steps, and the calls that change one page, map to PageAllocator.
LEMMA UnseenRefines ==
  ASSUME Sound, Next, Unseen
  PROVE  Allocator!Write \/ UNCHANGED Allocator!vars
<1>1. CASE \E index \in live, word \in Data : PutPage(index, word)
  <2>1. PICK index \in live, word \in Data : PutPage(index, word)
    BY <1>1
  <2>2. \A p \in live \ {index} : disk'[p] = disk[p]
    BY <2>1, LiveBlocks, PutWrites
  <2>. QED
    BY <2>1, <2>2 DEF Unseen, Allocator!Write, Allocator!Owned, Allocator!Untouched
<1>2. CASE ~ \E index \in live, word \in Data : PutPage(index, word)
  <2>1. \A p \in live : disk'[p] = disk[p]
    BY <1>2, LiveKeptStep
  <2>2. memory' = memory
    BY <2>1 DEF Unseen, memory
  <2>. QED  BY <2>2 DEF Unseen, memory, Allocator!vars
<1>. QED  BY <1>1, <1>2

\* The start of free_page is Release, or a stutter for a free page.
LEMMA FreePageCallRefines ==
  ASSUME Sound, Client # "any", NEW index \in FreeArgument, FreePageCall(index)
  PROVE  Allocator!Release \/ UNCHANGED Allocator!vars
<1>1. /\ live' = live \ {index}
      /\ adrift' = adrift \cup ({index} \ Queued)
      /\ UNCHANGED <<disk, freeq>>
  BY DEF FreePageCall
<1>2. index \in live \cup Queued
  BY ModeAssumption DEF SafeUse, FreeArgument
<1>3. CASE index \in live
  <2>1. index \notin Queued
    BY <1>3 DEF Sound, Books, PagesAccounted
  <2>. QED
    BY <1>1, <1>3, <2>1 DEF Allocator!Release, Allocator!Owned, Allocator!Untouched
<1>4. CASE index \in Queued
  <2>1. live' = live /\ adrift' = adrift
    BY <1>1, <1>4 DEF Sound, Books, PagesAccounted
  <2>2. memory' = memory
    BY <1>1, <2>1 DEF memory
  <2>. QED  BY <1>1, <2>1, <2>2 DEF memory, Allocator!vars
<1>. QED  BY <1>2, <1>3, <1>4

\* The last write of alloc_page from the list is Reuse.
LEMMA ReuseMetaRefines ==
  ASSUME Sound, Next, ReuseMeta
  PROVE  Allocator!Reuse
<1>1. /\ call.at = "reuse_meta"
      /\ live' = live \cup {call.index}
      /\ freeq' = RestOfQueue
      /\ adrift' = adrift \ {RestOfQueue[i] : i \in DOMAIN RestOfQueue}
  BY DEF ReuseMeta
<1>2. /\ freeq # <<>> /\ freeq \in Seq(1 .. MaxSize)
      /\ Len(freeq) \in Nat \ {0} /\ DOMAIN freeq = 1 .. Len(freeq)
      /\ call.index = freeq[1] /\ Head(freeq) = freeq[1]
  BY <1>1, SoundFacts DEF Sound, ReuseOnPages
<1>3. /\ SizeOf(disk'[METADATA]) = SizeOf(disk[METADATA])
      /\ \A p \in live : disk'[p] = disk[p]
  BY MetaSizes, MetaKeepsMemory
<1>4. \/ freeq' = Tail(freeq) /\ adrift' = adrift
      \/ /\ Len(freeq) = 1
         /\ \E p \in adrift : freeq' = <<p>> /\ adrift' = adrift \ {p}
  <2>1. CASE Len(freeq) > 1 /\ RestOfQueue = Tail(freeq)
    <3>1. /\ Len(Tail(freeq)) = Len(freeq) - 1 /\ Tail(freeq) \in Seq(1 .. MaxSize)
          /\ \A i \in 1 .. Len(Tail(freeq)) : Tail(freeq)[i] = freeq[i + 1]
      BY <1>2, HeadTailProperties
    <3>2. DOMAIN Tail(freeq) = 1 .. Len(freeq) - 1
      BY <3>1, LenProperties
    <3>3. \A i \in DOMAIN Tail(freeq) : Tail(freeq)[i] \in Queued
      BY <1>2, <3>1, <3>2, BelowLast DEF Queued
    <3>. QED  BY <1>1, <2>1, <3>3 DEF Sound, Books, PagesAccounted
  <2>2. CASE Len(freeq) = 1 /\ RestOfQueue = <<>>
    <3>1. Tail(freeq) = <<>>
      <4>1. Len(Tail(freeq)) = 0 /\ Tail(freeq) \in Seq(1 .. MaxSize)
        BY <1>2, <2>2, HeadTailProperties
      <4>. QED  BY <4>1, EmptySeq
    <3>. QED  BY <1>1, <2>2, <3>1
  <2>3. CASE Len(freeq) = 1 /\ \E p \in adrift : RestOfQueue = <<p>>
    BY <1>1, <2>3
  <2>. QED  BY <1>1, <2>1, <2>2, <2>3 DEF Sound, ReuseOnPages
<1>. QED
  BY <1>1, <1>2, <1>3, <1>4 DEF Allocator!Reuse, Allocator!Owned, Allocator!Untouched

\* The last write of alloc_page that grows the store is Extend.
LEMMA ExtendMetaRefines ==
  ASSUME Sound, Next, ExtendMeta
  PROVE  Allocator!Extend
<1>1. freeq = <<>> /\ call.index = SizeOf(disk[METADATA])
  BY DEF ExtendMeta, Sound, ExtendOnPages
<1>2. /\ SizeOf(disk'[METADATA]) = SizeOf(disk[METADATA]) + 1
      /\ \A p \in live : disk'[p] = disk[p]
  BY MetaSizes, MetaKeepsMemory
<1>. QED
  BY <1>1, <1>2 DEF ExtendMeta, Allocator!Extend, Allocator!Owned, Allocator!Untouched

\* The last write of free_page to an empty list is Enqueue.
LEMMA FirstMetaRefines ==
  ASSUME Sound, Next, FirstMeta
  PROVE  Allocator!Enqueue
<1>1. /\ freeq = <<>> /\ call.index \in adrift
      /\ freeq' = <<call.index>> /\ adrift' = adrift \ {call.index} /\ live' = live
  BY DEF FirstMeta, Sound, FreeOnPages
<1>2. freeq' = Append(freeq, call.index)
  BY <1>1
<1>3. /\ SizeOf(disk'[METADATA]) = SizeOf(disk[METADATA])
      /\ \A p \in live : disk'[p] = disk[p]
  BY MetaSizes, MetaKeepsMemory
<1>4. memory' = memory
  BY <1>1, <1>3 DEF memory
<1>. QED  BY <1>1, <1>2, <1>3, <1>4 DEF memory, Allocator!Enqueue

\* The last write of free_page to a list is Enqueue or Requeue.
LEMMA AppendMetaRefines ==
  ASSUME Sound, Next, AppendMeta
  PROVE  Allocator!Enqueue \/ Allocator!Requeue
<1>1. call.index \in adrift \cup Queued /\ live' = live
  BY DEF AppendMeta, Sound, FreeOnPages
<1>2. /\ SizeOf(disk'[METADATA]) = SizeOf(disk[METADATA])
      /\ \A p \in live : disk'[p] = disk[p]
  BY MetaSizes, MetaKeepsMemory
<1>3. memory' = memory
  BY <1>1, <1>2 DEF memory
<1>4. CASE call.index \notin Queued
  BY <1>1, <1>2, <1>3, <1>4 DEF AppendMeta, memory, Allocator!Enqueue
<1>5. CASE call.index \in Queued
  BY <1>2, <1>3, <1>5 DEF AppendMeta, memory, Allocator!Requeue
<1>. QED  BY <1>4, <1>5

\* fileio.c implements PageAllocator: the file is a faithful store of the
\* clients' pages and of the queue of free ones.
THEOREM Implements == ASSUME GoodUse PROVE Spec => Refines
<1>1. Init => Allocator!Init
  <2> SUFFICES ASSUME Init PROVE Allocator!Init
    OBVIOUS
  <2>1. SizeOf(disk[METADATA]) = 1
    BY PageInFile, MaxSizeAssumption, MetaWords DEF Init, METADATA, EMPTY_LIST
  <2>. QED  BY <2>1 DEF Init, Allocator!Init
<1>2. Sound /\ [Next]_vars => [Allocator!Next]_(Allocator!vars)
  <2> SUFFICES ASSUME Sound, [Next]_vars
               PROVE  Allocator!Next \/ UNCHANGED Allocator!vars
    OBVIOUS
  <2>0. Client # "any"
    BY DEF GoodUse, SafeUse, PlainData
  <2>1. CASE Next
    BY <2>0, <2>1, UnseenSteps, UnseenRefines, FreePageCallRefines, ReuseMetaRefines,
       ExtendMetaRefines, FirstMetaRefines, AppendMetaRefines DEF Allocator!Next
  <2>2. CASE UNCHANGED vars
    <3>1. memory' = memory
      BY <2>2 DEF vars, memory
    <3>. QED  BY <2>2, <3>1 DEF vars, memory, Allocator!vars
  <2>. QED  BY <2>1, <2>2
<1>. QED  BY <1>1, <1>2, AlwaysSound, PTL DEF Spec, Refines, Allocator!Spec

\* As long as a call runs, only its last and successful step writes the metadata.
LEMMA MetadataLastStep ==
  ASSUME Sound, Next, disk'[METADATA] # disk[METADATA]
  PROVE  call' = Idle /\ ret'.status = "STATUS_OK"
<1>1. ~Unseen
  BY DEF Unseen
<1>2. ~ \E index \in FreeArgument : FreePageCall(index)
  BY DEF FreePageCall
<1>3. ReuseMeta \/ ExtendMeta \/ FirstMeta \/ AppendMeta
  BY <1>1, <1>2, UnseenSteps
<1>. QED  BY <1>3 DEF ReuseMeta, ExtendMeta, FirstMeta, AppendMeta, Result

\* The metadata on disk is that of the last call that succeeded, until a call
\* succeeds.
THEOREM MetadataLast == ASSUME GoodUse PROVE Spec => MetadataWrittenLast
<1>1. Sound /\ [Next]_vars =>
        [call.at # "idle" /\ disk'[METADATA] # disk[METADATA] =>
           call' = Idle /\ ret'.status = "STATUS_OK"]_vars
  BY MetadataLastStep
<1>. QED  BY <1>1, AlwaysSound, PTL DEF Spec, MetadataWrittenLast

=============================================================================
