------------------------ MODULE BufferManager_proofs ------------------------
(***************************************************************************)
(* The pool of BufferManager for every number of frames: its invariants,   *)
(* and that a walk marks no frame clean that the store does not hold.      *)
(***************************************************************************)
EXTENDS BufferManager, TLAPS

\* There is a frame 0, and Nil is no frame.
LEMMA FirstFrame == 0 \in Frames /\ Nil \notin Frames /\ 0 # Nil
BY PoolAssumption DEF Frames, Nil

\* What a client has pinned is frame 0.
LEMMA HeldFrame ==
  ASSUME IInv, NEW f \in Frames, held[f] > 0
  PROVE  f = 0
<1>1. f # 0 => held[f] = 0
  BY DEF IInv, SingleFrame
<1>. QED  BY <1>1

\* What the parts of the invariant say of frame 0 and its neighbours.
LEMMA PoolFacts ==
  ASSUME IInv
  PROVE  /\ freelist = 0
         /\ meta[0] \in MetaFrame
         /\ held[0] \in Nat
         /\ \A f \in Frames \ {0} :
              meta[f] = InitialFrame(f) /\ buf[f] = Blank /\ held[f] = 0
BY FirstFrame DEF IInv, SingleFrame, TypeOK

\* The process starts with the frames linked and nothing listed.
LEMMA InitInvariant == Init => IInv
<1> SUFFICES ASSUME Init PROVE IInv
  OBVIOUS
<1>1. \A f \in Frames : InitialFrame(f) \in MetaFrame
  BY PoolAssumption
  DEF InitialFrame, MetaFrame, Frames, Pointers, Nil, States, FS_UNPINNED
<1>2. TypeOK
  <2>1. meta \in [Frames -> MetaFrame]
    BY <1>1 DEF Init
  <2>. QED
    BY <2>1, FirstFrame DEF Init, TypeOK, Pointers, Contents, Result
<1>3. SingleFrame
  BY DEF Init, SingleFrame
<1>4. meta[0].state = FS_UNPINNED /\ (N > 1 => meta[0].next = 1)
  BY FirstFrame, PoolAssumption DEF Init, InitialFrame
<1>. QED
  BY <1>2, <1>3, <1>4, FirstFrame
  DEF Init, IInv, Nil, FS_UNPINNED, FS_UNPINNED_DIRTY, CrashNeedsTwoAddresses

\* A call that leaves the pool as it is keeps the invariant.
LEMMA PoolUnchanged ==
  ASSUME IInv, TypeOK', cursor' \in {writeback, Nil},
         UNCHANGED <<meta, freelist, writeback, table, buf, held>>,
         at' # "crashed" \/ UNCHANGED at
  PROVE  IInv'
<1>1. SingleFrame'
  BY DEF IInv, SingleFrame
<1>2. CrashNeedsTwoAddresses'
  BY DEF IInv, CrashNeedsTwoAddresses
<1>. QED  BY <1>1, <1>2 DEF IInv

\* Pages are numbered from 1: none is the metadata page.
LEMMA PagesNumbered == \A p \in Pages : p # METADATA
BY PoolAssumption DEF Pages, METADATA

\* buff_pin, by itself or in buff_alloc_frame.
LEMMA PinStep ==
  ASSUME IInv, NEW slot \in Slots, NEW page \in Pages, NEW content \in Contents,
         at = "idle", Pin(slot, page, content),
         UNCHANGED <<freelist, writeback, cursor>>,
         disk' \in [Pages -> Contents], owned' \subseteq Pages
  PROVE  IInv'
<1>0. freelist = 0 /\ freelist # Nil
  BY PoolFacts, FirstFrame
<1>1. CASE PinHit(slot)
  <2>1. TypeOK'
    BY <1>0, <1>1, FirstFrame DEF PinHit, IInv, TypeOK, Result, Pointers
  <2>2. SingleFrame'
    BY <1>0, <1>1, FirstFrame DEF PinHit, IInv, TypeOK, SingleFrame
  <2>. QED
    BY <1>1, <2>1, <2>2 DEF PinHit, IInv, CrashNeedsTwoAddresses
<1>2. CASE PinFails(slot)
  <2>1. TypeOK'
    BY <1>2, FirstFrame DEF PinFails, IInv, TypeOK, Result, Pointers
  <2>2. SingleFrame'
    BY <1>2 DEF PinFails, IInv, SingleFrame
  <2>. QED
    BY <1>2, <2>1, <2>2 DEF PinFails, IInv, CrashNeedsTwoAddresses
<1>3. CASE PinFetch(slot, page, content)
  <2>1. /\ slot \notin table /\ table' = table \cup {slot}
        /\ buf' = [buf EXCEPT ![0] = content]
    BY <1>0, <1>3 DEF PinFetch
  <2>2. CASE meta[0].next = Nil
    <3>1. at' = "crashed" /\ UNCHANGED <<meta, ret, held>>
      BY <1>0, <1>3, <2>2 DEF PinFetch
    <3>2. TypeOK'
      BY <2>1, <3>1, FirstFrame DEF IInv, TypeOK
    <3>3. SingleFrame'
      BY <2>1, <3>1, FirstFrame DEF IInv, TypeOK, SingleFrame
    <3>4. CrashNeedsTwoAddresses'
      BY <2>1, <2>2 DEF IInv, CrashNeedsTwoAddresses
    <3>. QED  BY <2>1, <3>1, <3>2, <3>3, <3>4 DEF IInv
  <2>3. CASE meta[0].next # Nil
    <3> DEFINE next == meta[0].next
               pinned == [meta[next] EXCEPT !.state = FS_PINNED, !.index = page]
    <3>1. /\ meta' = [meta EXCEPT ![0] = pinned]
          /\ held' = [held EXCEPT ![0] = @ + 1]
          /\ ret' = Result("STATUS_OK", 0)
          /\ UNCHANGED at
      BY <1>0, <1>3, <2>3 DEF PinFetch
    <3>2. next \in Frames /\ meta[next] \in MetaFrame
      BY <2>3, PoolFacts DEF MetaFrame, Pointers, IInv, TypeOK
    <3>3. /\ pinned \in MetaFrame
          /\ pinned.state = FS_PINNED /\ pinned.index = page
          /\ pinned.next = meta[next].next
      BY <3>2 DEF MetaFrame, States
    <3> HIDE DEF pinned
    <3>4. TypeOK'
      BY <2>1, <3>1, <3>3, FirstFrame DEF IInv, TypeOK, Result, Pointers
    <3>5. SingleFrame'
      BY <2>1, <3>1, FirstFrame DEF IInv, TypeOK, SingleFrame
    <3>6. meta'[0] = pinned
      BY <3>1, FirstFrame DEF IInv, TypeOK
    <3>7. writeback = 0 => next = 0
      BY <2>3 DEF IInv
    <3>8. page # METADATA
      BY PagesNumbered
    <3>. QED
      BY <2>1, <3>1, <3>3, <3>4, <3>5, <3>6, <3>7, <3>8
      DEF IInv, CrashNeedsTwoAddresses, FS_PINNED, FS_UNPINNED_DIRTY, FS_UNPINNED
  <2>. QED  BY <2>2, <2>3
<1>. QED  BY <1>0, <1>1, <1>2, <1>3 DEF Pin

\* buff_pin of a page a client owns.
LEMMA BuffPinStep ==
  ASSUME IInv, NEW slot \in Slots, NEW page \in owned, BuffPin(slot, page)
  PROVE  IInv'
<1>1. page \in Pages /\ disk[page] \in Contents
  BY DEF IInv, TypeOK
<1>. QED  BY <1>1, PinStep DEF BuffPin, IInv, TypeOK

\* buff_alloc_frame: the page is the client's, whatever becomes of the pin.
LEMMA BuffAllocFrameStep ==
  ASSUME IInv, NEW slot \in Slots, NEW page \in Pages, BuffAllocFrame(slot, page)
  PROVE  IInv'
<1> DEFINE content == IF disk[page] = Absent THEN Blank ELSE disk[page]
<1>1. content \in Contents
  BY DEF IInv, TypeOK, Contents
<1>2. /\ at = "idle" /\ Pin(slot, page, content)
      /\ UNCHANGED <<freelist, writeback, cursor>>
      /\ disk' = [disk EXCEPT ![page] = content]
      /\ owned' = owned \cup {page}
  BY DEF BuffAllocFrame
<1> HIDE DEF content
<1>3. disk' \in [Pages -> Contents] /\ owned' \subseteq Pages
  BY <1>1, <1>2 DEF IInv, TypeOK
<1>. QED  BY <1>1, <1>2, <1>3, PinStep

\* A call that changes nothing.
LEMMA ReturnStep ==
  ASSUME IInv, NEW status, Return(status)
  PROVE  IInv'
<1>1. TypeOK'
  BY DEF Return, IInv, TypeOK, Result, Pointers
<1>. QED  BY <1>1, PoolUnchanged DEF Return, IInv

\* A clean unpin of frame 0 leaves it first on the free list, before itself.
LEMMA UnpinCleanStep ==
  ASSUME IInv, UnpinClean(0)
  PROVE  /\ freelist' = 0 /\ writeback' = writeback
         /\ meta' \in [Frames -> MetaFrame]
         /\ meta'[0].state = FS_UNPINNED /\ meta'[0].next = 0
         /\ meta'[0].index = meta[0].index
         /\ \A f \in Frames \ {0} : meta'[f] = meta[f]
<1>1. /\ freelist' = 0 /\ writeback' = writeback
      /\ meta' = [meta EXCEPT ![0].state = FS_UNPINNED, ![0].next = 0]
  BY PoolFacts DEF UnpinClean
<1>2. meta \in [Frames -> MetaFrame] /\ meta[0] \in MetaFrame
  BY PoolFacts DEF IInv, TypeOK
<1>. QED  BY <1>1, <1>2, FirstFrame DEF MetaFrame, Pointers, States

\* A dirty unpin of frame 0 leaves it first on the list to write back.
LEMMA UnpinDirtyStep ==
  ASSUME IInv, UnpinDirty(0)
  PROVE  /\ freelist' = freelist /\ writeback' = 0
         /\ meta' \in [Frames -> MetaFrame]
         /\ meta'[0].state = FS_UNPINNED_DIRTY /\ meta'[0].next = writeback
         /\ meta'[0].index = meta[0].index
         /\ \A f \in Frames \ {0} : meta'[f] = meta[f]
<1>1. /\ freelist' = freelist /\ writeback' = 0
      /\ meta' = [meta EXCEPT ![0].state = FS_UNPINNED_DIRTY, ![0].next = writeback]
  BY DEF UnpinDirty
<1>2. /\ meta \in [Frames -> MetaFrame] /\ meta[0] \in MetaFrame
      /\ writeback \in Pointers
  BY PoolFacts DEF IInv, TypeOK
<1>. QED  BY <1>1, <1>2, FirstFrame DEF MetaFrame, States

\* What every step after a pin does to the invariant: frame 0 changes its
\* state and its list, and the client gives one pin back or keeps it.
LEMMA FrameStep ==
  ASSUME IInv, TypeOK', freelist' = 0, writeback' \in {0, Nil},
         writeback = 0 => writeback' = 0,
         \A f \in Frames \ {0} : meta'[f] = meta[f] /\ held'[f] = held[f],
         UNCHANGED <<table, buf, at, cursor>>,
         meta'[0].index = meta[0].index,
         meta'[0].state = FS_UNPINNED_DIRTY => writeback' = 0,
         meta'[0].state # FS_UNPINNED \/ writeback' = 0 =>
           meta[0].state # FS_UNPINNED \/ writeback = 0,
         writeback' = 0 => meta'[0].next \in {0, Nil},
         meta'[0].next = Nil => meta[0].next = Nil \/ meta[0].state # FS_UNPINNED
  PROVE  IInv'
<1>1. SingleFrame'
  BY PoolFacts DEF SingleFrame
<1>2. CrashNeedsTwoAddresses'
  BY DEF IInv, CrashNeedsTwoAddresses
<1>3. cursor' \in {writeback', Nil}
  BY DEF IInv, SingleFrame
<1>4. meta'[0].state # FS_UNPINNED \/ writeback' = 0 =>
        meta'[0].index # METADATA /\ table' # {}
  BY DEF IInv
<1>5. meta'[0].next = Nil /\ N > 1 => table' # {}
  BY DEF IInv
<1>. QED  BY <1>1, <1>2, <1>3, <1>4, <1>5 DEF IInv

\* buff_unpin.
LEMMA BuffUnpinStep ==
  ASSUME IInv, NEW f \in Frames, BuffUnpin(f)
  PROVE  IInv'
<1>1. f = 0
  BY HeldFrame DEF BuffUnpin
<1>2. /\ held' = [held EXCEPT ![0] = @ - 1] /\ held[0] > 0
      /\ UNCHANGED <<table, buf, disk, owned, at, cursor>>
  BY <1>1 DEF BuffUnpin
<1>3. held' \in [Frames -> Nat] /\ \A g \in Frames \ {0} : held'[g] = held[g]
  BY <1>2, FirstFrame DEF IInv, TypeOK
<1>4. CASE meta[0].state = FS_PINNED
  <2>1. UnpinClean(0) /\ ret' = Result("STATUS_OK", Nil)
    BY <1>1, <1>4 DEF BuffUnpin, FS_PINNED, FS_PINNED_DIRTY
  <2>2. TypeOK'
    BY <1>2, <1>3, <2>1, UnpinCleanStep, FirstFrame
    DEF IInv, TypeOK, Result, Pointers
  <2>. QED
    BY <1>2, <1>3, <2>1, <2>2, UnpinCleanStep, FirstFrame, FrameStep
    DEF IInv, SingleFrame, FS_UNPINNED, FS_UNPINNED_DIRTY
<1>5. CASE meta[0].state = FS_PINNED_DIRTY
  <2>1. UnpinDirty(0) /\ ret' = Result("STATUS_OK", Nil)
    BY <1>1, <1>5 DEF BuffUnpin, FS_PINNED, FS_PINNED_DIRTY
  <2>2. TypeOK'
    BY <1>2, <1>3, <2>1, UnpinDirtyStep, FirstFrame
    DEF IInv, TypeOK, Result, Pointers
  <2>. QED
    BY <1>2, <1>3, <1>5, <2>1, <2>2, UnpinDirtyStep, FirstFrame, FrameStep
    DEF IInv, SingleFrame, FS_UNPINNED, FS_PINNED_DIRTY
<1>6. CASE meta[0].state \notin {FS_PINNED, FS_PINNED_DIRTY}
  <2>1. /\ ret' = Result("STATUS_ERR", Nil)
        /\ UNCHANGED <<meta, freelist, writeback>>
    BY <1>1, <1>6 DEF BuffUnpin
  <2>2. TypeOK'
    BY <1>2, <1>3, <2>1 DEF IInv, TypeOK, Result, Pointers
  <2>. QED
    BY <1>2, <1>3, <2>1, <2>2, FrameStep DEF IInv, SingleFrame
<1>. QED  BY <1>4, <1>5, <1>6

\* buff_free_frame: a clean unpin, whatever becomes of the page.
LEMMA BuffFreeFrameStep ==
  ASSUME IInv, NEW f \in Frames, BuffFreeFrame(f)
  PROVE  IInv'
<1>1. f = 0
  BY HeldFrame DEF BuffFreeFrame
<1>2. /\ held' = [held EXCEPT ![0] = @ - 1] /\ held[0] > 0
      /\ UnpinClean(0)
      /\ UNCHANGED <<table, buf, at, cursor>>
  BY <1>1 DEF BuffFreeFrame
<1>3. held' \in [Frames -> Nat] /\ \A g \in Frames \ {0} : held'[g] = held[g]
  BY <1>2, FirstFrame DEF IInv, TypeOK
<1>4. disk' \in [Pages -> Contents] /\ owned' \subseteq Pages /\ ret'.frame = Nil
  BY DEF BuffFreeFrame, IInv, TypeOK, Contents, Result
<1>5. TypeOK'
  BY <1>2, <1>3, <1>4, UnpinCleanStep, FirstFrame DEF IInv, TypeOK, Pointers
<1>. QED
  BY <1>2, <1>3, <1>5, UnpinCleanStep, FirstFrame, FrameStep
  DEF IInv, SingleFrame, FS_UNPINNED, FS_UNPINNED_DIRTY

\* buff_mark_page: a frame that is in use stays in use.
LEMMA BuffMarkPageStep ==
  ASSUME IInv, NEW f \in Frames, BuffMarkPage(f)
  PROVE  IInv'
<1>1. f = 0
  BY HeldFrame DEF BuffMarkPage
<1>2. UNCHANGED <<freelist, writeback, table, buf, disk, owned, held, at, cursor>>
  BY DEF BuffMarkPage
<1>3. CASE meta[0].state \in {FS_PINNED, FS_PINNED_DIRTY}
  <2>1. /\ meta' = [meta EXCEPT ![0].state = FS_PINNED_DIRTY]
        /\ ret' = Result("STATUS_OK", Nil)
    BY <1>1, <1>3 DEF BuffMarkPage
  <2>2. meta \in [Frames -> MetaFrame] /\ meta[0] \in MetaFrame
    BY PoolFacts DEF IInv, TypeOK
  <2>3. /\ meta' \in [Frames -> MetaFrame]
        /\ meta'[0].state = FS_PINNED_DIRTY
        /\ meta'[0].next = meta[0].next /\ meta'[0].index = meta[0].index
        /\ \A g \in Frames \ {0} : meta'[g] = meta[g]
    BY <2>1, <2>2, FirstFrame DEF MetaFrame, States
  <2>4. TypeOK'
    BY <1>2, <2>1, <2>3 DEF IInv, TypeOK, Result, Pointers
  <2>. QED
    BY <1>2, <1>3, <2>3, <2>4, FrameStep
    DEF IInv, SingleFrame, FS_PINNED, FS_PINNED_DIRTY, FS_UNPINNED, FS_UNPINNED_DIRTY
<1>4. CASE meta[0].state \notin {FS_PINNED, FS_PINNED_DIRTY}
  <2>1. ret' = Result("STATUS_MARK_ERR", Nil) /\ UNCHANGED meta
    BY <1>1, <1>4 DEF BuffMarkPage
  <2>2. TypeOK'
    BY <1>2, <2>1 DEF IInv, TypeOK, Result, Pointers
  <2>. QED  BY <1>2, <2>1, <2>2, PoolUnchanged DEF IInv
<1>. QED  BY <1>3, <1>4

\* The client writes into frame 0 only.
LEMMA ClientWritesStep ==
  ASSUME IInv, NEW f \in Frames, NEW data \in Data, ClientWrites(f, data)
  PROVE  IInv'
<1>1. f = 0
  BY HeldFrame DEF ClientWrites
<1>2. /\ buf' = [buf EXCEPT ![0] = data]
      /\ UNCHANGED <<meta, freelist, writeback, table, disk, owned, held, ret, at, cursor>>
  BY <1>1 DEF ClientWrites
<1>3. TypeOK'
  BY <1>2, FirstFrame DEF IInv, TypeOK, Contents
<1>4. SingleFrame'
  BY <1>2, FirstFrame DEF IInv, TypeOK, SingleFrame
<1>5. CrashNeedsTwoAddresses'
  BY <1>2 DEF IInv, CrashNeedsTwoAddresses
<1>. QED  BY <1>2, <1>3, <1>4, <1>5 DEF IInv

\* A walk starts at the list to write back.
LEMMA StartWalkStep ==
  ASSUME IInv, NEW walk \in {"flush", "destroy"}, StartWalk(walk)
  PROVE  IInv'
<1>1. TypeOK'
  BY DEF StartWalk, IInv, TypeOK
<1>. QED  BY <1>1, PoolUnchanged DEF StartWalk

\* A walk is at frame 0, which has a page; the next frame is 0 or none.
LEMMA WriteBackFacts ==
  ASSUME IInv, WriteBack
  PROVE  /\ cursor = 0 /\ writeback = 0
         /\ meta[0].index \in Pages /\ table # {}
         /\ cursor' = meta[0].next /\ cursor' \in {0, Nil}
<1>1. cursor = 0 /\ writeback = 0
  BY DEF WriteBack, IInv, SingleFrame
<1>2. meta[0].index \in Pages /\ table # {}
  BY <1>1, PoolFacts DEF IInv, MetaFrame
<1>. QED  BY <1>1, <1>2 DEF WriteBack, IInv

\* One step of a walk, whether the page is written or not.
LEMMA WriteBackStep ==
  ASSUME IInv, WriteBack
  PROVE  IInv'
<1>1. UNCHANGED <<freelist, writeback, table, buf, owned, held, ret, at>>
  BY DEF WriteBack
<1>2. CASE UNCHANGED <<disk, meta>>
  <2>1. TypeOK'
    BY <1>1, <1>2, WriteBackFacts, FirstFrame DEF IInv, TypeOK, Pointers
  <2>. QED  BY <1>1, <1>2, <2>1, WriteBackFacts, PoolUnchanged
<1>3. CASE /\ disk' = [disk EXCEPT ![meta[0].index] = buf[0]]
           /\ meta' = [meta EXCEPT ![0].state = FS_UNPINNED]
  <2>1. meta \in [Frames -> MetaFrame] /\ meta[0] \in MetaFrame
    BY PoolFacts DEF IInv, TypeOK
  <2>2. /\ meta' \in [Frames -> MetaFrame]
        /\ meta'[0].state = FS_UNPINNED
        /\ meta'[0].next = meta[0].next /\ meta'[0].index = meta[0].index
        /\ \A g \in Frames \ {0} : meta'[g] = meta[g]
    BY <1>3, <2>1, FirstFrame DEF MetaFrame, States
  <2>3. disk' \in [Pages -> Contents]
    BY <1>3, FirstFrame DEF IInv, TypeOK
  <2>4. TypeOK'
    BY <1>1, <2>2, <2>3, WriteBackFacts, FirstFrame DEF IInv, TypeOK, Pointers
  <2>5. SingleFrame'
    BY <1>1, <2>2, PoolFacts DEF IInv, SingleFrame
  <2>6. CrashNeedsTwoAddresses'
    BY <1>1 DEF IInv, CrashNeedsTwoAddresses
  <2>. QED
    BY <1>1, <2>2, <2>4, <2>5, <2>6, WriteBackFacts, FirstFrame
    DEF IInv, FS_UNPINNED, FS_UNPINNED_DIRTY
<1>. QED  BY <1>2, <1>3, WriteBackFacts DEF WriteBack

\* A walk ends; the process may end with it, but not by a crash.
LEMMA WalkEndsStep ==
  ASSUME IInv, WalkEnds
  PROVE  IInv'
<1>1. TypeOK'
  BY DEF WalkEnds, IInv, TypeOK, Result, Pointers
<1>. QED  BY <1>1, PoolUnchanged DEF WalkEnds, IInv

\* Every step keeps the invariant.
LEMMA NextInvariant == IInv /\ [Next]_vars => IInv'
<1> SUFFICES ASSUME IInv, [Next]_vars PROVE IInv'
  OBVIOUS
<1>1. CASE UNCHANGED vars
  <2>1. TypeOK'
    BY <1>1 DEF vars, IInv, TypeOK
  <2>. QED  BY <1>1, <2>1, PoolUnchanged DEF vars, IInv
<1>2. CASE Next
  <2>1. CASE \E slot \in Slots, page \in owned : BuffPin(slot, page)
    BY <2>1, BuffPinStep
  <2>2. CASE \E slot \in Slots, page \in Pages : BuffAllocFrame(slot, page)
    BY <2>2, BuffAllocFrameStep
  <2>3. CASE BuffPinRefused \/ BuffAllocFails \/ NoManager
    BY <2>3, ReturnStep DEF BuffPinRefused, BuffAllocFails, NoManager
  <2>4. CASE \E f \in Frames : BuffUnpin(f) \/ BuffFreeFrame(f) \/ BuffMarkPage(f)
    BY <2>4, BuffUnpinStep, BuffFreeFrameStep, BuffMarkPageStep
  <2>5. CASE \E f \in Frames, data \in Data : ClientWrites(f, data)
    BY <2>5, ClientWritesStep
  <2>6. CASE BuffFlushAll \/ BuffDestroy
    BY <2>6, StartWalkStep DEF BuffFlushAll, BuffDestroy
  <2>7. CASE WriteBack \/ WalkEnds
    BY <2>7, WriteBackStep, WalkEndsStep
  <2>. QED  BY <1>2, <2>1, <2>2, <2>3, <2>4, <2>5, <2>6, <2>7 DEF Next
<1>. QED  BY <1>1, <1>2

\* The inductive invariant of buffer_manager.c's pool, for every number of
\* frames, pages, stack addresses and pins.
THEOREM Invariant == Spec => []IInv
<1>. QED  BY InitInvariant, NextInvariant, PTL DEF Spec

\* The fields of struct buffer_manager keep their types.
THEOREM TypeCorrect == Spec => []TypeOK
<1>1. IInv => TypeOK
  BY DEF IInv
<1>. QED  BY <1>1, Invariant, PTL

\* buff_pin never gets beyond frame 0, however large the pool is.
THEOREM PoolIsOneFrame == Spec => []SingleFrame
<1>1. IInv => SingleFrame
  BY DEF IInv
<1>. QED  BY <1>1, Invariant, PTL

\* buffer_manager.h:59: every unpinned dirty frame is on the list to write
\* back.
THEOREM DirtyFramesListed == Spec => []WritebackHoldsDirty
<1>1. IInv => WritebackHoldsDirty
  <2> SUFFICES ASSUME IInv, NEW f \in Frames, meta[f].state = FS_UNPINNED_DIRTY
               PROVE  f \in OnList(writeback)
    BY DEF WritebackHoldsDirty
  <2>1. f = 0
    <3>1. f # 0 => meta[f] = InitialFrame(f)
      BY PoolFacts
    <3>2. InitialFrame(f).state # FS_UNPINNED_DIRTY
      BY DEF InitialFrame, FS_UNPINNED, FS_UNPINNED_DIRTY
    <3>. QED  BY <3>1, <3>2
  <2>2. writeback = f
    BY <2>1 DEF IInv
  <2>. QED  BY <2>1, <2>2, FirstFrame DEF OnList
<1>. QED  BY <1>1, Invariant, PTL

\* buff_pin:187 reads through a null pointer only after pins from two stack
\* addresses.
THEOREM OneAddressNeverCrashes == Spec => []CrashNeedsTwoAddresses
<1>1. IInv => CrashNeedsTwoAddresses
  BY DEF IInv
<1>. QED  BY <1>1, Invariant, PTL

\* A step of a walk changes a state only to clean, of a frame whose page in
\* the store then holds what the frame holds.
LEMMA WriteBackSavesStep ==
  ASSUME IInv, [Next]_vars, NEW f \in Frames, Walking, meta[f].state # meta'[f].state
  PROVE  disk'[meta[f].index] = buf[f]
<1>1. at # "idle"
  BY DEF Walking
<1>2. WriteBack
  BY <1>1 DEF Next, vars, BuffPin, BuffAllocFrame, BuffPinRefused, BuffAllocFails,
     NoManager, Return, BuffUnpin, BuffFreeFrame, BuffMarkPage, ClientWrites,
     BuffFlushAll, BuffDestroy, StartWalk, WalkEnds
<1>3. /\ disk' = [disk EXCEPT ![meta[0].index] = buf[0]]
      /\ meta' = [meta EXCEPT ![0].state = FS_UNPINNED]
  BY <1>2, WriteBackFacts DEF WriteBack
<1>4. f = 0
  BY <1>3 DEF IInv, TypeOK
<1>. QED  BY <1>2, <1>3, <1>4, WriteBackFacts DEF IInv, TypeOK

\* buff_flush_all:366: a frame is marked clean only if its page was written.
THEOREM WalkSavesFrames == Spec => WriteBackSaves
<1>1. IInv /\ [Next]_vars =>
        [\A f \in Frames :
           Walking /\ meta[f].state # meta'[f].state => disk'[meta[f].index] = buf[f]]_vars
  BY WriteBackSavesStep
<1>. QED  BY <1>1, Invariant, PTL DEF Spec, WriteBackSaves

-----------------------------------------------------------------------------
(* What no destruction does.                                               *)

\* Each frame is as buff_create left it, and no client has it.
Untouched == \A f \in Frames : meta[f] = InitialFrame(f) /\ held[f] = 0

\* Without an entry in the table, frame 0 is as buff_create left it.
Unused ==
  /\ table = {} => meta[0] = InitialFrame(0) /\ held[0] = 0
  /\ at = "destroyed" => table = {}

LEMMA UnusedStep == IInv /\ Unused /\ [Next]_vars => Unused'
<1> SUFFICES ASSUME IInv, Unused, [Next]_vars PROVE Unused'
  OBVIOUS
<1>1. ASSUME NEW slot, NEW page, NEW content, at = "idle", Pin(slot, page, content)
      PROVE  table' # {} /\ at' # "destroyed"
  BY <1>1, PoolFacts, FirstFrame DEF Pin, PinHit, PinFails, PinFetch
<1>2. ASSUME NEW slot, NEW page, BuffPin(slot, page) \/ BuffAllocFrame(slot, page)
      PROVE  Unused'
  BY <1>1, <1>2 DEF BuffPin, BuffAllocFrame, Unused
<1>3. ASSUME NEW f \in Frames, held[f] > 0, at = "idle", UNCHANGED <<table, at>>
      PROVE  Unused'
  BY <1>3, HeldFrame DEF Unused
<1>4. ASSUME NEW f \in Frames,
             \/ BuffUnpin(f) \/ BuffFreeFrame(f) \/ BuffMarkPage(f)
             \/ \E data \in Data : ClientWrites(f, data)
      PROVE  Unused'
  BY <1>3, <1>4 DEF BuffUnpin, BuffFreeFrame, BuffMarkPage, ClientWrites
<1>5. CASE BuffPinRefused \/ BuffAllocFails \/ NoManager \/ UNCHANGED vars
  BY <1>5 DEF BuffPinRefused, BuffAllocFails, NoManager, Return, vars, Unused
<1>6. CASE BuffFlushAll \/ BuffDestroy
  BY <1>6 DEF BuffFlushAll, BuffDestroy, StartWalk, Unused
<1>7. CASE WriteBack
  <2>1. table # {} /\ UNCHANGED <<table, at>>
    BY <1>7, WriteBackFacts DEF WriteBack
  <2>. QED  BY <2>1 DEF Unused
<1>8. CASE WalkEnds
  BY <1>8 DEF WalkEnds, Unused
<1>. QED  BY <1>2, <1>4, <1>5, <1>6, <1>7, <1>8 DEF Next

\* buff_destroy never gets to its end with a manager that was used, against what
\* its comment says (buffer_manager.c:95-101): g_hash_table_destroy (122) gives the
\* addresses of locals to free.
THEOREM UsedNeverDestroyed == Spec => [](at = "destroyed" => Untouched)
<1>1. Init => Unused
  BY FirstFrame DEF Init, Unused
<1>2. IInv /\ Unused => (at = "destroyed" => Untouched)
  BY PoolFacts DEF Unused, Untouched
<1>. QED  BY <1>1, <1>2, UnusedStep, Invariant, PTL DEF Spec

-----------------------------------------------------------------------------
(* What a client has allocated is in the file, and so was all that was     *)
(* read into the frame.                                                    *)

InFile == buf[0] # Absent /\ \A p \in owned : disk[p] # Absent

LEMMA PinInFile ==
  ASSUME IInv, InFile, NEW slot, NEW page, NEW content,
         content # Absent, Pin(slot, page, content)
  PROVE  buf'[0] # Absent
<1>1. freelist = 0 /\ buf \in [Frames -> Contents]
  BY PoolFacts DEF IInv, TypeOK
<1>. QED  BY <1>1, FirstFrame DEF Pin, PinHit, PinFails, PinFetch, InFile

LEMMA InFileStep == IInv /\ InFile /\ [Next]_vars => InFile'
<1> SUFFICES ASSUME IInv, InFile, [Next]_vars PROVE InFile'
  OBVIOUS
<1>0. /\ disk \in [Pages -> Contents] /\ owned \subseteq Pages
      /\ buf \in [Frames -> Contents]
  BY DEF IInv, TypeOK
<1>1. CASE UNCHANGED <<buf, disk, owned>>
  BY <1>1 DEF InFile
<1>2. ASSUME NEW slot \in Slots, NEW page \in owned, BuffPin(slot, page)
      PROVE  InFile'
  BY <1>2, PinInFile DEF BuffPin, InFile
<1>3. ASSUME NEW slot \in Slots, NEW page \in Pages, BuffAllocFrame(slot, page)
      PROVE  InFile'
  <2> DEFINE content == IF disk[page] = Absent THEN Blank ELSE disk[page]
  <2>1. content # Absent
    BY ContentAssumption
  <2>2. /\ Pin(slot, page, content)
        /\ disk' = [disk EXCEPT ![page] = content] /\ owned' = owned \cup {page}
    BY <1>3 DEF BuffAllocFrame
  <2> HIDE DEF content
  <2>3. buf'[0] # Absent
    BY <2>1, <2>2, PinInFile
  <2>. QED  BY <1>0, <2>1, <2>2, <2>3 DEF InFile
<1>4. ASSUME NEW f \in Frames, BuffFreeFrame(f)
      PROVE  InFile'
  <2>1. /\ UNCHANGED buf /\ owned' \subseteq owned
        /\ disk' \in {disk, [disk EXCEPT ![meta[f].index] = Free]}
    BY <1>4 DEF BuffFreeFrame
  <2>. QED  BY <1>0, <2>1, ContentAssumption DEF InFile
<1>5. ASSUME NEW f \in Frames, NEW data \in Data, ClientWrites(f, data)
      PROVE  InFile'
  <2>1. f = 0 /\ buf' = [buf EXCEPT ![0] = data] /\ UNCHANGED <<disk, owned>>
    BY <1>5, HeldFrame DEF ClientWrites
  <2>. QED  BY <1>0, <2>1, FirstFrame, ContentAssumption DEF InFile
<1>6. CASE WriteBack
  <2>1. UNCHANGED <<buf, owned>>
    BY <1>6 DEF WriteBack
  <2>2. disk' = disk \/ disk' = [disk EXCEPT ![meta[0].index] = buf[0]]
    BY <1>6, WriteBackFacts DEF WriteBack
  <2>. QED  BY <1>0, <2>1, <2>2 DEF InFile
<1>7. ASSUME NEW f \in Frames, BuffUnpin(f) \/ BuffMarkPage(f)
      PROVE  UNCHANGED <<buf, disk, owned>>
  BY <1>7 DEF BuffUnpin, BuffMarkPage
<1>8. BuffPinRefused \/ BuffAllocFails \/ NoManager \/ BuffFlushAll \/ BuffDestroy
        \/ WalkEnds \/ UNCHANGED vars => UNCHANGED <<buf, disk, owned>>
  BY DEF BuffPinRefused, BuffAllocFails, NoManager, Return, BuffFlushAll, BuffDestroy,
     StartWalk, WalkEnds, vars
<1>. QED  BY <1>1, <1>2, <1>3, <1>4, <1>5, <1>6, <1>7, <1>8 DEF Next

\* A client can read back every page it has: no failure, flush or free of
\* another takes it out of the file.
THEOREM OwnedInFile == Spec => []InFile
<1>1. Init => InFile
  BY FirstFrame, ContentAssumption DEF Init, InFile
<1>. QED  BY <1>1, InFileStep, Invariant, PTL DEF Spec

-----------------------------------------------------------------------------
(* BufferManager implements OneFramePool.                                  *)

\* What the pool sees of the manager is frame 0, and it keeps its types.
LEMMA PoolTypes ==
  ASSUME IInv
  PROVE  /\ freelist = 0 /\ freelist # Nil
         /\ meta \in [Frames -> MetaFrame] /\ meta[0] \in MetaFrame
         /\ meta[0].state \in States /\ meta[0].index \in Pages \cup {METADATA}
         /\ held \in [Frames -> Nat] /\ buf \in [Frames -> Contents]
         /\ disk \in [Pages -> Contents] /\ DOMAIN disk = Pages
BY PoolFacts, FirstFrame DEF IInv, TypeOK, MetaFrame

\* buff_pin is the pool's Pin.
LEMMA PinRefines ==
  ASSUME IInv, NEW slot \in Slots, NEW page \in Pages, NEW content,
         at = "idle", Pin(slot, page, content), UNCHANGED <<freelist, writeback, cursor>>
  PROVE  Pool!Pin(slot, page, content)
<1>1. CASE PinHit(slot)
  BY <1>1, PoolTypes, FirstFrame DEF PinHit, Result, Pool!Pin, Pool!HandOut
<1>2. CASE Faults /\ PinFails(slot)
  BY <1>2 DEF PinFails, Result, Pool!Pin, Pool!FailToLoad, Pool!frame
<1>3. CASE PinFetch(slot, page, content)
  <2>1. /\ slot \notin table /\ table' = table \cup {slot}
        /\ buf'[0] = content
    BY <1>3, PoolTypes, FirstFrame DEF PinFetch
  <2>2. CASE meta[0].next = Nil
    <3>1. at' = "crashed" /\ UNCHANGED <<meta, ret, held>>
      BY <1>3, <2>2, PoolTypes DEF PinFetch
    <3>. QED  BY <2>1, <3>1 DEF Pool!Pin, Pool!Load
  <2>3. CASE meta[0].next # Nil
    <3> DEFINE next == meta[0].next
               pinned == [meta[next] EXCEPT !.state = FS_PINNED, !.index = page]
    <3>1. /\ meta' = [meta EXCEPT ![0] = pinned]
          /\ held' = [held EXCEPT ![0] = @ + 1]
          /\ ret' = Result("STATUS_OK", 0)
          /\ UNCHANGED at
      BY <1>3, <2>3, PoolTypes DEF PinFetch
    <3>2. next \in Frames /\ meta[next] \in MetaFrame
      BY <2>3, PoolTypes DEF MetaFrame, Pointers
    <3>3. pinned.state = "pinned" /\ pinned.index = page
      BY <3>2 DEF MetaFrame, FS_PINNED
    <3> HIDE DEF pinned
    <3>4. meta'[0] = pinned /\ held'[0] = held[0] + 1 /\ ret'.status = "STATUS_OK"
      BY <3>1, PoolTypes, FirstFrame DEF Result
    <3>. QED  BY <2>1, <3>1, <3>3, <3>4 DEF Pool!Pin, Pool!Load
  <2>. QED  BY <2>2, <2>3
<1>. QED  BY <1>1, <1>2, <1>3, PoolTypes DEF Pin

\* buff_pin of a page of the file is PinPage.
LEMMA BuffPinRefines ==
  ASSUME IInv, NEW slot \in Slots, NEW page \in Pages, disk[page] # Absent,
         BuffPin(slot, page)
  PROVE  Pool!PinPage
<1>1. page \in Pool!Pages
  BY PoolTypes DEF Pool!Pages
<1>2. Pool!Pin(slot, page, disk[page])
  BY PinRefines DEF BuffPin
<1>. QED  BY <1>1, <1>2 DEF BuffPin, Pool!PinPage, Pool!store

\* buff_alloc_frame is PinNewPage.
LEMMA BuffAllocFrameRefines ==
  ASSUME IInv, NEW slot \in Slots, NEW page \in Pages, BuffAllocFrame(slot, page)
  PROVE  Pool!PinNewPage
<1> DEFINE content == IF disk[page] = Absent THEN Blank ELSE disk[page]
<1>1. /\ at = "idle" /\ page \notin owned
      /\ Pin(slot, page, content)
      /\ UNCHANGED <<freelist, writeback, cursor>>
      /\ disk' = [disk EXCEPT ![page] = content]
      /\ owned' = owned \cup {page}
  BY DEF BuffAllocFrame
<1>2. Pool!Pin(slot, page, content)
  BY <1>1, PinRefines
<1>3. page \in Pool!Pages \ owned
  BY <1>1, PoolTypes DEF Pool!Pages
<1>. QED  BY <1>1, <1>2, <1>3 DEF Pool!PinNewPage

\* A call that is refused, or fails before it does anything.
LEMMA ReturnRefines ==
  ASSUME NEW status \in {"STATUS_ERR", "STATUS_META_PAGE", "STATUS_NO_MANAGER",
                         "STATUS_BAD_WRITE", "STATUS_NO_CONFIG", "STATUS_OK"},
         Return(status)
  PROVE  Pool!Refuse
BY DEF Return, Result, Pool!Refuse, Pool!frame, Pool!store

\* buff_unpin is Unpin, whichever list the frame goes to.
LEMMA BuffUnpinRefines ==
  ASSUME IInv, NEW f \in Frames, BuffUnpin(f)
  PROVE  Pool!Unpin
<1>1. f = 0
  BY HeldFrame DEF BuffUnpin
<1>2. /\ at = "idle" /\ held[0] > 0 /\ held'[0] = held[0] - 1
      /\ UNCHANGED <<table, buf, disk, owned, at, cursor>>
  BY <1>1, PoolTypes, FirstFrame DEF BuffUnpin
<1>3. CASE meta[0].state = "pinned"
  <2>1. UnpinClean(0) /\ ret'.status = "STATUS_OK"
    BY <1>1, <1>3 DEF BuffUnpin, FS_PINNED, FS_PINNED_DIRTY, Result
  <2>. QED
    BY <1>2, <1>3, <2>1, UnpinCleanStep DEF Pool!Unpin, Pool!store, FS_UNPINNED
<1>4. CASE meta[0].state = "pinned_dirty"
  <2>1. UnpinDirty(0) /\ ret'.status = "STATUS_OK"
    BY <1>1, <1>4 DEF BuffUnpin, FS_PINNED, FS_PINNED_DIRTY, Result
  <2>. QED
    BY <1>2, <1>4, <2>1, UnpinDirtyStep, FirstFrame
    DEF Pool!Unpin, Pool!store, FS_UNPINNED_DIRTY
<1>5. CASE meta[0].state \in {"unpinned", "unpinned_dirty"}
  <2>1. ret'.status = "STATUS_ERR" /\ UNCHANGED <<meta, freelist, writeback>>
    BY <1>1, <1>5 DEF BuffUnpin, FS_PINNED, FS_PINNED_DIRTY, Result
  <2>. QED  BY <1>2, <1>5, <2>1 DEF Pool!Unpin, Pool!store
<1>. QED
  BY <1>3, <1>4, <1>5, PoolTypes
  DEF States, FS_PINNED, FS_UNPINNED, FS_PINNED_DIRTY, FS_UNPINNED_DIRTY

\* buff_free_frame is FreePage.
LEMMA BuffFreeFrameRefines ==
  ASSUME IInv, NEW f \in Frames, BuffFreeFrame(f)
  PROVE  Pool!FreePage
<1>1. f = 0
  BY HeldFrame DEF BuffFreeFrame
<1>2. /\ at = "idle" /\ held[0] > 0 /\ held'[0] = held[0] - 1
      /\ UnpinClean(0)
      /\ UNCHANGED <<table, buf, at, cursor>>
  BY <1>1, PoolTypes, FirstFrame DEF BuffFreeFrame
<1>3. \/ /\ meta[0].index # 0
         /\ disk' = [disk EXCEPT ![meta[0].index] = Free]
         /\ owned' = owned \ {meta[0].index}
         /\ ret'.status = "STATUS_OK"
      \/ /\ meta[0].index = 0
         /\ ret'.status = "STATUS_META_PAGE"
         /\ UNCHANGED <<disk, owned>>
      \/ /\ meta[0].index # 0 /\ Faults
         /\ disk' \in {disk, [disk EXCEPT ![meta[0].index] = Free]}
         /\ owned' \in {owned, owned \ {meta[0].index}}
         /\ ret'.status = "STATUS_BAD_WRITE"
  BY <1>1 DEF BuffFreeFrame, Result, METADATA
<1>4. /\ meta'[0].state = "unpinned" /\ meta'[0].index = meta[0].index
      /\ writeback' = writeback
  BY <1>2, UnpinCleanStep DEF FS_UNPINNED
<1>. QED  BY <1>2, <1>3, <1>4 DEF Pool!FreePage, Pool!store

\* buff_mark_page is Mark.
LEMMA BuffMarkPageRefines ==
  ASSUME IInv, NEW f \in Frames, BuffMarkPage(f)
  PROVE  Pool!Mark
<1>1. f = 0
  BY HeldFrame DEF BuffMarkPage
<1>2. /\ at = "idle" /\ held[0] > 0
      /\ UNCHANGED <<freelist, writeback, table, buf, disk, owned, held, at, cursor>>
  BY <1>1 DEF BuffMarkPage
<1>3. CASE meta[0].state \in {"pinned", "pinned_dirty"}
  <2>1. /\ meta' = [meta EXCEPT ![0].state = "pinned_dirty"]
        /\ ret'.status = "STATUS_OK"
    BY <1>1, <1>3 DEF BuffMarkPage, FS_PINNED, FS_PINNED_DIRTY, Result
  <2>2. meta'[0].state = "pinned_dirty" /\ meta'[0].index = meta[0].index
    BY <2>1, PoolTypes, FirstFrame DEF MetaFrame
  <2>. QED  BY <1>2, <1>3, <2>1, <2>2 DEF Pool!Mark, Pool!store
<1>4. CASE meta[0].state \in {"unpinned", "unpinned_dirty"}
  <2>1. ret'.status = "STATUS_MARK_ERR" /\ UNCHANGED meta
    BY <1>1, <1>4 DEF BuffMarkPage, FS_PINNED, FS_PINNED_DIRTY, Result
  <2>. QED  BY <1>2, <1>4, <2>1 DEF Pool!Mark, Pool!store
<1>. QED
  BY <1>3, <1>4, PoolTypes
  DEF States, FS_PINNED, FS_UNPINNED, FS_PINNED_DIRTY, FS_UNPINNED_DIRTY

\* The client's writes are Change.
LEMMA ClientWritesRefines ==
  ASSUME IInv, NEW f \in Frames, NEW data \in Data, ClientWrites(f, data)
  PROVE  Pool!Change
<1>1. f = 0
  BY HeldFrame DEF ClientWrites
<1>2. buf'[0] = data
  BY <1>1, PoolTypes, FirstFrame DEF ClientWrites
<1>. QED  BY <1>1, <1>2 DEF ClientWrites, Pool!Change, Pool!store

\* buff_flush_all and buff_destroy start a walk.
LEMMA StartWalkRefines ==
  ASSUME BuffFlushAll \/ BuffDestroy
  PROVE  Pool!StartWalk
BY DEF BuffFlushAll, BuffDestroy, StartWalk, Pool!StartWalk, Pool!frame, Pool!store

\* An iteration of the walk is Save.
LEMMA WriteBackRefines ==
  ASSUME IInv, WriteBack
  PROVE  Pool!Save
<1>1. cursor = 0 /\ cursor # Nil
  BY WriteBackFacts, FirstFrame
<1>2. /\ at \in {"flush", "destroy"}
      /\ UNCHANGED <<freelist, writeback, table, buf, owned, held, ret, at>>
  BY DEF WriteBack, Walking
<1>3. CASE UNCHANGED <<disk, meta>> /\ Faults
  BY <1>1, <1>2, <1>3 DEF Pool!Save
<1>4. CASE /\ disk' = [disk EXCEPT ![meta[0].index] = buf[0]]
           /\ meta' = [meta EXCEPT ![0].state = FS_UNPINNED]
  <2>1. meta'[0].state = "unpinned" /\ meta'[0].index = meta[0].index
    BY <1>4, PoolTypes, FirstFrame DEF MetaFrame, FS_UNPINNED
  <2>. QED  BY <1>1, <1>2, <1>4, <2>1 DEF Pool!Save
<1>. QED  BY <1>1, <1>3, <1>4 DEF WriteBack

\* The end of a walk is EndWalk.
LEMMA WalkEndsRefines ==
  ASSUME WalkEnds
  PROVE  Pool!EndWalk
BY DEF WalkEnds, Walking, Result, Pool!EndWalk, Pool!frame, Pool!store

\* The pool starts with nothing in the frame.
LEMMA InitRefines == Init => Pool!Init
<1> SUFFICES ASSUME Init PROVE Pool!Init
  OBVIOUS
<1>1. meta[0] = InitialFrame(0) /\ buf[0] = Blank /\ held[0] = 0
  BY FirstFrame DEF Init
<1>2. disk \in [Pages -> {Absent}] /\ DOMAIN disk = Pages
  BY DEF Init
<1>. QED
  BY <1>1, <1>2
  DEF Init, InitialFrame, Result, FS_UNPINNED, METADATA, Pool!Init, Pool!Pages

\* The manager, of any number of frames, is one frame to its clients: every call, and every step of a
\* walk, is what OneFramePool lets one frame do.
THEOREM Implements == Spec => Refines
<1>1. IInv /\ InFile /\ [Next]_vars => [Pool!Next]_(Pool!vars)
  <2> SUFFICES ASSUME IInv, InFile, [Next]_vars
               PROVE  Pool!Next \/ UNCHANGED Pool!vars
    OBVIOUS
  <2>1. CASE UNCHANGED vars
    BY <2>1 DEF vars, Pool!vars, Pool!frame, Pool!store
  <2>2. CASE \E slot \in Slots, page \in owned : BuffPin(slot, page)
    <3>1. \A page \in owned : page \in Pages /\ disk[page] # Absent
      BY DEF InFile, IInv, TypeOK
    <3>. QED  BY <2>2, <3>1, BuffPinRefines DEF Pool!Next
  <2>3. CASE \E slot \in Slots, page \in Pages : BuffAllocFrame(slot, page)
    BY <2>3, BuffAllocFrameRefines DEF Pool!Next
  <2>4. CASE BuffPinRefused \/ BuffAllocFails \/ NoManager
    BY <2>4, ReturnRefines
    DEF BuffPinRefused, BuffAllocFails, NoManager, Pool!Next
  <2>5. CASE \E f \in Frames : BuffUnpin(f) \/ BuffFreeFrame(f) \/ BuffMarkPage(f)
    BY <2>5, BuffUnpinRefines, BuffFreeFrameRefines, BuffMarkPageRefines DEF Pool!Next
  <2>6. CASE \E f \in Frames, data \in Data : ClientWrites(f, data)
    BY <2>6, ClientWritesRefines DEF Pool!Next
  <2>7. CASE BuffFlushAll \/ BuffDestroy
    BY <2>7, StartWalkRefines DEF Pool!Next
  <2>8. CASE WriteBack \/ WalkEnds
    BY <2>8, WriteBackRefines, WalkEndsRefines DEF Pool!Next
  <2>. QED
    BY <2>1, <2>2, <2>3, <2>4, <2>5, <2>6, <2>7, <2>8 DEF Next
<1>. QED
  BY <1>1, InitRefines, Invariant, OwnedInFile, PTL DEF Spec, Refines, Pool!Spec

=============================================================================
