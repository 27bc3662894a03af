---------------------------- MODULE BTree_proofs ----------------------------
(***************************************************************************)
(* The B-tree over a pool of every number of frames: what its calls leave  *)
(* to each other, that no node is saved, and that none makes a tree.       *)
(***************************************************************************)
EXTENDS BTree, BufferManager_proofs

-----------------------------------------------------------------------------
(* The calls of the manager, under a pool with nothing dirty in it.        *)

\* A pin that succeeds hands out frame 0; the pool stays clean.
LEMMA PinIsClean ==
  ASSUME CleanPool, NEW slot \in Slots, NEW page \in Pages, NEW content \in Contents,
         at = "idle", Pin(slot, page, content), IInv',
         UNCHANGED writeback, NodesNeverSaved'
  PROVE  /\ CleanPool'
         /\ at' = "idle" /\ ret'.status = "STATUS_OK" => ret'.frame = 0
<1>0. freelist = 0 /\ freelist # Nil /\ meta \in [Frames -> MetaFrame]
  BY PoolFacts, FirstFrame DEF CleanPool, IInv, TypeOK
<1>1. CASE PinHit(slot)
  BY <1>0, <1>1 DEF PinHit, Result, CleanPool
<1>2. CASE PinFails(slot)
  BY <1>2 DEF PinFails, Result, CleanPool
<1>3. CASE PinFetch(slot, page, content)
  <2>1. CASE meta[0].next = Nil
    <3>1. at' = "crashed" /\ UNCHANGED meta
      BY <1>0, <1>3, <2>1 DEF PinFetch
    <3>. QED  BY <3>1 DEF CleanPool
  <2>2. CASE meta[0].next # Nil
    <3> DEFINE next == meta[0].next
    <3>1. /\ meta' = [meta EXCEPT ![0] =
                        [meta[next] EXCEPT !.state = FS_PINNED, !.index = page]]
          /\ ret' = Result("STATUS_OK", 0)
      BY <1>0, <1>3, <2>2 DEF PinFetch
    <3>2. next \in Frames /\ meta[next] \in MetaFrame
      BY <1>0, <2>2, PoolFacts DEF CleanPool, MetaFrame, Pointers
    <3> HIDE DEF next
    <3>3. meta'[0] = [meta[next] EXCEPT !.state = FS_PINNED, !.index = page]
      BY <1>0, <3>1, FirstFrame
    <3>4. meta'[0].state = FS_PINNED
      BY <3>2, <3>3 DEF MetaFrame
    <3>. QED  BY <3>1, <3>4 DEF CleanPool, Result
  <2>. QED  BY <2>1, <2>2
<1>. QED  BY <1>0, <1>1, <1>2, <1>3 DEF Pin

\* buff_pin of a page of the file.
LEMMA BuffPinIsClean ==
  ASSUME CleanPool, NEW slot \in Slots, NEW page \in Pages, BuffPin(slot, page)
  PROVE  /\ CleanPool'
         /\ at' = "idle" /\ ret'.status = "STATUS_OK" => ret'.frame = 0
<1>1. /\ disk[page] \in Contents /\ at = "idle" /\ Pin(slot, page, disk[page])
      /\ UNCHANGED <<freelist, writeback, disk, owned, cursor>>
  BY DEF CleanPool, IInv, TypeOK, BuffPin
<1>2. IInv'
  BY <1>1, PinStep DEF CleanPool, IInv, TypeOK
<1>3. NodesNeverSaved'
  BY <1>1 DEF CleanPool, NodesNeverSaved
<1>. QED  BY <1>1, <1>2, <1>3, PinIsClean

\* buff_pin of a page that is not in the file.
LEMMA PinNoPageIsClean ==
  ASSUME CleanPool, NEW slot \in Slots, PinNoPage(slot)
  PROVE  /\ CleanPool' /\ UNCHANGED <<meta, buf, at>>
         /\ ret'.status = "STATUS_OK" => ret'.frame = 0
<1>0. freelist = 0 /\ IInv
  BY PoolFacts DEF CleanPool
<1>1. /\ UNCHANGED <<meta, freelist, writeback, buf, disk, owned, at, cursor>>
      /\ ret'.frame \in {0, Nil} /\ (ret'.status = "STATUS_OK" => ret'.frame = 0)
      /\ table \subseteq table' /\ table' \subseteq Slots
  BY <1>0 DEF PinNoPage, PinHit, PinFails, Result, IInv, TypeOK
<1>2. /\ held' \in [Frames -> Nat]
      /\ \A f \in Frames \ {0} : held'[f] = held[f]
  BY <1>0, FirstFrame DEF PinNoPage, PinHit, PinFails, IInv, TypeOK
<1>3. TypeOK'
  BY <1>0, <1>1, <1>2, FirstFrame DEF IInv, TypeOK, Pointers
<1>4. SingleFrame'
  BY <1>0, <1>1, <1>2 DEF IInv, SingleFrame
<1>5. CrashNeedsTwoAddresses'
  BY <1>0, <1>1 DEF IInv, CrashNeedsTwoAddresses
<1>6. IInv'
  BY <1>0, <1>1, <1>3, <1>4, <1>5 DEF IInv
<1>. QED  BY <1>1, <1>6 DEF CleanPool, NodesNeverSaved

\* A call that returns before it does anything.
LEMMA ReturnIsClean ==
  ASSUME CleanPool, NEW status, Return(status)
  PROVE  /\ CleanPool' /\ UNCHANGED <<meta, buf, at>>
         /\ ret'.status = status /\ ret'.frame = Nil
BY ReturnStep DEF CleanPool, Return, Result, NodesNeverSaved

\* buff_pin of whatever page the tree names.
LEMMA PinNodeIsClean ==
  ASSUME CleanPool, NEW slot \in Slots, NEW page, PinNode(slot, page)
  PROVE  /\ CleanPool'
         /\ at' = "idle" /\ ret'.status = "STATUS_OK" => ret'.frame = 0
BY BuffPinIsClean, PinNoPageIsClean, ReturnIsClean DEF PinNode

\* The page and the frame of a node, or a failure.
LEMMA NewFrameIsClean ==
  ASSUME CleanPool, NEW slot \in Slots, NEW page \in Pages, NewFrame(slot, page)
  PROVE  /\ CleanPool'
         /\ at' = "idle" /\ ret'.status = "STATUS_OK" => ret'.frame = 0
<1>1. CASE BuffAllocFrame(slot, page)
  <2> DEFINE content == IF disk[page] = Absent THEN Blank ELSE disk[page]
  <2>1. /\ content \in Contents /\ content \in {Absent, Free, Blank}
        /\ disk \in [Pages -> Contents]
    BY DEF CleanPool, IInv, TypeOK, Contents, NodesNeverSaved
  <2>2. /\ at = "idle" /\ Pin(slot, page, content)
        /\ UNCHANGED writeback /\ disk' = [disk EXCEPT ![page] = content]
    BY <1>1 DEF BuffAllocFrame
  <2>3. IInv'
    BY <1>1, BuffAllocFrameStep DEF CleanPool
  <2> HIDE DEF content
  <2>4. NodesNeverSaved'
    BY <2>1, <2>2 DEF CleanPool, NodesNeverSaved
  <2>. QED  BY <2>1, <2>2, <2>3, <2>4, PinIsClean
<1>2. CASE Return("STATUS_BAD_WRITE")
  BY <1>2, ReturnIsClean
<1>. QED  BY <1>1, <1>2 DEF NewFrame

\* A store into a node.
LEMMA WriteIsClean ==
  ASSUME CleanPool, NEW data \in Node, ClientWrites(0, data)
  PROVE  CleanPool' /\ buf'[0] = data /\ UNCHANGED <<meta, at>>
<1>1. IInv'
  BY NodeAssumption, FirstFrame, ClientWritesStep DEF CleanPool
<1>2. buf' = [buf EXCEPT ![0] = data] /\ UNCHANGED <<meta, writeback, disk, at>>
  BY DEF ClientWrites
<1>3. buf'[0] = data
  BY <1>2, FirstFrame DEF CleanPool, IInv, TypeOK
<1>. QED  BY <1>1, <1>2, <1>3 DEF CleanPool, NodesNeverSaved

\* The unpin of frame 0: refused exactly when it is not pinned.
LEMMA UnpinIsClean ==
  ASSUME CleanPool, BuffUnpin(0)
  PROVE  /\ CleanPool' /\ UNCHANGED <<buf, at>>
         /\ meta'[0].state = FS_UNPINNED
         /\ meta[0].state = FS_UNPINNED => ret'.status = "STATUS_ERR"
<1>1. IInv' /\ UNCHANGED <<buf, at, disk>>
  BY FirstFrame, BuffUnpinStep DEF CleanPool, BuffUnpin
<1>2. CASE meta[0].state = FS_PINNED
  <2>1. UnpinClean(0)
    BY <1>2 DEF BuffUnpin, FS_PINNED, FS_PINNED_DIRTY
  <2>. QED
    BY <1>1, <1>2, <2>1, UnpinCleanStep
    DEF CleanPool, NodesNeverSaved, FS_PINNED, FS_UNPINNED
<1>3. CASE meta[0].state = FS_UNPINNED
  <2>1. ret' = Result("STATUS_ERR", Nil) /\ UNCHANGED <<meta, writeback>>
    BY <1>3 DEF BuffUnpin, FS_PINNED, FS_PINNED_DIRTY, FS_UNPINNED
  <2>. QED
    BY <1>1, <1>3, <2>1 DEF CleanPool, NodesNeverSaved, Result
<1>. QED  BY <1>2, <1>3 DEF CleanPool

\* buff_free_frame of a node.
LEMMA FreeIsClean ==
  ASSUME CleanPool, NEW f \in Frames, BuffFreeFrame(f)
  PROVE  CleanPool' /\ UNCHANGED at
<1>1. f = 0 /\ IInv' /\ UnpinClean(f)
  BY HeldFrame, BuffFreeFrameStep DEF CleanPool, BuffFreeFrame
<1>2. NodesNeverSaved'
  BY DEF BuffFreeFrame, CleanPool, NodesNeverSaved, IInv, TypeOK
<1>. QED
  BY <1>1, <1>2, UnpinCleanStep DEF CleanPool, BuffFreeFrame

\* A walk finds nothing to write back.
LEMMA WalkIsClean ==
  ASSUME CleanPool, BuffFlushAll \/ BuffDestroy \/ WriteBack \/ WalkEnds
  PROVE  CleanPool'
<1>1. cursor = Nil
  BY DEF CleanPool, IInv
<1>2. CASE BuffFlushAll \/ BuffDestroy
  BY <1>2, StartWalkStep
  DEF BuffFlushAll, BuffDestroy, StartWalk, CleanPool, NodesNeverSaved
<1>3. CASE WalkEnds
  BY <1>3, WalkEndsStep DEF WalkEnds, CleanPool, NodesNeverSaved
<1>. QED  BY <1>1, <1>2, <1>3 DEF WriteBack

-----------------------------------------------------------------------------
(* The calls of the tree.                                                  *)

\* What SetType stores is a node of the type asked for.
LEMMA SetTypeWrites ==
  ASSUME CleanPool, NEW type \in {DIR_PAGE, DATA_PAGE}, SetType(0, type)
  PROVE  \E data \in Node : data.type = type /\ ClientWrites(0, data)
<1>1. buf[0] \in Contents
  BY FirstFrame DEF CleanPool, IInv, TypeOK
<1>2. CASE buf[0] \in {Absent, Free, Blank}
  <2>1. /\ FirstOf(buf[0]) \subseteq {METADATA, Outside}
        /\ SecondOf(buf[0]) = METADATA
    BY <1>2, ContentAssumption DEF FirstOf, SecondOf
  <2>2. PICK first \in {METADATA, Outside} :
          ClientWrites(0, [type |-> type, first |-> first, second |-> METADATA])
    BY <2>1 DEF SetType
  <2>3. [type |-> type, first |-> first, second |-> METADATA] \in Node
    BY DEF Node
  <2>. QED  BY <2>2, <2>3
<1>3. CASE buf[0] \in Node /\ buf[0] \notin {Absent, Free, Blank}
  <2>1. FirstOf(buf[0]) = {buf[0].first} /\ SecondOf(buf[0]) = buf[0].second
    BY <1>3 DEF FirstOf, SecondOf
  <2> DEFINE data == [type |-> type, first |-> buf[0].first, second |-> buf[0].second]
  <2>2. data \in Node /\ data.type = type
    BY <1>3 DEF Node
  <2>3. ClientWrites(0, data)
    BY <2>1 DEF SetType
  <2> HIDE DEF data
  <2>. QED  BY <2>2, <2>3
<1>. QED  BY <1>1, <1>2, <1>3, NodeAssumption DEF Contents

LEMMA SetTypeIsClean ==
  ASSUME CleanPool, NEW type \in {DIR_PAGE, DATA_PAGE}, SetType(0, type)
  PROVE  /\ CleanPool' /\ UNCHANGED <<meta, at>>
         /\ buf'[0] \in Node /\ buf'[0].type = type
BY SetTypeWrites, WriteIsClean

\* The frame a call returned is one, or Nil.
LEMMA ReturnedFrame == ASSUME CleanPool' PROVE ret'.frame \in Pointers
BY DEF CleanPool, IInv, TypeOK

\* Calls that end, or start, without a word about the nodes.
LEMMA IdleStep ==
  ASSUME TreeInv, CleanPool', TreeTypeOK', step' = "idle"
  PROVE  TreeInv'
BY DEF TreeInv, CallInv

\* btree_alloc_node's call, as the first of btree_alloc_node or btree_create.
LEMMA AllocStep ==
  ASSUME TreeInv, NEW slot \in Slots, NEW page \in Pages,
         AllocNode(slot, page) \/ CreateRoot(slot, page) \/ CreateLeaf(slot, page)
  PROVE  TreeInv'
<1>1. CleanPool' /\ (at' = "idle" /\ ret'.status = "STATUS_OK" => ret'.frame = 0)
  BY NewFrameIsClean DEF AllocNode, CreateRoot, CreateLeaf, TreeInv
<1>2. ret'.frame \in Pointers
  BY <1>1, ReturnedFrame
<1>3. TreeTypeOK'
  BY <1>2
  DEF AllocNode, CreateRoot, CreateLeaf, GoesOn, Locals, Pointers, TreeInv, TreeTypeOK, Steps
<1>4. step' \in {"idle", "type_node", "type_root", "type_leaf"}
  BY DEF AllocNode, CreateRoot, CreateLeaf, GoesOn
<1>5. step' # "idle" => at' = "idle" /\ ret'.frame = 0
  BY <1>1 DEF AllocNode, CreateRoot, CreateLeaf, GoesOn
<1>6. step' = "type_node" => node' = ret'.frame
  BY DEF AllocNode, CreateRoot, CreateLeaf, GoesOn, Locals
<1>7. step' = "type_root" => rootNode' = ret'.frame
  BY DEF AllocNode, CreateRoot, CreateLeaf, GoesOn, Locals
<1>8. step' = "type_leaf" => node' = ret'.frame /\ rootNode' = 0
  BY DEF AllocNode, CreateRoot, CreateLeaf, GoesOn, Locals, TreeInv, CallInv
<1>9. CallInv'
  BY <1>4, <1>5, <1>6, <1>7, <1>8 DEF CallInv
<1>. QED  BY <1>1, <1>3, <1>4, <1>9 DEF TreeInv

\* The stores into the nodes.
LEMMA TypeNodeStep == TreeInv /\ TypeNode => TreeInv'
<1> SUFFICES ASSUME TreeInv, TypeNode PROVE TreeInv'
  OBVIOUS
<1>1. node = 0
  BY DEF TypeNode, TreeInv, CallInv
<1>2. PICK type \in {DIR_PAGE, DATA_PAGE} : SetType(0, type)
  BY <1>1 DEF TypeNode
<1>3. CleanPool'
  BY <1>2, SetTypeIsClean DEF TreeInv
<1>4. TreeTypeOK' /\ step' = "idle"
  BY <1>1, FirstFrame DEF TypeNode, Locals, Pointers, TreeInv, TreeTypeOK, Steps
<1>. QED  BY <1>3, <1>4, IdleStep

LEMMA TypeRootStep == TreeInv /\ TypeRoot => TreeInv'
<1> SUFFICES ASSUME TreeInv, TypeRoot PROVE TreeInv'
  OBVIOUS
<1>1. rootNode = 0 /\ SetType(0, DIR_PAGE) /\ at = "idle"
  BY DEF TypeRoot, TreeInv, CallInv
<1>2. CleanPool' /\ at' = at
  BY <1>1, SetTypeIsClean DEF TreeInv
<1>3. meta[0].index \in Pages \cup {METADATA}
  BY PoolFacts DEF TreeInv, CleanPool, MetaFrame
<1>4. TreeTypeOK'
  BY <1>1, <1>3 DEF TypeRoot, TreeInv, TreeTypeOK, Steps
<1>5. step' = "alloc_leaf" /\ rootNode' = 0 /\ at' = "idle"
  BY <1>1, <1>2 DEF TypeRoot
<1>. QED  BY <1>2, <1>4, <1>5 DEF TreeInv, CallInv

LEMMA TypeLeafStep == TreeInv /\ TypeLeaf => TreeInv'
<1> SUFFICES ASSUME TreeInv, TypeLeaf PROVE TreeInv'
  OBVIOUS
<1>1. rootNode = 0 /\ node = 0 /\ SetType(0, DATA_PAGE) /\ at = "idle"
  BY DEF TypeLeaf, TreeInv, CallInv
<1>2. CleanPool' /\ at' = at /\ buf'[0] \in Node /\ buf'[0].type = DATA_PAGE
  BY <1>1, SetTypeIsClean DEF TreeInv
<1>3. TreeTypeOK'
  BY DEF TypeLeaf, TreeInv, TreeTypeOK, Steps
<1>4. step' = "attach" /\ rootNode' = 0 /\ node' = 0 /\ at' = "idle"
  BY <1>1, <1>2 DEF TypeLeaf
<1>. QED  BY <1>2, <1>3, <1>4 DEF TreeInv, CallInv

\* The leaf's page is stored into the leaf itself.
LEMMA AttachStep == TreeInv /\ Attach => TreeInv'
<1> SUFFICES ASSUME TreeInv, Attach PROVE TreeInv'
  OBVIOUS
<1>1. /\ rootNode = 0 /\ node = 0 /\ at = "idle"
      /\ buf[0] \in Node /\ buf[0].type = DATA_PAGE
  BY DEF Attach, TreeInv, CallInv
<1> DEFINE data == [buf[0] EXCEPT !.second = meta[0].index]
<1>2. meta[0].index \in Pages \cup {METADATA}
  BY PoolFacts DEF TreeInv, CleanPool, MetaFrame
<1>3. data \in Node /\ data.type = DATA_PAGE
  BY <1>1, <1>2 DEF Node
<1>4. ClientWrites(0, data)
  BY <1>1 DEF Attach
<1> HIDE DEF data
<1>5. CleanPool' /\ buf'[0] = data /\ UNCHANGED <<meta, at>>
  BY <1>3, <1>4, WriteIsClean DEF TreeInv
<1>6. TreeTypeOK'
  BY DEF Attach, TreeInv, TreeTypeOK, Steps
<1>7. step' = "unpin_leaf" /\ rootNode' = 0 /\ node' = 0
  BY <1>1 DEF Attach
<1>. QED
  BY <1>1, <1>3, <1>5, <1>6, <1>7 DEF TreeInv, CallInv

\* The unpins that end btree_create.
LEMMA UnpinLeafStep == TreeInv /\ UnpinLeaf => TreeInv'
<1> SUFFICES ASSUME TreeInv, UnpinLeaf PROVE TreeInv'
  OBVIOUS
<1>1. /\ rootNode = 0 /\ node = 0 /\ BuffUnpin(0)
      /\ buf[0] \in Node /\ buf[0].type = DATA_PAGE
  BY DEF UnpinLeaf, TreeInv, CallInv
<1>2. CleanPool' /\ UNCHANGED <<buf, at>> /\ meta'[0].state = FS_UNPINNED
  BY <1>1, UnpinIsClean DEF TreeInv
<1>3. step' \in {"idle", "unpin_root"} /\ (step' # "idle" => at' = "idle")
  BY DEF UnpinLeaf, GoesOn
<1>4. TreeTypeOK'
  BY <1>3 DEF UnpinLeaf, Locals, Pointers, TreeInv, TreeTypeOK, Steps
<1>5. step' = "unpin_root" => rootNode' = 0 /\ node' = 0
  BY <1>1 DEF UnpinLeaf, Locals
<1>. QED
  BY <1>1, <1>2, <1>3, <1>4, <1>5 DEF TreeInv, CallInv

LEMMA UnpinRootFacts ==
  ASSUME TreeInv, UnpinRoot
  PROVE  CleanPool' /\ step' = "idle" /\ ret'.status = "STATUS_ERR"
<1>1. BuffUnpin(0) /\ meta[0].state = FS_UNPINNED
  BY DEF UnpinRoot, TreeInv, CallInv
<1>. QED  BY <1>1, UnpinIsClean DEF TreeInv, UnpinRoot

LEMMA UnpinRootStep == TreeInv /\ UnpinRoot => TreeInv'
<1> SUFFICES ASSUME TreeInv, UnpinRoot PROVE TreeInv'
  OBVIOUS
<1>1. TreeTypeOK'
  BY DEF UnpinRoot, Locals, Pointers, TreeInv, TreeTypeOK, Steps
<1>. QED  BY <1>1, UnpinRootFacts, IdleStep

\* The calls that store nothing into nodes.
LEMMA FreeNodeStep ==
  ASSUME TreeInv, NEW f \in Frames, FreeNode(f)
  PROVE  TreeInv'
<1>1. CleanPool'
  BY FreeIsClean DEF FreeNode, TreeInv
<1>2. kept' \in [Frames -> Nat]
  BY DEF FreeNode, TreeInv, TreeTypeOK
<1>3. TreeTypeOK' /\ step' = "idle"
  BY <1>2 DEF FreeNode, locals, TreeInv, TreeTypeOK
<1>. QED  BY <1>1, <1>3, IdleStep

LEMMA OpenStep ==
  ASSUME TreeInv, NEW page \in Pages, Open(page)
  PROVE  TreeInv'
<1>1. CleanPool'
  BY ReturnIsClean DEF Open, TreeInv
<1>2. TreeTypeOK' /\ step' = "idle"
  BY DEF Open, locals, TreeInv, TreeTypeOK
<1>. QED  BY <1>1, <1>2, IdleStep

LEMMA InsertPinsRootStep ==
  ASSUME TreeInv, NEW slot \in Slots, InsertPinsRoot(slot)
  PROVE  TreeInv'
<1>1. CleanPool' /\ (at' = "idle" /\ ret'.status = "STATUS_OK" => ret'.frame = 0)
  BY PinNodeIsClean DEF InsertPinsRoot, TreeInv
<1>2. TreeTypeOK'
  BY <1>1, ReturnedFrame
  DEF InsertPinsRoot, GoesOn, Locals, Pointers, TreeInv, TreeTypeOK, Steps
<1>3. /\ step' \in {"idle", "first_page"}
      /\ step' = "first_page" => at' = "idle" /\ rootNode' = 0
  BY <1>1 DEF InsertPinsRoot, GoesOn, Locals
<1>. QED  BY <1>1, <1>2, <1>3 DEF TreeInv, CallInv

LEMMA InsertPinsFirstStep ==
  ASSUME TreeInv, NEW slot \in Slots, InsertPinsFirst(slot)
  PROVE  TreeInv'
<1>1. CleanPool'
  BY PinNodeIsClean DEF InsertPinsFirst, TreeInv
<1>2. TreeTypeOK' /\ step' = "idle"
  BY DEF InsertPinsFirst, Locals, Pointers, TreeInv, TreeTypeOK, Steps
<1>. QED  BY <1>1, <1>2, IdleStep

LEMMA RefuseStep == TreeInv /\ TreeRefuses => TreeInv'
<1> SUFFICES ASSUME TreeInv, TreeRefuses PROVE TreeInv'
  OBVIOUS
<1>1. CleanPool'
  BY ReturnIsClean DEF TreeRefuses, TreeInv
<1>2. TreeTypeOK' /\ step' = "idle"
  BY DEF TreeRefuses, treeVars, locals, TreeInv, TreeTypeOK
<1>. QED  BY <1>1, <1>2, IdleStep

LEMMA WalkStep == TreeInv /\ Walk => TreeInv'
<1> SUFFICES ASSUME TreeInv, Walk PROVE TreeInv'
  OBVIOUS
<1>1. CleanPool'
  BY WalkIsClean DEF Walk, TreeInv
<1>2. TreeTypeOK' /\ step' = "idle"
  BY DEF Walk, treeVars, locals, TreeInv, TreeTypeOK
<1>. QED  BY <1>1, <1>2, IdleStep

-----------------------------------------------------------------------------

LEMMA TreeStarts == TreeInit => TreeInv
<1> SUFFICES ASSUME TreeInit PROVE TreeInv
  OBVIOUS
<1>1. Init /\ IInv
  BY InitInvariant DEF TreeInit
<1>2. meta[0].state = FS_UNPINNED /\ writeback = Nil /\ NodesNeverSaved
  BY <1>1, FirstFrame DEF Init, InitialFrame, NodesNeverSaved
<1>3. TreeTypeOK
  BY FirstFrame DEF TreeInit, TreeTypeOK, Pointers, Steps
<1>. QED
  BY <1>1, <1>2, <1>3 DEF TreeInit, TreeInv, CleanPool, CallInv

LEMMA TreeStutters == TreeInv /\ UNCHANGED allVars => TreeInv'
<1> SUFFICES ASSUME TreeInv, UNCHANGED allVars PROVE TreeInv'
  OBVIOUS
<1>1. IInv'
  BY NextInvariant DEF allVars, TreeInv, CleanPool
<1>. QED
  BY <1>1
  DEF allVars, vars, treeVars, locals, TreeInv, CleanPool, TreeTypeOK, CallInv,
      NodesNeverSaved

LEMMA TreeKeeps == TreeInv /\ [TreeNext]_allVars => TreeInv'
BY AllocStep, TypeNodeStep, TypeRootStep, TypeLeafStep, AttachStep, UnpinLeafStep,
   UnpinRootStep, FreeNodeStep, OpenStep, InsertPinsRootStep, InsertPinsFirstStep,
   RefuseStep, WalkStep, TreeStutters
DEF TreeNext

\* The invariant of the tree's calls over a pool of any number of frames.
THEOREM TreeInvariant == TreeSpec => []TreeInv
BY TreeStarts, TreeKeeps, PTL DEF TreeSpec

\* Type correctness of the configuration and of the calls' locals.
THEOREM TreeTypeCorrect == TreeSpec => []TreeTypeOK
<1>1. TreeInv => TreeTypeOK
  BY DEF TreeInv
<1>. QED  BY <1>1, TreeInvariant, PTL

\* No node is ever written to the store.
THEOREM NothingSaved == TreeSpec => []NodesNeverSaved
<1>1. TreeInv => NodesNeverSaved
  BY DEF TreeInv, CleanPool
<1>. QED  BY <1>1, TreeInvariant, PTL

-----------------------------------------------------------------------------
(* What CreateMakesTree asks of btree_create, and no call of it gives.     *)

\* At the last call of btree_create the two nodes are one, it is no directory,
\* its first pointer is to no page of the file, and the unpin is refused.
NoTreeMade ==
  [][step = "unpin_root" /\ step' = "idle" =>
       /\ node = rootNode
       /\ buf[rootNode].type = DATA_PAGE
       /\ buf[rootNode].first \notin Pages
       /\ ret'.status = "STATUS_ERR"]_allVars

LEMMA NoTreeStep ==
  ASSUME TreeInv, [TreeNext]_allVars, step = "unpin_root", step' = "idle"
  PROVE  /\ node = rootNode
         /\ buf[rootNode].type = DATA_PAGE
         /\ buf[rootNode].first \notin Pages
         /\ ret'.status = "STATUS_ERR"
<1>1. UnpinRoot
  BY DEF TreeNext, AllocNode, CreateRoot, CreateLeaf, TypeNode, TypeRoot, TypeLeaf,
     Attach, UnpinLeaf, FreeNode, Open, InsertPinsRoot, InsertPinsFirst, TreeRefuses,
     Walk, allVars, treeVars, locals
<1>2. node = 0 /\ rootNode = 0 /\ buf[0] \in Node /\ buf[0].type = DATA_PAGE
  BY DEF TreeInv, CallInv
<1>3. buf[0].first \notin Pages
  BY <1>2, PagesNumbered, StoreAssumption DEF Node
<1>. QED  BY <1>1, <1>2, <1>3, UnpinRootFacts

\* btree_create makes no tree, whatever the pool, its history and the stack: the
\* leaf goes over the root (btree.c:276), into no first pointer (293), and the
\* unpin of the root (300) fails. The run that violates CreateMakesTree shows one.
THEOREM CreateNeverMakesTree == TreeSpec => NoTreeMade
<1>1. TreeInv /\ [TreeNext]_allVars =>
        [step = "unpin_root" /\ step' = "idle" =>
           /\ node = rootNode
           /\ buf[rootNode].type = DATA_PAGE
           /\ buf[rootNode].first \notin Pages
           /\ ret'.status = "STATUS_ERR"]_allVars
  BY NoTreeStep
<1>. QED  BY <1>1, TreeInvariant, PTL DEF TreeSpec, NoTreeMade

-----------------------------------------------------------------------------
(* The pins that are lost.                                                 *)

\* A call that pins gets a pin exactly if it returns, with STATUS_OK.
Counted ==
  held'[0] = IF at' = "idle" /\ ret'.status = "STATUS_OK" THEN held[0] + 1 ELSE held[0]

LEMMA PinCounted ==
  ASSUME IInv, NEW slot, NEW page, NEW content, at = "idle", Pin(slot, page, content)
  PROVE  Counted
<1>1. freelist = 0 /\ freelist # Nil /\ held \in [Frames -> Nat]
  BY PoolTypes
<1>2. CASE PinHit(slot)
  BY <1>1, <1>2, FirstFrame DEF PinHit, Counted, Result
<1>3. CASE PinFails(slot)
  BY <1>3 DEF PinFails, Counted, Result
<1>4. CASE PinFetch(slot, page, content)
  <2>1. CASE meta[0].next = Nil
    BY <1>1, <1>4, <2>1 DEF PinFetch, Counted
  <2>2. CASE meta[0].next # Nil
    BY <1>1, <1>4, <2>2, FirstFrame DEF PinFetch, Counted, Result
  <2>. QED  BY <2>1, <2>2
<1>. QED  BY <1>1, <1>2, <1>3, <1>4 DEF Pin

LEMMA NewFrameCounted ==
  ASSUME IInv, NEW slot \in Slots, NEW page \in Pages, NewFrame(slot, page)
  PROVE  Counted
<1>1. CASE BuffAllocFrame(slot, page)
  BY <1>1, PinCounted DEF BuffAllocFrame
<1>2. CASE Return("STATUS_BAD_WRITE")
  BY <1>2 DEF Return, Result, Counted
<1>. QED  BY <1>1, <1>2 DEF NewFrame

LEMMA PinNodeCounted ==
  ASSUME IInv, NEW slot \in Slots, NEW page, PinNode(slot, page)
  PROVE  Counted
<1>1. CASE Return("STATUS_META_PAGE")
  BY <1>1 DEF Return, Result, Counted
<1>2. CASE BuffPin(slot, page)
  BY <1>2, PinCounted DEF BuffPin
<1>3. CASE PinNoPage(slot)
  <2>1. freelist = 0 /\ held \in [Frames -> Nat]
    BY PoolTypes
  <2>. QED
    BY <1>3, <2>1, FirstFrame DEF PinNoPage, PinHit, PinFails, Counted, Result
<1>. QED  BY <1>1, <1>2, <1>3 DEF PinNode

\* No step gives a lost pin back; those that end a call early lose more.
LEMMA LostPinsStep ==
  ASSUME TreeInv, [TreeNext]_allVars
  PROVE  /\ LostPins <= LostPins'
         /\ step \in {"alloc_leaf", "first_page"} /\ step' = "idle" /\ allVars' # allVars =>
              LostPins < LostPins'
<1>0. /\ IInv /\ held[0] \in Nat /\ kept[0] \in Nat /\ held \in [Frames -> Nat]
      /\ kept \in [Frames -> Nat] /\ 0 \in Frames
  BY FirstFrame DEF TreeInv, CleanPool, TreeTypeOK, IInv, TypeOK
<1>1. CASE UNCHANGED allVars
  BY <1>0, <1>1 DEF allVars, vars, treeVars, locals, LostPins, CallPins
<1>2. ASSUME NEW slot \in Slots, NEW page \in Pages,
             AllocNode(slot, page) \/ CreateRoot(slot, page)
      PROVE  LostPins = LostPins' /\ step = "idle"
  <2>1. Counted
    BY <1>0, <1>2, NewFrameCounted DEF AllocNode, CreateRoot
  <2>2. /\ step = "idle" /\ kept' = kept
        /\ IF at' = "idle" /\ ret'.status = "STATUS_OK"
           THEN step' \in {"type_node", "type_root"} ELSE step' = "idle"
    BY <1>2 DEF AllocNode, CreateRoot, GoesOn
  <2>. QED  BY <1>0, <2>1, <2>2 DEF Counted, LostPins, CallPins
<1>3. ASSUME NEW slot \in Slots, NEW page \in Pages, CreateLeaf(slot, page)
      PROVE  IF step' = "idle" THEN LostPins < LostPins' ELSE LostPins = LostPins'
  <2>1. Counted
    BY <1>0, <1>3, NewFrameCounted DEF CreateLeaf
  <2>2. /\ step = "alloc_leaf" /\ kept' = kept
        /\ IF at' = "idle" /\ ret'.status = "STATUS_OK"
           THEN step' = "type_leaf" ELSE step' = "idle"
    BY <1>3 DEF CreateLeaf, GoesOn
  <2>. QED  BY <1>0, <2>1, <2>2 DEF Counted, LostPins, CallPins
<1>4. CASE TypeNode
  <2>1. node = 0 /\ step = "type_node" /\ step' = "idle" /\ held' = held
    BY <1>4 DEF TypeNode, SetType, ClientWrites, TreeInv, CallInv
  <2>2. kept'[0] = kept[0] + 1
    BY <1>0, <1>4, <2>1 DEF TypeNode
  <2>. QED  BY <1>0, <2>1, <2>2 DEF LostPins, CallPins
<1>5. CASE TypeRoot \/ TypeLeaf \/ Attach
  <2>1. /\ UNCHANGED <<held, kept>>
        /\ \/ step = "type_root" /\ step' = "alloc_leaf"
           \/ step = "type_leaf" /\ step' = "attach"
           \/ step = "attach" /\ step' = "unpin_leaf"
    BY <1>5 DEF TypeRoot, TypeLeaf, Attach, SetType, ClientWrites
  <2>. QED  BY <1>0, <2>1 DEF LostPins, CallPins
<1>6. CASE UnpinLeaf \/ UnpinRoot
  <2>1. BuffUnpin(0)
    BY <1>6 DEF UnpinLeaf, UnpinRoot, TreeInv, CallInv
  <2>2. held'[0] = held[0] - 1
    BY <1>0, <2>1 DEF BuffUnpin
  <2>3. /\ kept' = kept
        /\ \/ step = "unpin_leaf" /\ step' \in {"idle", "unpin_root"}
           \/ step = "unpin_root" /\ step' = "idle"
    BY <1>6 DEF UnpinLeaf, UnpinRoot, GoesOn
  <2>. QED  BY <1>0, <2>2, <2>3 DEF LostPins, CallPins
<1>7. ASSUME NEW f \in Frames, FreeNode(f)
      PROVE  LostPins = LostPins' /\ step = "idle"
  <2>1. f = 0 /\ held'[0] = held[0] - 1
    BY <1>0, <1>7, HeldFrame DEF FreeNode, BuffFreeFrame
  <2>2. kept'[0] = kept[0] - 1 /\ step = "idle" /\ step' = "idle"
    BY <1>0, <1>7, <2>1 DEF FreeNode, locals
  <2>. QED  BY <1>0, <2>1, <2>2 DEF LostPins, CallPins
<1>8. ASSUME NEW slot \in Slots, InsertPinsRoot(slot)
      PROVE  LostPins = LostPins' /\ step = "idle"
  <2>1. Counted
    BY <1>0, <1>8, PinNodeCounted DEF InsertPinsRoot
  <2>2. /\ step = "idle" /\ kept' = kept
        /\ IF at' = "idle" /\ ret'.status = "STATUS_OK"
           THEN step' = "first_page" ELSE step' = "idle"
    BY <1>8 DEF InsertPinsRoot, GoesOn
  <2>. QED  BY <1>0, <2>1, <2>2 DEF Counted, LostPins, CallPins
<1>9. ASSUME NEW slot \in Slots, InsertPinsFirst(slot)
      PROVE  LostPins < LostPins'
  <2>1. Counted
    BY <1>0, <1>9, PinNodeCounted DEF InsertPinsFirst
  <2>2. step = "first_page" /\ step' = "idle" /\ kept' = kept
    BY <1>9 DEF InsertPinsFirst
  <2>. QED  BY <1>0, <2>1, <2>2 DEF Counted, LostPins, CallPins
<1>10. CASE (\E page \in Pages : Open(page)) \/ TreeRefuses \/ Walk
  <2>1. UNCHANGED <<held, kept, step>> /\ step = "idle"
    BY <1>10
    DEF Open, TreeRefuses, Walk, Return, treeVars, locals, BuffFlushAll, BuffDestroy,
        StartWalk, WriteBack, WalkEnds
  <2>. QED  BY <1>0, <2>1 DEF LostPins, CallPins
<1>11. LostPins \in Int /\ LostPins' \in Int
  <2>1. held'[0] \in Nat /\ kept'[0] \in Nat
    BY TreeKeeps, FirstFrame DEF TreeInv, CleanPool, TreeTypeOK, IInv, TypeOK
  <2>. QED  BY <1>0, <2>1 DEF LostPins, CallPins
<1>12. CASE \E slot \in Slots, page \in Pages :
              AllocNode(slot, page) \/ CreateRoot(slot, page) \/ CreateLeaf(slot, page)
  BY <1>2, <1>3, <1>11, <1>12
<1>13. CASE \E f \in Frames : FreeNode(f)
  BY <1>7, <1>11, <1>13
<1>14. CASE \E slot \in Slots : InsertPinsRoot(slot) \/ InsertPinsFirst(slot)
  BY <1>8, <1>9, <1>11, <1>14
<1>. QED
  BY <1>1, <1>4, <1>5, <1>6, <1>10, <1>12, <1>13, <1>14 DEF TreeNext

\* btree_create and btree_insert lose pins on their early returns, and nothing
\* that is called later gives one back.
THEOREM PinsLostForGood == TreeSpec => LostPinsStayLost
<1>1. TreeInv /\ [TreeNext]_allVars =>
        [/\ LostPins <= LostPins'
         /\ step \in {"alloc_leaf", "first_page"} /\ step' = "idle" =>
              LostPins < LostPins']_allVars
  BY LostPinsStep
<1>. QED  BY <1>1, TreeInvariant, PTL DEF TreeSpec, LostPinsStayLost

-----------------------------------------------------------------------------
(* The tree leaves of the pool what OneFramePool lets it: its calls are    *)
(* steps of the pool, those that end on an error or in a crash included.   *)

\* A pin of a page that is not in the file loads nothing.
LEMMA PinNoPageRefines ==
  ASSUME IInv, NEW slot \in Slots, PinNoPage(slot)
  PROVE  Pool!PinNothing
<1>1. /\ at = "idle" /\ (PinHit(slot) \/ PinFails(slot))
      /\ UNCHANGED <<writeback, disk, owned, cursor>>
  BY DEF PinNoPage
<1>2. CASE PinHit(slot)
  BY <1>1, <1>2, PoolTypes, FirstFrame
  DEF PinHit, Result, Pool!PinNothing, Pool!HandOut, Pool!store
<1>3. CASE PinFails(slot)
  BY <1>1, <1>3
  DEF PinFails, Result, Pool!PinNothing, Pool!FailToLoad, Pool!frame, Pool!store
<1>. QED  BY <1>1, <1>2, <1>3

\* A pin of whatever page the tree names: a link, the root, the metadata page.
LEMMA PinNodeRefines ==
  ASSUME IInv, NEW slot \in Slots, NEW page, PinNode(slot, page)
  PROVE  Pool!Next
<1>1. CASE Return("STATUS_META_PAGE")
  BY <1>1, ReturnRefines DEF Pool!Next
<1>2. CASE page \in Pages /\ disk[page] # Absent /\ BuffPin(slot, page)
  BY <1>2, BuffPinRefines DEF Pool!Next
<1>3. CASE PinNoPage(slot)
  BY <1>3, PinNoPageRefines DEF Pool!Next
<1>. QED  BY <1>1, <1>2, <1>3 DEF PinNode

\* The frame and page of a node, or a failure.
LEMMA NewFrameRefines ==
  ASSUME IInv, NEW slot \in Slots, NEW page \in Pages, NewFrame(slot, page)
  PROVE  Pool!Next
BY BuffAllocFrameRefines, ReturnRefines DEF NewFrame, Pool!Next

\* A store into the node of frame 0.
LEMMA NodeWriteRefines ==
  ASSUME IInv, NEW data \in Node, ClientWrites(0, data)
  PROVE  Pool!Next
BY NodeAssumption, FirstFrame, ClientWritesRefines DEF Pool!Next

LEMMA SetTypeRefines ==
  ASSUME CleanPool, NEW type \in {DIR_PAGE, DATA_PAGE}, SetType(0, type)
  PROVE  Pool!Next
BY SetTypeWrites, NodeWriteRefines DEF CleanPool

LEMMA AttachRefines == TreeInv /\ Attach => Pool!Next
<1> SUFFICES ASSUME TreeInv, Attach PROVE Pool!Next
  OBVIOUS
<1>1. rootNode = 0 /\ node = 0 /\ buf[0] \in Node
  BY DEF Attach, TreeInv, CallInv
<1>2. meta[0].index \in Pages \cup {METADATA}
  BY PoolFacts DEF TreeInv, CleanPool, MetaFrame
<1>3. [buf[0] EXCEPT !.second = meta[0].index] \in Node
  BY <1>1, <1>2 DEF Node
<1>4. ClientWrites(0, [buf[0] EXCEPT !.second = meta[0].index])
  BY <1>1 DEF Attach
<1>. QED  BY <1>3, <1>4, NodeWriteRefines DEF TreeInv, CleanPool

\* Whatever the tree does to the pool is a step of the pool.
THEOREM TreeImplementsPool == TreeSpec => Refines
<1>1. TreeInit => Pool!Init
  BY InitRefines DEF TreeInit
<1>2. TreeInv /\ [TreeNext]_allVars => [Pool!Next]_(Pool!vars)
  <2> SUFFICES ASSUME TreeInv, [TreeNext]_allVars
               PROVE  Pool!Next \/ UNCHANGED Pool!vars
    OBVIOUS
  <2>0. IInv /\ CleanPool
    BY DEF TreeInv, CleanPool
  <2>1. CASE UNCHANGED allVars
    BY <2>1 DEF allVars, vars, Pool!vars, Pool!frame, Pool!store
  <2>2. ASSUME NEW slot \in Slots, NEW page \in Pages,
               AllocNode(slot, page) \/ CreateRoot(slot, page) \/ CreateLeaf(slot, page)
        PROVE  Pool!Next
    BY <2>0, <2>2, NewFrameRefines DEF AllocNode, CreateRoot, CreateLeaf
  <2>3. CASE TypeNode
    <3>1. node = 0
      BY <2>3 DEF TypeNode, TreeInv, CallInv
    <3>. QED  BY <2>0, <2>3, <3>1, SetTypeRefines DEF TypeNode
  <2>4. CASE TypeRoot
    <3>1. rootNode = 0 /\ SetType(0, DIR_PAGE)
      BY <2>4 DEF TypeRoot, TreeInv, CallInv
    <3>. QED  BY <2>0, <3>1, SetTypeRefines
  <2>5. CASE TypeLeaf
    <3>1. node = 0 /\ SetType(0, DATA_PAGE)
      BY <2>5 DEF TypeLeaf, TreeInv, CallInv
    <3>. QED  BY <2>0, <3>1, SetTypeRefines
  <2>6. CASE Attach
    BY <2>6, AttachRefines
  <2>7. CASE UnpinLeaf \/ UnpinRoot
    <3>1. BuffUnpin(0)
      BY <2>7 DEF UnpinLeaf, UnpinRoot, TreeInv, CallInv
    <3>. QED  BY <2>0, <3>1, FirstFrame, BuffUnpinRefines DEF Pool!Next
  <2>8. ASSUME NEW f \in Frames, FreeNode(f)
        PROVE  Pool!Next
    BY <2>0, <2>8, BuffFreeFrameRefines DEF FreeNode, Pool!Next
  <2>9. ASSUME NEW page \in Pages, Open(page)
        PROVE  Pool!Next
    BY <2>9, ReturnRefines DEF Open, Pool!Next
  <2>10. ASSUME NEW slot \in Slots, InsertPinsRoot(slot) \/ InsertPinsFirst(slot)
         PROVE  Pool!Next
    BY <2>0, <2>10, PinNodeRefines DEF InsertPinsRoot, InsertPinsFirst
  <2>11. CASE TreeRefuses
    BY <2>11, ReturnRefines DEF TreeRefuses, Pool!Next
  <2>12. CASE Walk
    BY <2>0, <2>12, StartWalkRefines, WriteBackRefines, WalkEndsRefines
    DEF Walk, Pool!Next
  <2>. QED
    BY <2>1, <2>2, <2>3, <2>4, <2>5, <2>6, <2>7, <2>8, <2>9, <2>10, <2>11, <2>12
    DEF TreeNext
<1>. QED
  BY <1>1, <1>2, TreeInvariant, PTL DEF TreeSpec, Refines, Pool!Spec

=============================================================================
