-------------------------------- MODULE BTree --------------------------------
(***************************************************************************)
(* The B-tree of src/lib/datastructures/btree.c as a client of the buffer  *)
(* manager, in a program whose pins are the tree's: what its functions     *)
(* that do something pin, write into frames and give back. One action per  *)
(* call of the buffer manager or store into a node.                        *)
(*                                                                         *)
(* Line 396 is read as btree_get_sep_list(config, root_node): as it stands *)
(* the file does not compile. Nothing stores a separator, so the list is   *)
(* empty wherever it is looked for (line 399); keys and records are not    *)
(* modelled.                                                               *)
(***************************************************************************)
EXTENDS BufferManager

\* The upper half of the link -1 and the four zeros behind it, as a page: it is
\* 4294967295, behind every file that the next assumption lets in.
CONSTANT Outside

\* In a store below 4 GiB the upper half of a link is that of -1 or zero.
ASSUME StoreAssumption == MaxPages < 1048576 /\ Outside \notin Pages \cup {METADATA}

VARIABLES
  root,      \* config->root
  step,      \* what the call in progress does next
  rootNode,  \* root_frame of btree_create and btree_insert
  node,      \* the frame of the node allocated last
  kept       \* how many nodes of each frame clients of btree_alloc_node have

locals == <<step, rootNode, node>>
treeVars == <<root, locals, kept>>
allVars == <<vars, treeVars>>

-----------------------------------------------------------------------------

NoTree == -1                   \* an empty configuration: no manager

DIR_PAGE == "dir_page"
DATA_PAGE == "data_page"

\* A node: its type and the first two pages of its list.
Node == [type : {DIR_PAGE, DATA_PAGE}, first : {METADATA, Outside},
         second : Pages \cup {METADATA}]

ASSUME NodeAssumption == Data = Node

\* The list of pages starts behind the type, at the fourth byte of the page.
\* In a page the store reuses, that is the middle of a link.
FirstOf(content) ==
  CASE content = Blank -> {METADATA}
    [] content \in {Free, Absent} -> {METADATA, Outside}
    [] OTHER -> {content.first}

SecondOf(content) ==
  IF content \in {Blank, Free, Absent} THEN METADATA ELSE content.second

TreeInit ==
  /\ Init
  /\ root = NoTree
  /\ step = "idle" /\ rootNode = Nil /\ node = Nil
  /\ kept = [f \in Frames |-> 0]

\* The call goes on after a call of the manager that succeeded, and returns
\* the status of one that did not.
GoesOn(next) ==
  step' = IF at' = "idle" /\ ret'.status = "STATUS_OK" THEN next ELSE "idle"

\* The frames the call has in its locals, which go with it.
Locals(r, n) ==
  IF step' = "idle" THEN rootNode' = Nil /\ node' = Nil
  ELSE rootNode' = r /\ node' = n

\* A call that returns before it does anything: no configuration or manager,
\* no such type of node, no node to free, no key, a root or key size of zero.
TreeRefuses ==
  /\ step = "idle"
  /\ \E status \in {"STATUS_NO_CONFIG", "STATUS_NO_MANAGER", "STATUS_ERR", "STATUS_OK"} :
       Return(status)
  /\ UNCHANGED treeVars

-----------------------------------------------------------------------------
(* btree_alloc_node, by itself and twice in btree_create.                  *)

\* The frame and page of a node; or alloc_page fails.
NewFrame(slot, page) ==
  BuffAllocFrame(slot, page) \/ (Faults /\ Return("STATUS_BAD_WRITE"))

\* The node in frame f becomes one of the given type.
SetType(f, type) ==
  \E first \in FirstOf(buf[f]) :
    ClientWrites(f, [type |-> type, first |-> first, second |-> SecondOf(buf[f])])

AllocNode(slot, page) ==
  /\ step = "idle" /\ root # NoTree
  /\ NewFrame(slot, page)
  /\ GoesOn("type_node")
  /\ Locals(Nil, ret'.frame)
  /\ UNCHANGED <<root, kept>>

TypeNode ==
  /\ step = "type_node"
  /\ \E type \in {DIR_PAGE, DATA_PAGE} : SetType(node, type)
  /\ step' = "idle"
  /\ kept' = [kept EXCEPT ![node] = @ + 1]
  /\ Locals(rootNode, node)
  /\ UNCHANGED root

\* btree_free_node: the client gives the node back whatever the status is.
FreeNode(f) ==
  /\ step = "idle"
  /\ kept[f] > 0
  /\ BuffFreeFrame(f)
  /\ kept' = [kept EXCEPT ![f] = @ - 1]
  /\ UNCHANGED <<root, locals>>

-----------------------------------------------------------------------------
(* btree_create. A return on an error leaves what was done: the root's pin *)
(* and page stay when the leaf cannot be had.                              *)

CreateRoot(slot, page) ==
  /\ step = "idle"
  /\ NewFrame(slot, page)
  /\ GoesOn("type_root")
  /\ Locals(ret'.frame, Nil)
  /\ root' = IF root = NoTree THEN METADATA ELSE root   \* it has its manager
  /\ UNCHANGED kept

TypeRoot ==
  /\ step = "type_root"
  /\ SetType(rootNode, DIR_PAGE)
  /\ root' = meta[rootNode].index
  /\ step' = "alloc_leaf"
  /\ UNCHANGED <<rootNode, node, kept>>

\* Faulty: without a leaf the call goes on to the unpins all the same.
CreateLeafGoesOn(slot, page) ==
  /\ step = "alloc_leaf"
  /\ NewFrame(slot, page)
  /\ node' = ret'.frame
  /\ step' = IF ret'.status = "STATUS_OK" THEN "type_leaf" ELSE "unpin_leaf"
  /\ UNCHANGED <<root, rootNode, kept>>

CreateLeaf(slot, page) ==
  /\ step = "alloc_leaf"
  /\ NewFrame(slot, page)
  /\ GoesOn("type_leaf")
  /\ Locals(rootNode, ret'.frame)
  /\ UNCHANGED <<root, kept>>

\* Faulty: the leaf is made a directory.
TypeLeafDir ==
  /\ step = "type_leaf"
  /\ SetType(node, DIR_PAGE)
  /\ step' = "attach"
  /\ UNCHANGED <<root, rootNode, node, kept>>

TypeLeaf ==
  /\ step = "type_leaf"
  /\ SetType(node, DATA_PAGE)
  /\ step' = "attach"
  /\ UNCHANGED <<root, rootNode, node, kept>>

\* The leaf's page goes to index 1 of the root's list.
Attach ==
  /\ step = "attach"
  /\ ClientWrites(rootNode, [buf[rootNode] EXCEPT !.second = meta[node].index])
  /\ step' = "unpin_leaf"
  /\ UNCHANGED <<root, rootNode, node, kept>>

UnpinLeaf ==
  /\ step = "unpin_leaf"
  /\ BuffUnpin(node)
  /\ GoesOn("unpin_root")
  /\ Locals(rootNode, node)
  /\ UNCHANGED <<root, kept>>

UnpinRoot ==
  /\ step = "unpin_root"
  /\ BuffUnpin(rootNode)
  /\ step' = "idle"
  /\ Locals(rootNode, node)
  /\ UNCHANGED <<root, kept>>

-----------------------------------------------------------------------------
(* btree_open, and btree_insert as far as it is written. Neither reads or  *)
(* checks the page it takes for the root.                                  *)

Open(page) ==
  /\ step = "idle"
  /\ Return("STATUS_OK")
  /\ root' = page
  /\ UNCHANGED <<locals, kept>>

\* buff_pin of a page that is not in the file: it cannot be read, unless the
\* pin is taken for one of a page that is pinned.
PinNoPage(slot) ==
  /\ at = "idle" /\ freelist # Nil
  /\ \A f \in Frames : held[f] < MaxPins   \* bound
  /\ PinHit(slot) \/ PinFails(slot)
  /\ UNCHANGED <<freelist, writeback, disk, owned, cursor>>

\* buff_pin of whatever page the tree names.
PinNode(slot, page) ==
  \/ page = METADATA /\ Return("STATUS_META_PAGE")
  \/ page \in Pages /\ disk[page] # Absent /\ BuffPin(slot, page)
  \/ /\ page # METADATA /\ (page \in Pages => disk[page] = Absent)
     /\ PinNoPage(slot)

InsertPinsRoot(slot) ==
  /\ step = "idle" /\ root # NoTree
  /\ PinNode(slot, root)
  /\ GoesOn("first_page")
  /\ Locals(ret'.frame, Nil)
  /\ UNCHANGED <<root, kept>>

\* Insert follows the page at index 0. No pin is given back.
InsertPinsFirst(slot) ==
  /\ step = "first_page"
  /\ \E first \in FirstOf(buf[rootNode]) : PinNode(slot, first)
  /\ step' = "idle"
  /\ Locals(rootNode, node)
  /\ UNCHANGED <<root, kept>>

\* The client flushes or destroys the manager.
Walk ==
  /\ step = "idle"
  /\ BuffFlushAll \/ BuffDestroy \/ WriteBack \/ WalkEnds
  /\ UNCHANGED treeVars

-----------------------------------------------------------------------------

TreeNext ==
  \/ \E slot \in Slots, page \in Pages :
       AllocNode(slot, page) \/ CreateRoot(slot, page) \/ CreateLeaf(slot, page)
  \/ TypeNode \/ TypeRoot \/ TypeLeaf \/ Attach \/ UnpinLeaf \/ UnpinRoot
  \/ \E f \in Frames : FreeNode(f)
  \/ \E page \in Pages : Open(page)
  \/ \E slot \in Slots : InsertPinsRoot(slot) \/ InsertPinsFirst(slot)
  \/ TreeRefuses \/ Walk

TreeSpec == TreeInit /\ [][TreeNext]_allVars

-----------------------------------------------------------------------------
(* Properties. *)

Steps == {"idle", "type_node", "type_root", "alloc_leaf", "type_leaf", "attach",
          "unpin_leaf", "unpin_root", "first_page"}

\* Type invariant of btree_config and the locals of the calls.
TreeTypeOK ==
  /\ root \in Pages \cup {METADATA, NoTree}
  /\ step \in Steps
  /\ rootNode \in Pointers /\ node \in Pointers
  /\ step = "idle" => rootNode = Nil /\ node = Nil
  /\ kept \in [Frames -> Nat]

\* No node ever reaches the store, whatever is created, freed, flushed or
\* destroyed: no function of btree.c marks a page it has written to.
NodesNeverSaved ==
  \A p \in Pages : disk[p] \in {Absent, Free, Blank}

\* The pins of frame 0 that the call in progress has, and those that neither a
\* client has nor a call.
CallPins ==
  IF step \in {"type_leaf", "attach", "unpin_leaf"} THEN 2
  ELSE IF step \in {"type_node", "type_root", "alloc_leaf", "unpin_root", "first_page"} THEN 1
  ELSE 0
LostPins == held[0] - kept[0] - CallPins

\* A lost pin is never given back, by whatever is called after it. Without a
\* leaf btree_create loses the root's (line 278), and every insert that comes
\* to its second pin loses one at least (line 405): it has no unpin.
LostPinsStayLost ==
  [][/\ LostPins <= LostPins'
     /\ step \in {"alloc_leaf", "first_page"} /\ step' = "idle" =>
          LostPins < LostPins']_allVars

\* The pool under the tree is frame 0, and nothing in it is ever dirty.
CleanPool ==
  /\ IInv /\ NodesNeverSaved
  /\ writeback = Nil
  /\ meta[0].state \in {FS_PINNED, FS_UNPINNED}

\* Each step of a call finds what the steps before have left.
CallInv ==
  /\ step # "idle" => at = "idle"
  /\ step \in {"type_root", "alloc_leaf", "type_leaf", "attach", "unpin_leaf",
               "unpin_root", "first_page"} => rootNode = 0
  /\ step \in {"type_node", "type_leaf", "attach", "unpin_leaf", "unpin_root"} => node = 0
  /\ step \in {"attach", "unpin_leaf", "unpin_root"} =>
       buf[0] \in Node /\ buf[0].type = DATA_PAGE
  /\ step = "unpin_root" => meta[0].state = FS_UNPINNED

\* What makes the above inductive.
TreeInv == CleanPool /\ TreeTypeOK /\ CallInv

\* What btree_create is for, by its comments: a new root that is a directory
\* (btree.c:254), an empty child leaf, which is a node of its own (274), the
\* leaf's page as the root's first pointer (291), both unpinned (295), and
\* STATUS_OK (311). At its last call, which is the unpin of the root, the nodes
\* are written and that unpin is all there is left to do.
CreateMakesTree ==
  [][step = "unpin_root" /\ step' = "idle" =>
       /\ node # rootNode
       /\ buf[rootNode].type = DIR_PAGE
       /\ buf[rootNode].first = meta[node].index
       /\ ret'.status = "STATUS_OK"]_allVars

=============================================================================
