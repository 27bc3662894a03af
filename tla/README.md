# A TLA+ model of nickdb

nickdb is a small database library in C: a store of pages in one file
(`fileio.c`), a buffer manager that pins pages in frames (`buffer_manager.c`),
the beginnings of a B-tree (`btree.c`), and a header of linked lists
(`linkedlist.h`). This directory holds TLA+ modules
translated from that code, the TLC configurations that check them, and proofs
of their main properties. Paths below are relative to the repository's
`src/lib/` unless they say otherwise.

## 1. The system

| part | code | state | operations |
|---|---|---|---|
| backing files | `fileio.c:36-155` | the number of a descriptor in each `backing` struct; files in a directory | `create_new_backing`, `open_backing`, `close_backing`, `remove_backing` |
| page store | `fileio.c:163-429` | the file: metadata page (size, first and last free page), pages, a linked list of free pages inside them | `alloc_page`, `free_page`, `get_page`, `put_page` |
| buffer manager | `buffer_manager.c` | frames, `metaframes` (state, page, next pointer), `freelist`, `writeback`, `lookup_table` | `buff_create`, `buff_destroy`, `buff_pin`, `buff_unpin`, `buff_alloc_frame`, `buff_free_frame`, `buff_mark_page`, `buff_flush_all` |
| B-tree | `datastructures/btree.c` | a config (manager, root, key size, comparator); nodes in frames | `btree_create`, `btree_open`, `btree_alloc_node`, `btree_free_node`, the first half of `btree_insert`; separators and records are unfinished, remove and destroy are stubs |
| linked lists | `datastructures/linkedlist.h` | the pointers of heads and entries; a changed copy of the Linux kernel's `list.h`. No file includes it yet; four TODOs of `buffer_manager.c` (54, 102, 138, 206) plan to | add, delete, move, splice, loops; the same with one pointer in the head |
| statuses | `constants.[ch]` | - | names of the statuses |
| main | `../nickdb.c` | - | prints a message |

They call downwards only: B-tree -> buffer manager -> page store -> file. The
lists stand beside them. There are no threads, callbacks, locks or messages. What makes the code hard is
elsewhere:

* **One call is several writes.** `alloc_page` and `free_page` do two or three
  `pwrite`s. Each may fail, and the process may die between any two; nothing is
  undone. What the next call finds depends on their order.
* **The free list lives in the free pages.** A page in the wrong place of it
  is handed to two clients, or its data is read as a link.
* **Nothing is checked on the way in.** A page can be freed twice, put while it
  is free, or pinned twice.
* **One next pointer serves two lists.** A frame is on the free list or on the
  list to write back by the same field, `next_free_or_dirty`.
* **Stale numbers and addresses.** A closed `backing` keeps its descriptor
  number; the lookup table keeps addresses of locals of calls that returned.
* **A call needs two of what there is one of.** `btree_create` pins a root and a
  leaf at once in a pool that serves one frame.
* **Pointers change under a loop or an operation.** A list's neighbours may be one
  node, and the loops that are safe against removal keep a pointer over it.

What makes each part correct, in short: the page store is a faithful map from
pages to contents that never gives one page to two owners; a backing reaches its
own file only, and a failed call leaves no descriptor behind; the manager
returns the frame of the page asked for, loses no dirty frame, and its two lists
hold what their comments say; the tree's nodes are the pages it says and reach
the store; a linked list is a sequence, in both directions.

## 2. Modules

| module | models | of it |
|---|---|---|
| `PageAllocator` | abstract: what the page store promises, no file | pages owned with their contents, the queue of free pages, pages adrift |
| `FileIO` | page store | every `pwrite` is a step; failure and crash at each |
| `FileIO_proofs` | | invariants, action properties and refinement, proved |
| `Backing` | backing files | several structs, names, files and descriptors |
| `Backing_proofs` | | invariants, proved |
| `OneFramePool` | abstract: what the buffer manager does for its clients, no frames and no lists | the page in the one frame, what it holds, whether it waits to be written |
| `BufferManager` | buffer manager | every call, and each step of a flush |
| `BufferManager_proofs` | | invariants, an action property and the refinement of `OneFramePool`, proved |
| `BTree` | B-tree over `BufferManager` | every call of the manager and every store into a node is a step |
| `BTree_proofs` | | invariants, action properties, that the tree keeps to `OneFramePool` and that no call makes a tree, proved |
| `ListNodes` | linked lists | the null pointer and the two poisons |
| `Chains` | lists that are kept as links | the walk along the links from an item (`Along`) |
| `Lists` | abstract: sequences that share no item | insert, delete, move, splice, each at a position |
| `LinkedList` | `linkedlist.h:51-233, 276-284, 357-369` | every operation, and the steps of a loop |
| `HashList` | `linkedlist.h:374-460` | every operation |
| `Chains_proofs` | | what the walk finds after links are changed, proved |
| `LinkedList_proofs` | | invariants of the links, proved |
| `ListSequences_proofs` | | refinement of `Lists`, stacks and queues, the loops, proved |
| `HashList_proofs` | | invariants and refinement of `Lists`, proved |
| `MCFileIO`, `MCBacking`, `MCBufferManager`, `MCBTree`, `MCLists` | | constants and symmetry for TLC |

`FileIO` takes up one open backing and is what happens between the open and the
close of `Backing`; that an open backing reaches one file, and no other backing
its descriptor, is `Backing!BackingsKeepTheirFile`. `BufferManager` keeps the
page store abstract (which pages are owned, what each holds), as `PageAllocator`
does; that `FileIO` keeps owned pages apart and intact is `FileIO!Refines`.
`BTree` extends `BufferManager`: its actions are the manager's, joined with what
the tree's call keeps in its locals, so a step of the tree is a step of the
manager. `MCLists` runs the two kinds of lists side by side; they share nothing.

An operator whose comment begins with "Faulty:" is not part of the model: it is
one definition with a plausible mistake in it, kept beside the right one to show
that the property about it can be violated.

### FileIO

* `disk` is the file in blocks of `PAGESIZE`, `eof` its length. A page is its
  first three words, the ones the code reads: three in the metadata page, one in
  a free page. Offsets and indices are numbers and are converted as the code
  does (`index_to_offset`, `offset_to_index`), including where it converts twice.
* `call` holds the locals of the call in progress and names the `pwrite` it does
  next: `alloc_page` is `AllocReuse`, `ReusePage`, `ReuseMeta` when there is a
  free page (lines 201-247), else `AllocExtend`, `ExtendBlank`, `ExtendData`,
  `ExtendMeta` (252-280). `free_page` is `FreePageCall` and then `FirstPage`,
  `FirstMeta` (321-339) or `AppendOld`, `AppendPage`, `AppendMeta` (343-367).
  The reads at the start of a call are part of its first step.
* `PwriteFails` is the error path of the pending write, `Crash` the end of the
  process before it; what was written before stays. A short write counts as one
  that left its block alone.
* `live`, `freeq`, `adrift` are history: the pages clients own, the queue the
  list should be, and pages in neither place. A page is adrift while `free_page`
  runs and stays so if it stops; a crash loses it for good, or `alloc_page` finds
  it again through the link of the last free page.
* `Client` says what `free_page` is given: pages its caller owns (`"owner"`),
  or free ones too (`"refree"`). `FaultMode` says where calls may stop: nowhere,
  everywhere, or everywhere but at three points that harm the list (`"safe"`,
  see `UnsafePoint`).

### Backing

`storefd` is the struct's field, `fds` the table of descriptors (`open` gives the
lowest free number, 0 is the standard input), `dir` and `contents` the files.
Opening and truncating in `create_new_backing` is one step, the write of the
metadata the next; failures close the descriptor as the code does
(`close_backing` on number -1 when the open failed). `Crash` may come at any
point. Clients use a struct for one open store at a time and close it once; any
two structs may name the same file, and any name may be removed or created
again while it is open.

### BufferManager

* The initial state is what lines 63-92 of `buff_create` build. `buff_create`
  itself never gets there: it passes a null `store` to `open_backing`, which
  stores into it (line 57-58).
* `PinFetch` is line 187 as written: `*manager->freelist = *manager->freelist
  ->next_free_or_dirty` copies the next frame's struct over the first one's. With
  a null next pointer it is a crash (`at = "crashed"`).
* `table` holds the keys of `lookup_table`. They are addresses of a local of
  `buff_pin` compared as pointers, so they are drawn from `Slots`: a pin hits
  exactly when an earlier pin's local was at the same place. `buff_unpin`'s
  removals look for heap addresses and never find any. The value found is not
  used.
* `buff_flush_all` and the loop of `buff_destroy` are a walk with a `cursor`;
  `WriteBack` is one iteration. After the loop `buff_destroy` aborts if the table
  has an entry: its keys and values go to `free`.
* `held` counts the pins a client has not given back. Clients unpin, free, mark
  and write only frames they hold.
* A `free_page` that fails inside `buff_free_frame` may have done nothing, written the
  page's link, or linked the page already (`fileio.c:328-363`): the page keeps what it
  holds or is free, and it is the client's or may be handed out again.
* `OneFramePool` is what is left of it for a client. It is abstract in that it has
  no frames, next pointers, heads of lists or cursor, and it says in one place what
  a client can rely on: the same frame for every pin, loaded from a new stack
  address and handed out as it is from an old one; once it was unpinned dirty it
  waits for good and every walk writes it, once or again and again, to the page
  it holds by then. A client may name any page: `PinPage` is a pin of one in the
  file, `PinNothing` of one that is not. It is not what the comments promise:
  section 6 has that.

### BTree

* `step` is what the call in progress does next. `btree_create` is `CreateRoot`,
  `TypeRoot`, `CreateLeaf`, `TypeLeaf`, `Attach`, `UnpinLeaf`, `UnpinRoot`; a call
  of the manager that fails ends it there (`GoesOn`), with whatever it holds, and its
  locals are gone (`Locals`).
  `btree_alloc_node` by itself is `AllocNode`, `TypeNode`; `btree_insert` is
  `InsertPinsRoot`, `InsertPinsFirst`. `TreeRefuses` is every return before
  anything is done, those of the stub `btree_remove` included.
* A node is its type and the first two entries of its list of pages; the rest of
  the page is not read by anything that is finished. The list starts four bytes into
  the page, so in a page the store reuses, index 0 is half of a link: `FirstOf`
  gives the values it may have.
* Clients free nodes they allocated (`kept`), open any page as a root, and flush or
  destroy the manager between calls (`Walk`).
* Line 396 calls `btree_get_sep_list` with one argument and does not compile; it is
  read as `btree_get_sep_list(config, root_node)`. The list it gives is empty, as
  nothing stores a separator.

### LinkedList and HashList

* `node` is `struct list_head` of every head and entry, `cell` and `pprev` are the
  pointers of the hash lists. An operator per helper (`Between` for `__list_add`,
  `Without` for `__list_del`, `Spliced`, `Unhash`) says what it makes of the nodes,
  its assignments in the code's order, so that neighbours that are one node come
  out as they do there.
* `owner` and `stale` are history: on whose list a node is, and which heads
  `list_splice` emptied and left pointing into the other list.
* Clients keep to the comments: they add what is on no list and remove what is on
  one or was reinitialised. Anchors of an insertion may be entries as well as heads.
* A loop (`LoopStarts`, `LoopGoesOn`, `LoopEnds`) is `list_for_each_safe` forwards,
  `list_for_each_entry_safe_reverse` backwards. Its body is any operations on the
  entry at `pos` that take it off or put it on another list, and operations on
  entries before it is done with `pos`. `visited` and `due` are history.
* `Contents` and `HashContents`, the sequences that `Lists` is told of, are the walk
  from a head: `Along`, a recursive function that stops after as many steps as
  there are items.
* The hash lists have no loop of their own here: `hlist_for_each_safe` is the same
  walk in one direction.

## 3. Runs

| run | configuration | checks |
|---|---|---|
| `store_life` | `Backing_life.cfg`, 3 structs, 2 names, 3 files, 2 free numbers | open backings keep their file, no descriptor leaks, created stores stay whole |
| `page_crash` | `FileIO_crash.cfg`, 4 pages, faults at safe points, pages freed twice | the list in the file, accounting of pages, fresh pages, data of live pages, refinement of `PageAllocator` |
| `page_anyfault` | `FileIO_anyfault.cfg`, 5 pages of 2 bytes, faults anywhere, two words of data that are no offset | metadata is written last, fresh pages, data of live pages, refinement of `PageAllocator`, the invariant of the ruined list (`PlainInv`) |
| `buffer_pool` | `Buffer_pool.cfg`, 3 frames, 2 pages, 2 addresses, faults | one frame serves all, dirty frames are listed, a flush saves what it marks clean, refinement of `OneFramePool` |
| `tree_calls` | `BTree_calls.cfg`, 3 frames, 3 pages, 2 addresses, faults | what of a tree reaches the store, what each step of a call finds, that lost pins stay lost, and that all the tree does to the manager is what `OneFramePool` allows |
| `list_ops` | `Lists_ops.cfg`, 2 lists of 3 entries, 2 hash lists of 3 nodes | both directions agree, stacks and queues, the loop visits all, ends, and follows no bad pointer, refinement of `Lists` |
| `null_alloc` | `FileIO_nullalloc.cfg` | violated: a page allocated without a source is blank |
| `stopped_free` | `FileIO_stoppedfree.cfg` | violated: links name free pages |
| `buffer_pinpage` | `Buffer_pinpage.cfg` | violated: a pin returns the frame of its page |
| `buffer_freed` | `Buffer_freed.cfg` | violated: no flush writes to a page that was freed |
| `buffer_flushends` | `Buffer_flushends.cfg` | violated: `buff_flush_all` returns |
| `tree_create` | `BTree_create.cfg` | violated: `btree_create` makes a root that is a directory, with a leaf of its own as its first pointer, and succeeds |

The passing runs together show what the code gets right: without the second
conversion of line 230 and with faults kept from three points, the store is a
correct allocator through every failure and crash; even with calls stopped anywhere,
and a list in the file that is ruined for good, it is one as long as data is not taken
for an offset: such a list hands out fewer pages, but none twice; and the linked
lists are sequences through every sequence of operations, whatever a loop's body
removes. Two properties of `tree_calls`, `NodesNeverSaved` and `LostPinsStayLost`, state
what the tree's finished calls leave undone (they mark no page and give some pins back on no
path); no comment says that they do it, and a change that mends either will break
the run. The violated runs are disagreements between the code and its own comments
(section 6).

The hazard of calls that stop at the three unsafe points is exercised by `page_anyfault`
and, where it does harm, by `stopped_free`; `page_crash` has the safe points, with clients
that free a page twice and data that looks like a link.

**Bounds.** `MaxSize = 4` gives three data pages: enough for a list with a
first, a middle and a last page, for one-page lists, for two owners and for a
page freed again in the middle of the list. `PAGESIZE` is 4 so that a small
store has as many bytes in a page as pages (as with 4096 until the store is 16
MiB); 2 in `page_anyfault` to have more pages than that.
`LinkLikeData` is data that reads as the offset of page 1, the worst where a
link is expected; `TextData` has two words, one that
reads as an offset behind every file and one that is negative but not the end of a
list. Three frames
give the pool a middle one; `MaxPins = 2` allows a frame pinned twice; two
addresses are enough for a hit and a miss, two pages for a mix-up. The size, the pins and the descriptors are
bounded by guards marked `bound` in the modules, or by the constant's range.

In `tree_calls`, `MaxPages = 3` is a tree's two pages and another client's or a
freed one; `MaxPins = 3` lets a client hold a node while `btree_create` holds two;
both stack addresses let a pin hit, miss and crash. `Outside` stands for the one
index behind the file that half of a link can be. In `list_ops` two lists and three
entries give a list with a first, a middle and a last entry, lists of one and two
entries whose neighbours coincide, and a list to move to or splice into. The hash
lists run first and the others after they are back in their initial state, or
never: they share nothing, so their interleavings add states and no behaviour.

**Deadlock** is checked in the runs of `FileIO`, `Backing` and the lists.
`BufferManager` may end, and `BTree` with it: the process crashes, aborts, or has
destroyed its manager.

**Fairness** appears twice, for the two kinds of loops: `BufferManager!FairSpec`,
weak fairness of the two steps of a walk, and `LinkedList!ListFairness`, of the
two of a loop over a list. One thread, no locks and no waiting: a loop that can go
on does. That `LoopTerminates` holds is not fairness alone: the loop could come to
a poisoned pointer, or go round a list that lacks its head. The counterexample of
`FlushEnds` ends in an iteration that changes nothing because the frame's
next pointer is the frame itself, so the endless loop shows as stuttering.

**Symmetry** is used where the runs check safety: structs, names, files, stack
addresses and data; `OneFramePool` and the tree's action properties are safety
too. Pages, offsets, frames and descriptors are numbers and are not permuted, and
`list_ops`, which checks liveness, uses none.

## 4. Proofs

Every theorem holds for all values of the constants that satisfy the named
assumptions of its module, and is checked by TLAPS to the last leaf.

**Page store** (`FileIO_proofs`). The hypotheses are stated in each theorem:

* `SmallStore`, `MaxSize <= PAGESIZE`: beyond it the stray blank of `fileio.c:230`
  may hit a live page. `SafeUse`: faults not at the three unsafe points, and
  `free_page` only of pages that are owned or free.
* `PlainData`: faults anywhere and a store of any size, but clients free only what
  they own, always give a source, and have data whose first word reads neither as
  an offset a file can have nor as the end of the list. Eight letters of text are such
  data: `pwrite` refuses the offset they make as larger than any file. A page that
  begins with a zero word or a small number is not, nor need the pages of the B-tree be.
* `GoodUse`: one or the other. Outside both a call may take data for a link, or blank
  a page of another client, as in findings 1 and 2.

Two inductive invariants stand behind the rest:

* `Invariant`: `Spec => []IInv`, under `SmallStore` and `SafeUse`. `FreeListOnDisk`
  and `PagesAccounted` are not inductive: a step writes metadata computed by the step
  before. `IInv` adds what the call in progress holds in its locals: `ReuseInv` (the
  first free page and the ends of the list behind it), `ExtendInv` (the page behind
  the last one), `FirstInv` and `AppendInv` (the page being freed and how far its
  links are written). One lemma per action; `RestCases` is the crux, the three ways
  the list goes on behind its first page, one of which picks up a page adrift.
* `PlainInvariant`: `Spec => []PlainInv`, under `PlainData`. A call that stops
  between its writes may leave data where the list has a link. What is left
  of the list then: from each place it leads to the next place, or to data, and from
  the last nowhere or astray to a page adrift (`Onward`, `Loose`). An `alloc_page`
  that follows such a link stores the data as the head of the list, and from there on
  nothing is reused (`Ruined`): the `pread` of a page that is none fails, and so does the
  `pwrite` of `free_page` where the tail is data too. `freeq` keeps the
  pages that were freed, those the list no longer reaches included.

`Sound` is what the two have in common: the books of the pages, and that each call is
on the pages it should be. `AlwaysSound` gives it under `GoodUse`, and from it follow,
under `GoodUse`:

* `TypeCorrect`, `PagesAccountedFor`.
* `FreshPages` and `LiveDataKept` are action properties, from `Sound` and one step.
* `MetadataLast`: no write before the last one of a call hits block 0, as the pages
  it works on have other numbers.
* `Implements`: `Spec => Refines`. The last write of a call is the abstract step,
  `FreePageCall` is `Release`, the writes before are stutters: they touch no page
  in `live` and not the metadata.

`FreeListCorrect`, the list in the file is the queue, holds under `SmallStore` and
`SafeUse` only: the run `stopped_free` shows how it is lost.

**Backings** (`Backing_proofs`): `Invariant`, `TypeCorrect`, `FilesKept`,
`NoLeak`, `StoresWhole`. `IInv` adds that names have files of their own and what
`create_new_backing` holds between its two steps. The lemma `NewNumber` says a
number given out is in no struct that is in use, and `NumberClosed` that closing
disturbs nobody else.

**Buffer manager** (`BufferManager_proofs`), for every number of frames:
`Invariant`, `TypeCorrect`, `PoolIsOneFrame`, `DirtyFramesListed`,
`OneAddressNeverCrashes`, `UsedNeverDestroyed`, `OwnedInFile`, `WalkSavesFrames`,
`Implements`. The argument is that
line 187 leaves `freelist` at frame 0: the other frames keep their initial struct,
and so every pin, mark and list concerns frame 0. `IInv` records where frame 0's
next pointer may go: before the first listing into the initial chain, after it only
to itself or to null.

`Implements`, `Spec => Refines`, maps frame 0 to the pool, the head of the list to
write back to `waiting` and the cursor to `due`: with the invariant every action of
the manager is one of the pool, which leaves both open after a write. That a page a
client has is in the file (`InFile`) makes its pin a `PinPage`; it holds because what
the frame has was read from the file or written by a client. `UsedNeverDestroyed`
is about a disagreement (section 6) and rests on `Unused`: the table has an entry before
anything is pinned, and keeps it.

**B-tree** (`BTree_proofs`), for every number of frames, pages and addresses:
`TreeInvariant`, `TreeTypeCorrect`, `NothingSaved`, `CreateNeverMakesTree`,
`PinsLostForGood`, `TreeImplementsPool`. The manager's invariant is preserved by the
lemmas of `BufferManager_proofs`. `TreeInv` has `TreeTypeOK` as a part. `CleanPool` adds
that nothing is dirty, since nobody marks, and so nothing is written back; `CallInv`
what each step of a call finds: the root and the leaf are frame 0, and after
`UnpinLeaf` that frame is not pinned any more, which makes the last unpin fail.
`CreateNeverMakesTree` says that what the run `tree_create` shows is no accident of its
bounds: every `btree_create` that gets to its last call breaks each part of
`CreateMakesTree`.

`LostPins` is the pins of frame 0 less those of clients (`kept`) and of the call in
progress (`CallPins`). `PinsLostForGood` counts them through every step: a call of the
manager takes a pin exactly if it returns with `STATUS_OK` (`Counted`), and the tree
gives back only what it has in hand. `TreeImplementsPool`, `TreeSpec => Refines`,
puts `OneFramePool` under the tree: the lemmas that `Implements` is made of are about
single calls of the manager, so they serve the tree's steps as well. What is the
tree's own are pins of pages nobody allocated (`PinNothing`) and that its stores are nodes.

**Linked lists** (`LinkedList_proofs`), for any sets of heads and entries:
`ListInvariant`, `ListTypeCorrect`, `ListLinksCorrect`. `Shape` is well-linkedness
of a set of live nodes with the dead entries poisoned, for any nodes and owners
rather than the variables. There is a lemma per helper: taking a node out of the
set (`Without`), a node of its own joining it, one going between two neighbours
(`Between`), one list going into another (`Spliced`). An operation is a chain of
these; a moved entry is, between two of them, in neither set. That a neighbour's
neighbour is the node itself settles the cases where the neighbours are one.

**Lists as sequences** (`Chains_proofs`, `ListSequences_proofs`), for any set of heads
and any finite set of entries: `SeqInvariant`, `ListImplements`, `StacksQueues`,
`LoopCorrect`, `LoopSafe`.

* What a list holds is defined by a walk along the links, a recursive function. The
  library's induction theorems cannot be used (they take an operator), but that
  the naturals are well founded can: `Least` and `Climb` follow from it, then that
  the walk exists for any number of steps (`WalkExists`) and finds whatever path
  there is (`AlongPath`, `AlongChain`). From there on nothing is recursive.
* `Layout` says that the links are those of a family of sequences that share no item,
  in terms of places: the head, the items, the end. `LayoutInserted`,
  `LayoutRemoved` and `LayoutJoined` say which few links have to change for the
  family to change by `InsertAt`, `RemoveAt` or a splice; the ends are the heads
  for one kind of list and `NULL` for the other.
* `SeqInv` is `ListInv` and that the nodes are laid out as the walks say
  (`Strung`). A lemma per operation gives both `SeqInv'` and the step of `Lists` it is
  (`SeqNext`). A move is a removal and an insertion; what `list_move` is given may
  have been on no list, and then it is an insertion.
* `LoopInv`: what was due when the loop began is what it visited, `pos`, and the rest,
  and the rest is a trail of live entries that leads from `n` back to the head
  (`Trail`). What a body may do to `pos` is `Calm`: it changes no link of the rest. So
  the loop comes to every entry in order, and never follows a poisoned pointer.

**Hash lists** (`HashList_proofs`): `HashInvariant`, `HashTypeCorrect`,
`HashLinksCorrect`, and `HashImplements`, the refinement of `Lists`.
`HashTypeOK /\ HashWellLinked` is inductive, a lemma per kind of change. `HashSeqInv`
adds the layout; what a node points back to by `pprev` is the place before it
(`HashPlace`), which is how `hlist_del` finds the link to change.

**Model-checked only**: `LoopTerminates`, liveness under fairness, which is outside what
TLAPS proves; and what the violated runs show, but for `tree_create`. Every other property
of a passing run is stated by a theorem.

## 5. What is not modelled

* Of `btree.c`: separators and records (77-181), which are unfinished and called by
  nothing that is finished, the key comparators, `btree_destroy` (a stub), and
  `btree_get` and others that are declared but not written. There is nothing in them
  whose behaviour is settled.
* Of `linkedlist.h`: the loops that are not meant for removal, and the variants of
  those that are which differ in a cast; `container_of` and `prefetch`.
* `constants.c`, a table of status names, and `nickdb.c`, which prints a message. The
  tests under `../../tests` are straight-line uses of the page store.
* `buff_create` up to line 61, which crashes; the leak of its table's keys.
* The bytes of pages beyond the first three words; short reads and writes that
  transfer a part; the `lseek`s, which do not matter to `pread` and `pwrite`.
* A crash of the machine: what was written is taken to stay, in order. Nothing in
  the code calls `fsync`.
* Two processes with one file. Nothing in the code or its documents provides for it.
* Memory: `calloc` is taken to succeed; the block leaked by the inner `new` of
  `free_page:325`.

## 6. Findings

1. `fileio.c:230` blanks the wrong place (`null_alloc`): a page allocated without a
   source keeps the link of the free list in its first bytes. In a store of more
   than 4096 pages the wrong place is inside the file.
2. `fileio.c:346` writes the link to a page before the page (`stopped_free`).
3. `buffer_manager.c:187` copies a struct where it means to move a pointer: a pinned
   frame stays at the head of the free list, the next pin gets it again, and once it is
   unpinned it points to itself and the list has lost the other frames. `tree_create`
   shows it in the two pins of `btree_create`.
4. `buffer_manager.c:167-170` keys the table by the address of a local: a pin may
   return another page's frame (`buffer_pinpage`).
5. `buffer_manager.c:312` unpins a frame as if it were clean, but it stays on the
   list to write back: a flush writes to a page that was freed (`buffer_freed`).
6. `buffer_manager.c:364` walks a list that is never emptied and whose head may
   point to itself (`buffer_flushends`).
7. `btree.c:276` gets the root's frame for the leaf, whose page and type go over the
   root: the new tree is a leaf that lists its own page, where the comments (254, 274)
   announce a directory and a leaf (`tree_create`, theorem `CreateNeverMakesTree`).
8. `btree.c:300` therefore unpins a frame that is not pinned: `btree_create` returns
   `STATUS_ERR` where its comment (295) and its last line (311) mean success (the same
   run and theorem).
9. `btree.c:293` stores the leaf at index 1 where its comment (291) says the first
   pointer, the one that `btree_insert` follows (400-402) (the same run and theorem).
10. `buff_destroy` of a manager that was used does not write back and free all as its
    comment (`buffer_manager.c:95-101`) says: the keys and values of the table are
    addresses of locals, and `g_hash_table_destroy` (122) gives them to `free`, which ends
    the process with the store open; and a frame that is still pinned and dirty is not on
    the list it writes back. The theorem `UsedNeverDestroyed` shows it for every pool; no
    run is spent on it.

Not stated as properties: `remove_backing` returns `STATUS_BAD_REMOVE` where its
comment (`fileio.c:135`) says -1; the table of names in `constants.c` has no entry
for `STATUS_PIN_ERR` and `STATUS_NO_CONFIG`; `buff_mark_page`'s comment
(`buffer_manager.c:329`) says it works for all types except `FS_UNPINNED`, but it
refuses `FS_UNPINNED_DIRTY` too; `btree_create` takes a key size of zero, which
`btree_open` refuses (`btree.c:332`); `btree_insert` gives no pin back; the loop at
`btree.c:129` compares the address of a pointer and does not advance.

## 7. Plan

Done: `PageAllocator`, `FileIO`, `Backing`, `OneFramePool`, `BufferManager`, `BTree`,
`Chains`, `Lists`, `LinkedList`, `HashList`, their runs and proofs.

When the code goes on:

1. With line 187 and the table's keys as they are meant, an abstract pool of many
   frames (a map from pinned pages to frames, write-back before reuse) takes the
   place of `OneFramePool`, and the manager uses `LinkedList` for its lists.
2. `BufferManager` over `PageAllocator` itself, with the queue of free pages, so
   that a page freed through a frame and allocated again is followed through both.
3. `BTree` with separators, records, `btree_get` and `btree_remove` once they are
   written, against a map from keys to values.
4. Proofs: the variants of the loops that are not meant for removal, under a body that
   removes nothing, once something uses them; `NullAllocIsBlank` for a store whose
   clients give no source, once line 230 is mended.
