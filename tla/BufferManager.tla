---------------------------- MODULE BufferManager ----------------------------
(***************************************************************************)
(* The buffer manager of src/lib/buffer_manager.c over a page store: a     *)
(* pool of frames, a list of free ones, a list of unpinned dirty ones to   *)
(* write back, and a table of the pages that are pinned.                   *)
(*                                                                         *)
(* The manager starts as buff_create's lines 63-92 leave it, with a store  *)
(* that is open. (buff_create itself never gets there: line 58 has         *)
(* open_backing write through a null store.) The store is what             *)
(* PageAllocator says of it, without the order of its free pages.          *)
(***************************************************************************)
EXTENDS Integers

CONSTANTS
  N,          \* frames of the pool
  MaxPages,   \* bound: pages of the store
  MaxPins,    \* bound: pins of one frame a client holds at once
  Slots,      \* the stack addresses at which buff_pin's locals may lie
  Data,       \* what clients write into a frame
  Absent, Free, Blank,  \* a page not in the file, a free one, a blank one
  Faults      \* whether the store's reads, writes and allocations may fail

ASSUME PoolAssumption == N \in Nat \ {0} /\ MaxPages \in Nat /\ MaxPins \in Nat
ASSUME FaultAssumption == Faults \in BOOLEAN
ASSUME ContentAssumption ==
  /\ Absent # Free /\ Absent # Blank /\ Free # Blank
  /\ {Absent, Free, Blank} \cap Data = {}

VARIABLES
  meta,       \* metaframes: state, page and next pointer of each frame
  freelist,   \* the first free frame
  writeback,  \* the first unpinned dirty frame
  table,      \* the keys of lookup_table
  buf,        \* the contents of the frames
  disk,       \* the contents of the pages in the store
  owned,      \* the pages allocated and not freed
  held,       \* how often the client has each frame pinned
  ret,        \* what the last call returned
  at,         \* "idle", the call that walks a list, or how the process ended
  cursor      \* the walk's position

vars == <<meta, freelist, writeback, table, buf, disk, owned, held, ret, at, cursor>>

-----------------------------------------------------------------------------

METADATA == 0
Nil == -1                      \* the null pointer
Frames == 0 .. N - 1
Pointers == Frames \cup {Nil}
Pages == 1 .. MaxPages

FS_PINNED == "pinned"
FS_UNPINNED == "unpinned"
FS_PINNED_DIRTY == "pinned_dirty"
FS_UNPINNED_DIRTY == "unpinned_dirty"
States == {FS_PINNED, FS_UNPINNED, FS_PINNED_DIRTY, FS_UNPINNED_DIRTY}

Contents == Data \cup {Absent, Free, Blank}

MetaFrame == [state : States, index : Pages \cup {METADATA}, next : Pointers]

Result(status, frame) == [status |-> status, frame |-> frame]

\* Faulty: the last frame points behind the pool (lines 81-84 missing).
InitialFrameNoEnd(f) ==
  [state |-> FS_UNPINNED, index |-> METADATA, next |-> f + 1]

\* Faulty: the frames are not linked (line 78 missing).
InitialFrameUnlinked(f) ==
  [state |-> FS_UNPINNED, index |-> METADATA, next |-> Nil]

\* Each frame is free and points to the one behind it.
InitialFrame(f) ==
  [state |-> FS_UNPINNED, index |-> METADATA,
   next |-> IF f < N - 1 THEN f + 1 ELSE Nil]

Init ==
  /\ meta = [f \in Frames |-> InitialFrame(f)]
  /\ freelist = 0
  /\ writeback = Nil
  /\ table = {}
  /\ buf = [f \in Frames |-> Blank]
  /\ disk = [p \in Pages |-> Absent]
  /\ owned = {}
  /\ held = [f \in Frames |-> 0]
  /\ ret = Result("STATUS_OK", Nil)
  /\ at = "idle"
  /\ cursor = Nil

-----------------------------------------------------------------------------
(* buff_pin. The table is keyed by the address of the local variable that  *)
(* holds the page index, so a page is found exactly if some earlier pin    *)
(* had its local at the same address; nothing is ever removed (buff_unpin  *)
(* looks for an address of the heap).                                      *)

\* The pin is taken for one of a page that is pinned already: the frame at
\* the head of the free list is returned as it is.
PinHit(slot) ==
  /\ slot \in table
  /\ ret' = Result("STATUS_OK", freelist)
  /\ held' = [held EXCEPT ![freelist] = @ + 1]
  /\ UNCHANGED <<meta, table, buf, at>>

\* The page cannot be read; the table has its entry all the same.
PinFails(slot) ==
  /\ slot \notin table
  /\ table' = table \cup {slot}
  /\ ret' = Result("STATUS_BAD_READ", Nil)
  /\ UNCHANGED <<meta, buf, held, at>>

\* The page is read into the frame at the head of the free list. Line 187
\* means to take the frame off the list, but copies the next frame's struct
\* over the head's; without a next frame it reads through a null pointer.
PinFetch(slot, page, content) ==
  LET head == freelist
      next == meta[head].next
  IN
  /\ slot \notin table
  /\ table' = table \cup {slot}
  /\ buf' = [buf EXCEPT ![head] = content]
  /\ IF next = Nil
     THEN /\ at' = "crashed"
          /\ UNCHANGED <<meta, ret, held>>
     ELSE /\ meta' = [meta EXCEPT ![head] =
                        [meta[next] EXCEPT !.state = FS_PINNED, !.index = page]]
          /\ ret' = Result("STATUS_OK", head)
          /\ held' = [held EXCEPT ![freelist] = @ + 1]
          /\ UNCHANGED at

Pin(slot, page, content) ==
  IF freelist # Nil
  THEN \/ PinHit(slot)
       \/ Faults /\ PinFails(slot)
       \/ PinFetch(slot, page, content)
  ELSE /\ ret' = Result("STATUS_NO_FREE_FRAMES", Nil)
       /\ UNCHANGED <<meta, table, buf, held, at>>

\* A client pins a page it has allocated.
BuffPin(slot, page) ==
  /\ at = "idle"
  /\ \A f \in Frames : held[f] < MaxPins   \* bound
  /\ Pin(slot, page, disk[page])
  /\ UNCHANGED <<freelist, writeback, disk, owned, cursor>>

\* A call that changes nothing.
Return(status) ==
  /\ at = "idle"
  /\ ret' = Result(status, Nil)
  /\ UNCHANGED <<meta, freelist, writeback, table, buf, disk, owned, held, at, cursor>>

BuffPinRefused == Return("STATUS_META_PAGE")

\* Every function refuses a null manager.
NoManager == Return("STATUS_NO_MANAGER")

-----------------------------------------------------------------------------
(* buff_alloc_frame: a page of the store, then a pin of it. If the pin     *)
(* fails the page stays allocated. A page the store reuses is not blank    *)
(* (FileIO!NullAllocIsBlank).                                              *)

BuffAllocFrame(slot, page) ==
  LET content == IF disk[page] = Absent THEN Blank ELSE disk[page] IN
  /\ at = "idle"
  /\ \A f \in Frames : held[f] < MaxPins   \* bound
  /\ page \notin owned
  /\ owned' = owned \cup {page}
  /\ disk' = [disk EXCEPT ![page] = content]
  /\ Pin(slot, page, content)
  /\ UNCHANGED <<freelist, writeback, cursor>>

\* alloc_page fails; or there is no place for the pair.
BuffAllocFails ==
  \/ Faults /\ Return("STATUS_BAD_WRITE")
  \/ Return("STATUS_ERR")

-----------------------------------------------------------------------------
(* buff_unpin, buff_free_frame and buff_mark_page, on the frame a pin      *)
(* returned.                                                               *)

\* Faulty: the free list goes on behind the frame instead of starting at it.
UnpinCleanSkips(f) ==
  /\ freelist' = meta[f].next
  /\ meta' = [meta EXCEPT ![f].state = FS_UNPINNED, ![f].next = freelist]
  /\ UNCHANGED writeback

\* Faulty: a clean frame goes to the list to write back as well.
UnpinCleanListed(f) ==
  /\ freelist' = f
  /\ writeback' = f
  /\ meta' = [meta EXCEPT ![f].state = FS_UNPINNED, ![f].next = freelist]

\* Faulty: the frame is not put on the list to write back (line 230 missing).
UnpinDirtyUnlisted(f) ==
  /\ meta' = [meta EXCEPT ![f].state = FS_UNPINNED_DIRTY, ![f].next = writeback]
  /\ UNCHANGED <<freelist, writeback>>

\* A clean frame goes to the front of the free list, a dirty one to that of
\* the list to write back.
UnpinClean(f) ==
  /\ freelist' = f
  /\ meta' = [meta EXCEPT ![f].state = FS_UNPINNED, ![f].next = freelist]
  /\ UNCHANGED writeback

UnpinDirty(f) ==
  /\ writeback' = f
  /\ meta' = [meta EXCEPT ![f].state = FS_UNPINNED_DIRTY, ![f].next = writeback]
  /\ UNCHANGED freelist

\* Faulty: an unpin of a frame that is not pinned is not refused (line 258).
BuffUnpinUnchecked(f) ==
  /\ at = "idle"
  /\ held[f] > 0
  /\ held' = [held EXCEPT ![f] = @ - 1]
  /\ IF meta[f].state = FS_PINNED_DIRTY THEN UnpinDirty(f) ELSE UnpinClean(f)
  /\ ret' = Result("STATUS_OK", Nil)
  /\ UNCHANGED <<table, buf, disk, owned, at, cursor>>

BuffUnpin(f) ==
  /\ at = "idle"
  /\ held[f] > 0
  /\ held' = [held EXCEPT ![f] = @ - 1]
  /\ CASE meta[f].state = FS_PINNED ->
            UnpinClean(f) /\ ret' = Result("STATUS_OK", Nil)
       [] meta[f].state = FS_PINNED_DIRTY ->
            UnpinDirty(f) /\ ret' = Result("STATUS_OK", Nil)
       [] OTHER ->
            /\ ret' = Result("STATUS_ERR", Nil)
            /\ UNCHANGED <<meta, freelist, writeback>>
  /\ UNCHANGED <<table, buf, disk, owned, at, cursor>>

\* Whatever its state, the frame is unpinned as a clean one, and its page is
\* freed; there is no page before the first fetch. A free_page that fails may
\* have written the page's link already, or linked it: the page keeps what it
\* holds or not, and stays its owner's or may be handed out again.
BuffFreeFrame(f) ==
  LET page == meta[f].index IN
  /\ at = "idle"
  /\ held[f] > 0
  /\ held' = [held EXCEPT ![f] = @ - 1]
  /\ UnpinClean(f)
  /\ \/ /\ page # METADATA
        /\ disk' = [disk EXCEPT ![page] = Free]
        /\ owned' = owned \ {page}
        /\ ret' = Result("STATUS_OK", Nil)
     \/ /\ page = METADATA
        /\ ret' = Result("STATUS_META_PAGE", Nil)
        /\ UNCHANGED <<disk, owned>>
     \/ /\ page # METADATA /\ Faults
        /\ ret' = Result("STATUS_BAD_WRITE", Nil)
        /\ disk' \in {disk, [disk EXCEPT ![page] = Free]}
        /\ owned' \in {owned, owned \ {page}}
  /\ UNCHANGED <<table, buf, at, cursor>>

\* Faulty: a frame of any state is marked (line 338 missing).
BuffMarkAnyPage(f) ==
  /\ at = "idle"
  /\ held[f] > 0
  /\ meta' = [meta EXCEPT ![f].state = FS_PINNED_DIRTY]
  /\ ret' = Result("STATUS_OK", Nil)
  /\ UNCHANGED <<freelist, writeback, table, buf, disk, owned, held, at, cursor>>

BuffMarkPage(f) ==
  /\ at = "idle"
  /\ held[f] > 0
  /\ IF meta[f].state \in {FS_PINNED, FS_PINNED_DIRTY}
     THEN /\ meta' = [meta EXCEPT ![f].state = FS_PINNED_DIRTY]
          /\ ret' = Result("STATUS_OK", Nil)
     ELSE ret' = Result("STATUS_MARK_ERR", Nil) /\ UNCHANGED meta
  /\ UNCHANGED <<freelist, writeback, table, buf, disk, owned, held, at, cursor>>

\* The client writes into the frame it has pinned.
ClientWrites(f, data) ==
  /\ at = "idle"
  /\ held[f] > 0
  /\ buf' = [buf EXCEPT ![f] = data]
  /\ UNCHANGED <<meta, freelist, writeback, table, disk, owned, held, ret, at, cursor>>

-----------------------------------------------------------------------------
(* buff_flush_all and buff_destroy walk the list to write back. It is      *)
(* never emptied.                                                          *)

StartWalk(walk) ==
  /\ at = "idle"
  /\ at' = walk
  /\ cursor' = writeback
  /\ UNCHANGED <<meta, freelist, writeback, table, buf, disk, owned, held, ret>>

BuffFlushAll == StartWalk("flush")
BuffDestroy == StartWalk("destroy")

Walking == at \in {"flush", "destroy"}

\* Faulty: the frame is clean whether it is written or not (line 366 missing).
WriteBackUnchecked ==
  /\ Walking
  /\ cursor # Nil
  /\ \/ disk' = [disk EXCEPT ![meta[cursor].index] = buf[cursor]]
     \/ Faults /\ UNCHANGED disk
  /\ meta' = [meta EXCEPT ![cursor].state = FS_UNPINNED]
  /\ cursor' = meta[cursor].next
  /\ UNCHANGED <<freelist, writeback, table, buf, owned, held, ret, at>>

\* One frame is written and is clean then; or the write fails.
WriteBack ==
  LET page == meta[cursor].index
      written == /\ disk' = [disk EXCEPT ![page] = buf[cursor]]
                 /\ meta' = [meta EXCEPT ![cursor].state = FS_UNPINNED]
      failed == Faults /\ UNCHANGED <<disk, meta>>
  IN
  /\ Walking
  /\ cursor # Nil
  /\ written \/ failed
  /\ cursor' = meta[cursor].next
  /\ UNCHANGED <<freelist, writeback, table, buf, owned, held, ret, at>>

\* buff_flush_all returns. buff_destroy frees the table, whose keys and
\* values free() never gave out: with an entry in it the process aborts.
WalkEnds ==
  /\ Walking
  /\ cursor = Nil
  /\ at' = IF at = "flush" THEN "idle"
           ELSE IF table = {} THEN "destroyed" ELSE "aborted"
  /\ ret' = Result("STATUS_OK", Nil)
  /\ UNCHANGED <<meta, freelist, writeback, table, buf, disk, owned, held, cursor>>

-----------------------------------------------------------------------------

Next ==
  \/ \E slot \in Slots, page \in owned : BuffPin(slot, page)
  \/ \E slot \in Slots, page \in Pages : BuffAllocFrame(slot, page)
  \/ BuffPinRefused \/ BuffAllocFails \/ NoManager
  \/ \E f \in Frames : BuffUnpin(f) \/ BuffFreeFrame(f) \/ BuffMarkPage(f)
  \/ \E f \in Frames, data \in Data : ClientWrites(f, data)
  \/ BuffFlushAll \/ BuffDestroy \/ WriteBack \/ WalkEnds

Spec == Init /\ [][Next]_vars

\* A call that runs goes on: one thread, no locks, no waiting.
FairSpec == Spec /\ WF_vars(WriteBack \/ WalkEnds)

-----------------------------------------------------------------------------
(* Properties. *)

\* Type invariant of struct buffer_manager and its users.
TypeOK ==
  /\ meta \in [Frames -> MetaFrame]
  /\ freelist \in Pointers /\ writeback \in Pointers /\ cursor \in Pointers
  /\ table \subseteq Slots
  /\ buf \in [Frames -> Contents]
  /\ disk \in [Pages -> Contents]
  /\ owned \subseteq Pages
  /\ held \in [Frames -> Nat]
  /\ ret.frame \in Pointers
  /\ at \in {"idle", "flush", "destroy", "crashed", "destroyed", "aborted"}

\* The frames on the list that starts at p: those in every set that holds p
\* and, with a frame, the next one.
OnList(p) ==
  {f \in Frames :
     p # Nil /\ \A S \in SUBSET Frames :
       p \in S /\ (\A g \in S : meta[g].next # Nil => meta[g].next \in S) => f \in S}

\* Whatever clients do, the pool of N frames serves as one: every pin hands
\* out frame 0, and no other frame is ever read into, marked or listed first
\* (buff_pin:187 copies a struct where it means to move a pointer).
SingleFrame ==
  /\ freelist = 0 /\ writeback \in {0, Nil}
  /\ \A f \in Frames \ {0} :
       meta[f] = InitialFrame(f) /\ buf[f] = Blank /\ held[f] = 0

\* buffer_manager.h:59: the list to write back has every frame that is
\* unpinned and dirty, through every order of pins, marks, unpins and flushes.
WritebackHoldsDirty ==
  \A f \in Frames : meta[f].state = FS_UNPINNED_DIRTY => f \in OnList(writeback)

\* With two frames or more the null pointer of buff_pin:187 is met only by
\* pins from different stack addresses: a program whose pins all come from
\* the same depth of the same call path never crashes.
CrashNeedsTwoAddresses ==
  at = "crashed" /\ N > 1 => \E s, t \in table : s # t

\* A walk marks a frame clean only when its page in the store holds what the
\* frame holds: a put_page that failed leaves it dirty (buff_flush_all:366).
WriteBackSaves ==
  [][\A f \in Frames :
       Walking /\ meta[f].state # meta'[f].state => disk'[meta[f].index] = buf[f]]_vars

\* What makes the above inductive: frame 0 is dirty only when it is listed; it
\* is listed or in use only once a page is in it and the table has an entry;
\* and from the first listing on it points to itself or to nothing.
IInv ==
  /\ TypeOK
  /\ SingleFrame
  /\ cursor \in {writeback, Nil}
  /\ meta[0].state = FS_UNPINNED_DIRTY => writeback = 0
  /\ meta[0].state # FS_UNPINNED \/ writeback = 0 =>
       meta[0].index # METADATA /\ table # {}
  /\ writeback = 0 => meta[0].next \in {0, Nil}
  /\ meta[0].next = Nil /\ N > 1 => table # {}
  /\ CrashNeedsTwoAddresses

\* buff_pin's comment (134-136, 175): the frame a pin returns is that of the
\* page asked for.
PinReturnsPage ==
  [][\A slot \in Slots, page \in owned :
       BuffPin(slot, page) /\ ret'.status = "STATUS_OK" =>
         meta'[ret'.frame].index = page]_vars

\* A page that was freed is the store's: no flush writes to it
\* (buff_free_frame:310, "if the frame is freed, but is dirty, it's no longer
\* dirty").
FlushSparesFreePages ==
  [][\A p \in Pages : Walking /\ disk[p] = Free => disk'[p] = Free]_vars

\* buff_flush_all returns.
FlushEnds == at = "flush" ~> at # "flush"

-----------------------------------------------------------------------------
\* BufferManager implements OneFramePool: its frame 0 is the pool.
Pool == INSTANCE OneFramePool WITH
  state   <- meta[0].state,
  page    <- meta[0].index,
  content <- buf[0],
  waiting <- writeback # Nil,
  seen    <- table,
  pins    <- held[0],
  status  <- ret.status,
  mode    <- at,
  due     <- cursor # Nil

Refines == Pool!Spec

=============================================================================
