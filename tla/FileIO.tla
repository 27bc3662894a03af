------------------------------- MODULE FileIO -------------------------------
(***************************************************************************)
(* The page store of src/lib/fileio.c: alloc_page, free_page, get_page and *)
(* put_page on one open backing file.                                      *)
(*                                                                         *)
(* The file is a run of blocks of PAGESIZE bytes. Block 0 is the metadata  *)
(* page: the size of the store in pages and the byte offsets of the first  *)
(* and the last free page. A free page starts with the byte offset of the  *)
(* next one. A call is a sequence of pwrites, and each pwrite is a step of *)
(* its own: it may fail, or the process may die before it, and the file    *)
(* keeps whatever the steps before it wrote.                               *)
(***************************************************************************)
EXTENDS Integers, Sequences

CONSTANTS
  PAGESIZE,   \* bytes of a page
  MaxSize,    \* bound: pages the store may grow to, the metadata page included
  Data,       \* the first words of the pages clients write
  NULL,       \* a null source buffer
  Sources,    \* what clients hand to alloc_page as a source
  FaultMode,  \* where a pwrite may fail or the process die: "none", "safe", "any"
  Client      \* what free_page is given: "owner", "refree", "any"

ASSUME PageSizeAssumption == PAGESIZE \in Nat \ {0}
ASSUME MaxSizeAssumption == MaxSize \in Nat \ {0}
ASSUME DataAssumption ==
  Data \subseteq Int /\ NULL \notin Data /\ Sources \subseteq Data \cup {NULL}
ASSUME ModeAssumption ==
  /\ FaultMode \in {"none", "safe", "any"}
  /\ Client \in {"owner", "refree", "any"}

VARIABLES
  disk,     \* the blocks of the file
  eof,      \* the length of the file, in blocks
  call,     \* the call in progress: its locals and the pwrite it is about to do
  ret,      \* what the last call returned
  live,     \* history: the pages the clients own
  freeq,    \* history: the free pages, in the order of the list in the file
  adrift    \* history: pages given up by their owner and not on the list

vars == <<disk, eof, call, ret, live, freeq, adrift>>

-----------------------------------------------------------------------------
(* Constants and conversions. *)

METADATA == 0
EMPTY_LIST == -1
ERR_SET == -1
STATUS_ERR == 1   \* the status' number, which one error path returns as an index

index_to_offset(index) == index * PAGESIZE
offset_to_index(offset) == IF offset = 0 THEN 0 ELSE offset \div PAGESIZE

(* The contents of a page are its first three 8-byte words: all three of a *)
(* metadata page matter, the first of a free page, and a client's page is  *)
(* told apart by any of them.                                              *)
MetaPage(size, head, tail) == <<size, head, tail>>
FreePage(offset) == <<offset, 0, 0>>
BlankPage == <<0, 0, 0>>
DataPage(word) == <<word, word, word>>

SizeOf(meta) == meta[1]
HeadOf(meta) == meta[2]
TailOf(meta) == meta[3]
LinkOf(page) == page[1]

Page == Int \X Int \X Int
\* The highest block a pwrite reaches: the stray blank of ReusePage below.
Block == 0 .. MaxSize * PAGESIZE

Labels == {"idle", "reuse_page", "reuse_meta", "extend_blank", "extend_data",
           "extend_meta", "first_page", "first_meta", "append_old",
           "append_page", "append_meta"}

Idle == [at |-> "idle", index |-> ERR_SET, offset |-> ERR_SET, src |-> NULL,
         meta |-> BlankPage]

Result(status, index) == [status |-> status, index |-> index]

Queued == {freeq[i] : i \in DOMAIN freeq}

Init ==
  /\ disk = [b \in Block |-> IF b = METADATA
                             THEN MetaPage(1, EMPTY_LIST, EMPTY_LIST)
                             ELSE BlankPage]
  /\ eof = 1
  /\ call = Idle
  /\ ret = Result("STATUS_OK", ERR_SET)
  /\ live = {}
  /\ freeq = <<>>
  /\ adrift = {}

-----------------------------------------------------------------------------
(* pread and pwrite: external. A hole of the file reads as zeros, a read   *)
(* past its end is short, a negative offset is refused.                    *)

Readable(offset) == offset >= 0 /\ offset_to_index(offset) < eof
Writable(offset) == offset >= 0 /\ offset_to_index(offset) \in Block

Pwrite(offset, page) ==
  LET block == offset_to_index(offset) IN
  /\ Writable(offset)
  /\ disk' = [disk EXCEPT ![block] = page]
  /\ eof' = IF block < eof THEN eof ELSE block + 1

\* A call that writes nothing.
Return(status, index) ==
  /\ call.at = "idle"
  /\ ret' = Result(status, index)
  /\ UNCHANGED <<disk, eof, call, live, freeq, adrift>>

Goto(label) == call' = [call EXCEPT !.at = label]

-----------------------------------------------------------------------------
(* alloc_page *)

\* Faulty: the head of the list stays where it is (line 217 missing).
AllocReuseKeepsHead(src) ==
  LET meta == disk[METADATA]
      offset == HeadOf(meta)
  IN
  /\ call.at = "idle"
  /\ offset # EMPTY_LIST
  /\ Readable(offset)
  /\ call' = [at |-> "reuse_page", index |-> offset_to_index(offset),
              offset |-> offset, src |-> src, meta |-> meta]
  /\ UNCHANGED <<disk, eof, ret, live, freeq, adrift>>

\* Faulty: the tail is not moved when the last free page is taken (line 214).
AllocReuseKeepsTail(src) ==
  LET meta == disk[METADATA]
      offset == HeadOf(meta)
      next == LinkOf(disk[offset_to_index(offset)])
  IN
  /\ call.at = "idle"
  /\ offset # EMPTY_LIST
  /\ Readable(offset)
  /\ call' = [at |-> "reuse_page", index |-> offset_to_index(offset),
              offset |-> offset, src |-> src,
              meta |-> MetaPage(SizeOf(meta), next, TailOf(meta))]
  /\ UNCHANGED <<disk, eof, ret, live, freeq, adrift>>

\* Faulty: the byte offset is returned as the index (line 245).
AllocReuseReturnsOffset(src) ==
  LET meta == disk[METADATA]
      offset == HeadOf(meta)
      next == LinkOf(disk[offset_to_index(offset)])
      tail == IF offset = TailOf(meta) THEN next ELSE TailOf(meta)
  IN
  /\ call.at = "idle"
  /\ offset # EMPTY_LIST
  /\ Readable(offset)
  /\ call' = [at |-> "reuse_page", index |-> offset,
              offset |-> offset, src |-> src,
              meta |-> MetaPage(SizeOf(meta), next, tail)]
  /\ UNCHANGED <<disk, eof, ret, live, freeq, adrift>>

\* The list has a page: its link is read and the metadata in memory moves on
\* to the next page. If the page was the last one, the tail moves too.
AllocReuse(src) ==
  LET meta == disk[METADATA]
      offset == HeadOf(meta)
      next == LinkOf(disk[offset_to_index(offset)])
      tail == IF offset = TailOf(meta) THEN next ELSE TailOf(meta)
  IN
  /\ call.at = "idle"
  /\ offset # EMPTY_LIST
  /\ Readable(offset)
  /\ call' = [at |-> "reuse_page", index |-> offset_to_index(offset),
              offset |-> offset, src |-> src,
              meta |-> MetaPage(SizeOf(meta), next, tail)]
  /\ UNCHANGED <<disk, eof, ret, live, freeq, adrift>>

\* The head of the list names no place in the file.
AllocBadLink ==
  /\ HeadOf(disk[METADATA]) # EMPTY_LIST
  /\ ~Readable(HeadOf(disk[METADATA]))
  /\ Return("STATUS_BAD_READ", ERR_SET)

\* Faulty: the metadata is written before the page.
ReusePageMetaFirst ==
  /\ call.at = "reuse_page"
  /\ Pwrite(index_to_offset(METADATA), call.meta)
  /\ Goto("reuse_meta")
  /\ UNCHANGED <<ret, live, freeq, adrift>>

\* The source is written over the page. Without a source a blank page is
\* meant to be, but the byte offset is taken for an index: the blank lands
\* PAGESIZE times further on and the reused page keeps what it holds.
ReusePage ==
  /\ call.at = "reuse_page"
  /\ IF call.src # NULL
     THEN Pwrite(call.offset, DataPage(call.src))
     ELSE Pwrite(index_to_offset(call.offset), BlankPage)
  /\ Goto("reuse_meta")
  /\ UNCHANGED <<ret, live, freeq, adrift>>

\* The list after its first page is taken off, by the metadata in memory: it
\* goes on where that leads to a place in the file.
RestOfQueue ==
  IF Len(freeq) > 1 THEN Tail(freeq)
  ELSE IF ~Readable(HeadOf(call.meta)) THEN <<>>
  ELSE <<offset_to_index(HeadOf(call.meta))>>

ReuseMeta ==
  /\ call.at = "reuse_meta"
  /\ Pwrite(index_to_offset(METADATA), call.meta)
  /\ call' = Idle
  /\ ret' = Result("STATUS_OK", call.index)
  /\ live' = live \cup {call.index}
  /\ freeq' = RestOfQueue
  /\ adrift' = adrift \ {RestOfQueue[i] : i \in DOMAIN RestOfQueue}

\* Faulty: the new page is the last one of the store, not the one behind it.
AllocExtendAtLast(src) ==
  LET meta == disk[METADATA]
      last == SizeOf(meta) - 1
  IN
  /\ call.at = "idle"
  /\ HeadOf(meta) = EMPTY_LIST
  /\ SizeOf(meta) < MaxSize   \* bound
  /\ call' = [at |-> "extend_blank", index |-> last,
              offset |-> index_to_offset(last), src |-> src, meta |-> meta]
  /\ UNCHANGED <<disk, eof, ret, live, freeq, adrift>>

\* The list is empty: the page behind the last one is made.
AllocExtend(src) ==
  LET meta == disk[METADATA] IN
  /\ call.at = "idle"
  /\ HeadOf(meta) = EMPTY_LIST
  /\ SizeOf(meta) < MaxSize   \* bound
  /\ call' = [at |-> "extend_blank", index |-> SizeOf(meta),
              offset |-> index_to_offset(SizeOf(meta)), src |-> src,
              meta |-> meta]
  /\ UNCHANGED <<disk, eof, ret, live, freeq, adrift>>

\* Faulty: the size does not grow (line 270 missing).
GrownNot(meta) == meta

\* The metadata in memory once the new page is written.
Grown(meta) == MetaPage(SizeOf(meta) + 1, HeadOf(meta), TailOf(meta))

ExtendBlank ==
  /\ call.at = "extend_blank"
  /\ Pwrite(call.offset, BlankPage)
  /\ call' = IF call.src # NULL
             THEN [call EXCEPT !.at = "extend_data"]
             ELSE [call EXCEPT !.at = "extend_meta", !.meta = Grown(call.meta)]
  /\ UNCHANGED <<ret, live, freeq, adrift>>

ExtendData ==
  /\ call.at = "extend_data"
  /\ Pwrite(call.offset, DataPage(call.src))
  /\ call' = [call EXCEPT !.at = "extend_meta", !.meta = Grown(call.meta)]
  /\ UNCHANGED <<ret, live, freeq, adrift>>

ExtendMeta ==
  /\ call.at = "extend_meta"
  /\ Pwrite(index_to_offset(METADATA), call.meta)
  /\ call' = Idle
  /\ ret' = Result("STATUS_OK", call.index)
  /\ live' = live \cup {call.index}
  /\ UNCHANGED <<freeq, adrift>>

-----------------------------------------------------------------------------
(* free_page *)

\* The pages a client hands to free_page: one it owns; or also one that is
\* free already; or any index at all.
FreeArgument ==
  CASE Client = "owner" -> live
    [] Client = "refree" -> live \cup Queued
    [] OTHER -> LET Index == 1 .. MaxSize IN Index

\* The metadata is read, and the list is empty or not. From here on the
\* caller no longer owns the page.
FreePageCall(index) ==
  LET meta == disk[METADATA]
      offset == index_to_offset(index)
      empty == TailOf(meta) = EMPTY_LIST /\ HeadOf(meta) = EMPTY_LIST
  IN
  /\ call.at = "idle"
  /\ offset # 0
  /\ call' = [at |-> IF empty THEN "first_page" ELSE "append_old",
              index |-> index, offset |-> offset, src |-> NULL,
              meta |-> IF empty THEN MetaPage(SizeOf(meta), offset, offset)
                                ELSE meta]
  /\ live' = live \ {index}
  /\ adrift' = adrift \cup ({index} \ Queued)
  /\ UNCHANGED <<disk, eof, ret, freeq>>

FirstPage ==
  /\ call.at = "first_page"
  /\ Pwrite(call.offset, FreePage(EMPTY_LIST))
  /\ Goto("first_meta")
  /\ UNCHANGED <<ret, live, freeq, adrift>>

FirstMeta ==
  /\ call.at = "first_meta"
  /\ Pwrite(index_to_offset(METADATA), call.meta)
  /\ call' = Idle
  /\ ret' = Result("STATUS_OK", ERR_SET)
  /\ freeq' = <<call.index>>
  /\ adrift' = adrift \ {call.index}
  /\ UNCHANGED live

\* Faulty: the first free page is linked to the new one.
AppendOldAtHead ==
  /\ call.at = "append_old"
  /\ Pwrite(HeadOf(call.meta), FreePage(call.offset))
  /\ Goto("append_page")
  /\ UNCHANGED <<ret, live, freeq, adrift>>

\* The last free page is linked to the new one first ...
AppendOld ==
  /\ call.at = "append_old"
  /\ Pwrite(TailOf(call.meta), FreePage(call.offset))
  /\ Goto("append_page")
  /\ UNCHANGED <<ret, live, freeq, adrift>>

\* Faulty: the link of the new page is left zero (line 353 missing).
AppendPageZeroLink ==
  /\ call.at = "append_page"
  /\ Pwrite(call.offset, FreePage(0))
  /\ call' = [call EXCEPT !.at = "append_meta",
                !.meta = MetaPage(SizeOf(call.meta), HeadOf(call.meta), call.offset)]
  /\ UNCHANGED <<ret, live, freeq, adrift>>

\* ... then the new one becomes the end of the list ...
AppendPage ==
  /\ call.at = "append_page"
  /\ Pwrite(call.offset, FreePage(EMPTY_LIST))
  /\ call' = [call EXCEPT !.at = "append_meta",
                !.meta = MetaPage(SizeOf(call.meta), HeadOf(call.meta), call.offset)]
  /\ UNCHANGED <<ret, live, freeq, adrift>>

\* ... and last the tail in the metadata moves to it. A page that was on the
\* list already cuts it short.
AppendMeta ==
  /\ call.at = "append_meta"
  /\ Pwrite(index_to_offset(METADATA), call.meta)
  /\ call' = Idle
  /\ ret' = Result("STATUS_OK", ERR_SET)
  /\ IF call.index \in Queued
     THEN \E i \in DOMAIN freeq :
            /\ freeq[i] = call.index
            /\ freeq' = SubSeq(freeq, 1, i)
            /\ adrift' = adrift \cup {freeq[j] : j \in i + 1 .. Len(freeq)}
     ELSE /\ freeq' = Append(freeq, call.index)
          /\ adrift' = adrift \ {call.index}
  /\ UNCHANGED live

-----------------------------------------------------------------------------
(* get_page, put_page and the calls that are refused. *)

GetPage(index) ==
  Return(IF Readable(index_to_offset(index)) THEN "STATUS_OK"
                                             ELSE "STATUS_BAD_READ", ERR_SET)

PutPage(index, word) ==
  /\ call.at = "idle"
  /\ Pwrite(index_to_offset(index), DataPage(word))
  /\ ret' = Result("STATUS_OK", ERR_SET)
  /\ UNCHANGED <<call, live, freeq, adrift>>

\* free_page, get_page and put_page refuse the metadata page; every
\* function refuses a null store.
Refuse ==
  \/ Return("STATUS_META_PAGE", ERR_SET)
  \/ Return("STATUS_NO_FILE", ERR_SET)

-----------------------------------------------------------------------------
(* Failures. A failed pwrite leaves its block as it was; the call gives up *)
(* and undoes nothing. A crash loses the call; the file is opened again.   *)

\* Where the pending pwrite goes.
Target ==
  CASE call.at = "reuse_page" -> IF call.src # NULL THEN call.offset
                                 ELSE index_to_offset(call.offset)
    [] call.at \in {"reuse_meta", "extend_meta", "first_meta", "append_meta"} ->
         index_to_offset(METADATA)
    [] call.at = "append_old" -> TailOf(call.meta)
    [] OTHER -> call.offset

\* The three points at which stopping harms the list: the head of the list
\* is overwritten with the client's data and still the head; the tail links
\* to a page that is not yet a free page; a page freed again ends the list
\* in its middle while the tail is further on.
UnsafePoint ==
  \/ call.at = "reuse_meta" /\ call.src # NULL
  \/ call.at = "append_page"
  \/ call.at = "append_meta" /\ call.index \in Queued

MayStop ==
  /\ call.at # "idle"
  /\ \/ FaultMode = "any"
     \/ FaultMode = "safe" /\ ~UnsafePoint

\* What a failing alloc_page stores in *index: the one path that writes the
\* data of a new page stores STATUS_ERR.
IndexOnError == IF call.at = "extend_data" THEN STATUS_ERR ELSE ERR_SET

PwriteFails ==
  /\ call.at # "idle"
  /\ MayStop \/ ~Writable(Target)
  /\ call' = Idle
  /\ ret' = Result("STATUS_BAD_WRITE", IndexOnError)
  /\ UNCHANGED <<disk, eof, live, freeq, adrift>>

Crash ==
  /\ MayStop
  /\ call' = Idle
  /\ ret' = Result("STATUS_OK", ERR_SET)
  /\ UNCHANGED <<disk, eof, live, freeq, adrift>>

\* Reads of the metadata and writes of a client's page that fail change nothing.
IOFails ==
  /\ FaultMode # "none"
  /\ \/ Return("STATUS_BAD_READ", ERR_SET)
     \/ Return("STATUS_BAD_WRITE", ERR_SET)

-----------------------------------------------------------------------------
(* The behaviours: one call at a time, of clients that put only pages they *)
(* own and free what Client says.                                          *)

Alloc ==
  \/ \E src \in Sources : AllocReuse(src) \/ AllocExtend(src)
  \/ AllocBadLink
  \/ ReusePage \/ ReuseMeta
  \/ ExtendBlank \/ ExtendData \/ ExtendMeta

Free ==
  \/ \E index \in FreeArgument : FreePageCall(index)
  \/ FirstPage \/ FirstMeta
  \/ AppendOld \/ AppendPage \/ AppendMeta

Access ==
  \/ \E index \in live : GetPage(index)
  \/ \E index \in live, word \in Data : PutPage(index, word)
  \/ Refuse

Fault == PwriteFails \/ Crash \/ IOFails

Next == Alloc \/ Free \/ Access \/ Fault

Spec == Init /\ [][Next]_vars

-----------------------------------------------------------------------------
(* Properties. *)

\* Type invariant of the page store (fileio.c, fileio.h).
TypeOK ==
  /\ disk \in [Block -> Page]
  /\ eof \in Nat
  /\ call \in [at : Labels, index : Int, offset : Int,
               src : Data \cup {NULL}, meta : Page]
  /\ ret.index \in Int
  /\ live \in SUBSET (1 .. MaxSize)
  /\ freeq \in Seq(1 .. MaxSize)
  /\ adrift \in SUBSET (1 .. MaxSize)

\* Page p of the file is where byte offset o says.
IsAt(o, p) == o = index_to_offset(p)

\* The metadata on disk names the first and the last page of the list, and
\* both or neither are empty (alloc_page:212, free_page:321).
EndsOfList ==
  LET meta == disk[METADATA] IN
  IF freeq = <<>>
  THEN HeadOf(meta) = EMPTY_LIST /\ TailOf(meta) = EMPTY_LIST
  ELSE IsAt(HeadOf(meta), freeq[1]) /\ IsAt(TailOf(meta), freeq[Len(freeq)])

\* Each free page on disk links to the next one in the queue, whatever call
\* is between two of its writes; only a page being written over with the
\* source of alloc_page has lost its link, which the call holds.
LinksOfList ==
  \A i \in 1 .. Len(freeq) - 1 :
    \/ LinkOf(disk[freeq[i]]) = index_to_offset(freeq[i + 1])
    \/ i = 1 /\ call.at = "reuse_meta" /\ call.src # NULL
    \/ call.at = "append_meta" /\ call.index = freeq[i]

\* The last free page ends the list, or links to one page adrift that ends
\* it: the page of a free_page in progress, or of one that stopped before
\* the tail in the metadata moved. alloc_page then takes that page for free.
EndLink ==
  freeq # <<>> =>
    LET link == LinkOf(disk[freeq[Len(freeq)]]) IN
    \/ link = EMPTY_LIST
    \/ \E p \in adrift :
         /\ IsAt(link, p)
         /\ \/ LinkOf(disk[p]) = EMPTY_LIST
            \/ call.at = "append_page" /\ call.index = p
    \/ call.at = "append_page" /\ call.index \in Queued /\ link = call.offset
    \/ call.at = "append_meta" /\ call.index \in Queued
    \/ Len(freeq) = 1 /\ call.at = "reuse_meta" /\ call.src # NULL

\* The list in the file is the queue of free pages: from the head in the
\* metadata, link by link, to the tail.
FreeListOnDisk == EndsOfList /\ LinksOfList /\ EndLink

\* A page of the store has one place: a client owns it, or it is on the list
\* once, or it is adrift. alloc_page's and free_page's bookkeeping loses no
\* page and hands none out twice.
PagesAccounted ==
  /\ live \cap Queued = {}
  /\ live \cap adrift = {}
  /\ Queued \cap adrift = {}
  /\ \A i, j \in DOMAIN freeq : freeq[i] = freeq[j] => i = j
  /\ live \cup Queued \cup adrift = 1 .. SizeOf(disk[METADATA]) - 1

\* The page alloc_page returns is a page of the store, in the file, that no
\* client owns: alloc_page:245, 279 never give a page to two clients.
AllocGivesFreshPage ==
  [][ReuseMeta \/ ExtendMeta =>
       /\ ret'.index \notin live
       /\ ret'.index \in 1 .. SizeOf(disk'[METADATA]) - 1
       /\ ret'.index < eof']_vars

\* Nothing but put_page changes a page a client owns and keeps: no alloc,
\* free or failure of one page touches the contents of another.
LivePagesKeepData ==
  [][\A p \in live \cap live' :
       disk'[p] = disk[p] \/ \E word \in Data : PutPage(p, word)]_vars

\* The metadata page is the last thing a call writes: as long as the call
\* runs, and after it failed, the metadata on disk is what it was before.
MetadataWrittenLast ==
  [][call.at # "idle" /\ disk'[METADATA] # disk[METADATA] =>
       call' = Idle /\ ret'.status = "STATUS_OK"]_vars

\* fileio.c:228: a reused page that was allocated without a source is blank.
NullAllocIsBlank ==
  [][(ReuseMeta \/ ExtendMeta) /\ call.src = NULL =>
       disk'[ret'.index] = BlankPage]_vars

\* fileio.h:30-34: the offset in each page of the list is that of the next
\* free page, one that no client owns and that is free on disk too.
LinksNameFreePages ==
  call.at = "idle" =>
    \A i \in DOMAIN freeq :
      \/ LinkOf(disk[freeq[i]]) = EMPTY_LIST
      \/ \E p \in Queued : IsAt(LinkOf(disk[freeq[i]]), p)

-----------------------------------------------------------------------------
(* The inductive invariant: what the properties above leave unsaid is what *)
(* a call in progress holds in its locals.                                 *)

\* What the theorems assume: with more than PAGESIZE pages the stray blank of
\* ReusePage hits a page of the store.
SmallStore == MaxSize <= PAGESIZE
SafeUse == FaultMode # "any" /\ Client # "any"

\* Or: faults anywhere, but clients free what they own, always give a source,
\* and have data that reads neither as the offset of a block nor as the end of
\* the list, as text does.
PlainData ==
  /\ Client = "owner" /\ NULL \notin Sources
  /\ \A word \in Data : word # EMPTY_LIST /\ ~Writable(word)

GoodUse == (SmallStore /\ SafeUse) \/ PlainData

\* The store has its metadata page, and every page of it is in the file.
SizeInv ==
  /\ SizeOf(disk[METADATA]) \in 1 .. MaxSize
  /\ SizeOf(disk[METADATA]) <= eof

\* The link where the list ends: none, or the one page adrift it may go on to.
Dangling(link) ==
  \/ link = EMPTY_LIST
  \/ \E p \in adrift : IsAt(link, p) /\ LinkOf(disk[p]) = EMPTY_LIST

\* alloc_page holds the first free page and the ends of the list behind it.
ReuseInv ==
  call.at \in {"reuse_page", "reuse_meta"} =>
    /\ freeq # <<>>
    /\ call.index = freeq[1]
    /\ IsAt(call.offset, freeq[1])
    /\ SizeOf(call.meta) = SizeOf(disk[METADATA])
    /\ IF Len(freeq) > 1
       THEN /\ IsAt(HeadOf(call.meta), freeq[2])
            /\ TailOf(call.meta) = TailOf(disk[METADATA])
       ELSE /\ HeadOf(call.meta) = TailOf(call.meta)
            /\ Dangling(HeadOf(call.meta))

\* alloc_page makes the page behind the last one.
ExtendInv ==
  call.at \in {"extend_blank", "extend_data", "extend_meta"} =>
    /\ freeq = <<>>
    /\ call.index = SizeOf(disk[METADATA])
    /\ call.index < MaxSize
    /\ IsAt(call.offset, call.index)
    /\ call.at = "extend_data" => call.src # NULL
    /\ IF call.at = "extend_meta"
       THEN call.meta = Grown(disk[METADATA]) /\ call.index < eof
       ELSE call.meta = disk[METADATA]

\* free_page makes its page the whole list.
FirstInv ==
  call.at \in {"first_page", "first_meta"} =>
    /\ freeq = <<>>
    /\ call.index \in adrift
    /\ IsAt(call.offset, call.index)
    /\ call.meta = MetaPage(SizeOf(disk[METADATA]), call.offset, call.offset)
    /\ call.at = "first_meta" => LinkOf(disk[call.index]) = EMPTY_LIST

\* free_page appends its page to the list.
AppendInv ==
  call.at \in {"append_old", "append_page", "append_meta"} =>
    /\ freeq # <<>>
    /\ call.index \in adrift \cup Queued
    /\ IsAt(call.offset, call.index)
    /\ IF call.at = "append_meta"
       THEN /\ call.meta = MetaPage(SizeOf(disk[METADATA]),
                                   HeadOf(disk[METADATA]), call.offset)
            /\ LinkOf(disk[call.index]) = EMPTY_LIST
       ELSE call.meta = disk[METADATA]
    /\ (call.at = "append_page" \/ (call.at = "append_meta" /\ call.index \notin Queued)) =>
         LinkOf(disk[freeq[Len(freeq)]]) = call.offset

\* TypeOK, FreeListOnDisk and PagesAccounted, with what makes them inductive.
IInv ==
  /\ TypeOK
  /\ SizeInv
  /\ PagesAccounted
  /\ FreeListOnDisk
  /\ call.at = "idle" => call = Idle
  /\ ReuseInv
  /\ ExtendInv
  /\ FirstInv
  /\ AppendInv

-----------------------------------------------------------------------------
(* The inductive invariant when calls stop anywhere and data is plain: an  *)
(* interrupted call may leave data where the list has a link, but nothing  *)
(* that leads to a page of a client.                                       *)

\* A page's first word is data where a link should be.
Text(link) == link \in Data

\* A link that ends the list, or goes on to a page adrift.
Loose(link) == link = EMPTY_LIST \/ \E p \in adrift : IsAt(link, p)

\* Where place i of the queue may lead: to the next place, unless it is
\* overwritten; from the last nowhere, or astray.
Onward(link, i) ==
  \/ Text(link)
  \/ i < Len(freeq) /\ IsAt(link, freeq[i + 1])
  \/ i = Len(freeq) /\ Loose(link)

\* The head of the list is data: nothing is ever reused again.
Ruined == Text(HeadOf(disk[METADATA]))

PlainPages ==
  /\ eof - 1 \in Block
  /\ \A p \in live : Text(LinkOf(disk[p]))
  /\ \A p \in adrift : Text(LinkOf(disk[p])) \/ LinkOf(disk[p]) = EMPTY_LIST

PlainEnds ==
  LET head == HeadOf(disk[METADATA])
      tail == TailOf(disk[METADATA])
  IN IF freeq = <<>> THEN head = tail /\ (Text(head) \/ head = EMPTY_LIST)
     ELSE (Text(head) \/ IsAt(head, freeq[1])) /\ IsAt(tail, freeq[Len(freeq)])

PlainLinks ==
  Ruined \/ \A i \in 1 .. Len(freeq) : Onward(LinkOf(disk[freeq[i]]), i)

PlainReuse ==
  call.at \in {"reuse_page", "reuse_meta"} =>
    /\ freeq # <<>> /\ ~Ruined
    /\ call.index = freeq[1] /\ IsAt(call.offset, freeq[1]) /\ call.src \in Data
    /\ SizeOf(call.meta) = SizeOf(disk[METADATA])
    /\ Onward(HeadOf(call.meta), 1)
    /\ TailOf(call.meta) = IF Len(freeq) > 1 THEN TailOf(disk[METADATA])
                           ELSE HeadOf(call.meta)
    /\ call.at = "reuse_meta" => Text(LinkOf(disk[freeq[1]]))

PlainExtend ==
  call.at \in {"extend_blank", "extend_data", "extend_meta"} =>
    /\ freeq = <<>>
    /\ call.index = SizeOf(disk[METADATA]) /\ call.index < MaxSize
    /\ IsAt(call.offset, call.index) /\ call.src \in Data
    /\ IF call.at = "extend_meta"
       THEN /\ call.meta = Grown(disk[METADATA]) /\ call.index < eof
            /\ Text(LinkOf(disk[call.index]))
       ELSE call.meta = disk[METADATA]

PlainFirst ==
  call.at \in {"first_page", "first_meta"} =>
    /\ freeq = <<>> /\ call.index \in adrift /\ IsAt(call.offset, call.index)
    /\ call.meta = MetaPage(SizeOf(disk[METADATA]), call.offset, call.offset)
    /\ call.at = "first_meta" => LinkOf(disk[call.index]) = EMPTY_LIST

PlainAppend ==
  call.at \in {"append_old", "append_page", "append_meta"} =>
    /\ call.index \in adrift /\ IsAt(call.offset, call.index)
    /\ call.at # "append_meta" => call.meta = disk[METADATA]
    /\ call.at # "append_old" =>
         freeq # <<>> /\ LinkOf(disk[freeq[Len(freeq)]]) = call.offset
    /\ call.at = "append_meta" =>
         /\ call.meta = MetaPage(SizeOf(disk[METADATA]), HeadOf(disk[METADATA]), call.offset)
         /\ LinkOf(disk[call.index]) = EMPTY_LIST

PlainInv ==
  /\ TypeOK /\ SizeInv /\ PagesAccounted
  /\ PlainPages /\ PlainEnds /\ PlainLinks
  /\ PlainReuse /\ PlainExtend /\ PlainFirst /\ PlainAppend

-----------------------------------------------------------------------------
\* FileIO implements PageAllocator: the pages the clients own hold what the
\* file holds, the queue is the list.
Allocator == INSTANCE PageAllocator WITH
  size   <- SizeOf(disk[METADATA]),
  memory <- [p \in live |-> disk[p]],
  queue  <- freeq

Refines == Allocator!Spec

=============================================================================
