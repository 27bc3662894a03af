---------------------------- MODULE OneFramePool ----------------------------
(***************************************************************************)
(* What src/lib/buffer_manager.c does for its clients, without the frames, *)
(* the next pointers and the two lists: one frame, whatever number of them *)
(* the manager was created with.                                           *)
(*                                                                         *)
(* The frame can be pinned any number of times at once. A pin either loads *)
(* a page into it, over whatever it holds, or hands it out as it is. Once  *)
(* it was unpinned dirty it waits to be written back for good: each walk   *)
(* writes it to the page it holds by then, once or again and again.        *)
(* BufferManager implements this specification (BufferManager!Refines).    *)
(***************************************************************************)
EXTENDS Integers

CONSTANTS Slots, Data, Absent, Free, Blank, Faults

VARIABLES
  state,     \* pinned or not, dirty or not
  page,      \* the page in the frame, 0 before the first
  content,   \* what the frame holds
  waiting,   \* whether the frame is to be written back
  seen,      \* the stack addresses pins have come from
  disk,      \* the contents of the pages
  owned,     \* the pages allocated and not freed
  pins,      \* the pins that clients have not given back
  status,    \* the status of the last call
  mode,      \* "idle", the walk in progress, or how the process ended
  due        \* whether the walk has the frame still, or again, to write

frame == <<state, page, content, waiting, pins>>
store == <<disk, owned>>
vars == <<frame, store, seen, status, mode, due>>

Pages == DOMAIN disk

Init ==
  /\ state = "unpinned" /\ page = 0 /\ content = Blank /\ pins = 0
  /\ waiting = FALSE /\ seen = {}
  /\ disk \in [Pages -> {Absent}] /\ owned = {}
  /\ status = "STATUS_OK" /\ mode = "idle" /\ due = FALSE

-----------------------------------------------------------------------------

\* From an address seen before, the frame is handed out as it is.
HandOut(slot) ==
  /\ slot \in seen
  /\ status' = "STATUS_OK"
  /\ pins' = pins + 1
  /\ UNCHANGED <<state, page, content, waiting, seen, mode>>

\* From a new address, page p is read into the frame; or the process dies of
\* it, which takes two frames a second address.
Load(slot, p, bytes) ==
  /\ slot \notin seen
  /\ seen' = seen \cup {slot}
  /\ \/ /\ state' = "pinned" /\ page' = p /\ content' = bytes
        /\ status' = "STATUS_OK" /\ pins' = pins + 1
        /\ UNCHANGED <<waiting, mode>>
     \/ /\ mode' = "crashed" /\ content' = bytes
        /\ UNCHANGED <<state, page, waiting, pins, status>>

\* Or the page cannot be read; the address counts as seen.
FailToLoad(slot) ==
  /\ slot \notin seen
  /\ seen' = seen \cup {slot}
  /\ status' = "STATUS_BAD_READ"
  /\ UNCHANGED <<frame, mode>>

Pin(slot, p, bytes) ==
  /\ mode = "idle"
  /\ HandOut(slot) \/ Load(slot, p, bytes) \/ (Faults /\ FailToLoad(slot))
  /\ UNCHANGED due

\* Any page of the file can be pinned, whoever has it.
PinPage ==
  /\ UNCHANGED store
  /\ \E slot \in Slots, p \in Pages : disk[p] # Absent /\ Pin(slot, p, disk[p])

\* What is not in the file is not loaded; an address seen before gets the
\* frame all the same.
PinNothing ==
  /\ mode = "idle"
  /\ UNCHANGED <<store, due>>
  /\ \E slot \in Slots : HandOut(slot) \/ FailToLoad(slot)

\* A new page is the caller's, blank if the file grew for it, then pinned.
PinNewPage ==
  \E slot \in Slots, p \in Pages \ owned :
    LET bytes == IF disk[p] = Absent THEN Blank ELSE disk[p] IN
    /\ owned' = owned \cup {p}
    /\ disk' = [disk EXCEPT ![p] = bytes]
    /\ Pin(slot, p, bytes)

\* The frame is given back: if it is pinned it is unpinned, and waits if it
\* was dirty.
Unpin ==
  /\ mode = "idle" /\ pins > 0
  /\ pins' = pins - 1
  /\ \/ /\ state = "pinned"
        /\ state' = "unpinned" /\ status' = "STATUS_OK" /\ UNCHANGED waiting
     \/ /\ state = "pinned_dirty"
        /\ state' = "unpinned_dirty" /\ status' = "STATUS_OK" /\ waiting' = TRUE
     \/ /\ state \in {"unpinned", "unpinned_dirty"}
        /\ status' = "STATUS_ERR" /\ UNCHANGED <<state, waiting>>
  /\ UNCHANGED <<page, content, store, seen, mode, due>>

\* The page in the frame is freed; a frame that waits goes on waiting. If it
\* fails the client has the page or has lost it, and it may be free or not.
FreePage ==
  /\ mode = "idle" /\ pins > 0
  /\ pins' = pins - 1
  /\ state' = "unpinned"
  /\ \/ /\ page # 0
        /\ disk' = [disk EXCEPT ![page] = Free] /\ owned' = owned \ {page}
        /\ status' = "STATUS_OK"
     \/ /\ page = 0
        /\ status' = "STATUS_META_PAGE" /\ UNCHANGED store
     \/ /\ page # 0 /\ Faults
        /\ disk' \in {disk, [disk EXCEPT ![page] = Free]}
        /\ owned' \in {owned, owned \ {page}}
        /\ status' = "STATUS_BAD_WRITE"
  /\ UNCHANGED <<page, content, waiting, seen, mode, due>>

Mark ==
  /\ mode = "idle" /\ pins > 0
  /\ \/ /\ state \in {"pinned", "pinned_dirty"}
        /\ state' = "pinned_dirty" /\ status' = "STATUS_OK"
     \/ /\ state \in {"unpinned", "unpinned_dirty"}
        /\ status' = "STATUS_MARK_ERR" /\ UNCHANGED state
  /\ UNCHANGED <<page, content, waiting, pins, store, seen, mode, due>>

Change ==
  /\ mode = "idle" /\ pins > 0
  /\ content' \in Data
  /\ UNCHANGED <<state, page, waiting, pins, store, seen, status, mode, due>>

\* A call that does nothing with the pool: it is refused, fails before it does
\* anything, or is one of a client's own.
Refuse ==
  /\ mode = "idle"
  /\ status' \in {"STATUS_ERR", "STATUS_META_PAGE", "STATUS_NO_MANAGER",
                 "STATUS_BAD_WRITE", "STATUS_NO_CONFIG", "STATUS_OK"}
  /\ UNCHANGED <<frame, store, seen, mode, due>>

-----------------------------------------------------------------------------

StartWalk ==
  /\ mode = "idle" /\ mode' \in {"flush", "destroy"}
  /\ due' = waiting
  /\ UNCHANGED <<frame, store, seen, status>>

\* The frame is written to the page it holds, and is clean; or the write
\* fails. The walk may come to it once more.
Save ==
  /\ mode \in {"flush", "destroy"} /\ due
  /\ \/ disk' = [disk EXCEPT ![page] = content] /\ state' = "unpinned"
     \/ Faults /\ UNCHANGED <<disk, state>>
  /\ due' \in BOOLEAN
  /\ UNCHANGED <<page, content, waiting, pins, owned, seen, status, mode>>

\* A manager that has pinned anything does not survive its destruction.
EndWalk ==
  /\ \/ mode = "flush" /\ mode' = "idle"
     \/ mode = "destroy" /\ mode' = (IF seen = {} THEN "destroyed" ELSE "aborted")
  /\ ~due
  /\ status' = "STATUS_OK"
  /\ UNCHANGED <<frame, store, seen, due>>

Next ==
  \/ PinPage \/ PinNothing \/ PinNewPage \/ Unpin \/ FreePage \/ Mark \/ Change \/ Refuse
  \/ StartWalk \/ Save \/ EndWalk

Spec == Init /\ [][Next]_vars

=============================================================================
