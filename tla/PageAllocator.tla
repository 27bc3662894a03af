--------------------------- MODULE PageAllocator ---------------------------
(***************************************************************************)
(* What src/lib/fileio.c promises its callers, without the file behind it. *)
(*                                                                         *)
(* A store is a growing range of pages 1..size-1 (page 0 is the metadata). *)
(* Every page is in exactly one of three places: a client owns it and its  *)
(* contents are in memory; it waits in the first-in first-out queue of     *)
(* free pages; or it is adrift: given up by its owner but not (or no       *)
(* longer) in the queue, as after a free_page that failed half way.        *)
(* FileIO implements this specification (FileIO!Refines).                  *)
(***************************************************************************)
EXTENDS Integers, Sequences

VARIABLES
  size,     \* one more than the highest page ever handed out
  memory,   \* contents of the pages a client owns: [owned pages -> contents]
  queue,    \* the free pages, next to be reused first
  adrift    \* pages no client owns and the queue does not hold

vars == <<size, memory, queue, adrift>>

Owned == DOMAIN memory

\* The other owned pages keep what they hold.
Untouched(pages) == \A p \in pages : memory'[p] = memory[p]

Init ==
  /\ size = 1
  /\ DOMAIN memory = {}
  /\ queue = <<>>
  /\ adrift = {}

\* The longest-free page is reused. If it was the only one, a page adrift
\* whose release was interrupted may turn out to be next in the queue.
Reuse ==
  /\ queue # <<>>
  /\ DOMAIN memory' = Owned \cup {Head(queue)}
  /\ Untouched(Owned)
  /\ \/ queue' = Tail(queue) /\ adrift' = adrift
     \/ /\ Len(queue) = 1
        /\ \E p \in adrift : queue' = <<p>> /\ adrift' = adrift \ {p}
  /\ UNCHANGED size

\* No page is free: the store grows by one.
Extend ==
  /\ queue = <<>>
  /\ DOMAIN memory' = Owned \cup {size}
  /\ Untouched(Owned)
  /\ size' = size + 1
  /\ UNCHANGED <<queue, adrift>>

\* The owner changes a page.
Write ==
  \E p \in Owned :
    /\ DOMAIN memory' = Owned
    /\ Untouched(Owned \ {p})
    /\ UNCHANGED <<size, queue, adrift>>

\* The owner gives a page up ...
Release ==
  \E p \in Owned :
    /\ DOMAIN memory' = Owned \ {p}
    /\ Untouched(Owned \ {p})
    /\ adrift' = adrift \cup {p}
    /\ UNCHANGED <<size, queue>>

\* ... and the store queues it for reuse.
Enqueue ==
  \E p \in adrift :
    /\ queue' = Append(queue, p)
    /\ adrift' = adrift \ {p}
    /\ UNCHANGED <<size, memory>>

\* A page that is free already is freed again: it becomes the last of the
\* queue where it stands, and the pages behind it are lost.
Requeue ==
  \E i \in DOMAIN queue :
    /\ queue' = SubSeq(queue, 1, i)
    /\ adrift' = adrift \cup {queue[j] : j \in i + 1 .. Len(queue)}
    /\ UNCHANGED <<size, memory>>

Next == Reuse \/ Extend \/ Write \/ Release \/ Enqueue \/ Requeue

Spec == Init /\ [][Next]_vars

=============================================================================
