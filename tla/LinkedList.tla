----------------------------- MODULE LinkedList -----------------------------
(***************************************************************************)
(* The doubly linked lists of src/lib/datastructures/linkedlist.h (lines   *)
(* 68-369): several heads, entries that clients put on their lists, and a  *)
(* loop that is safe against the removal of its entry.                     *)
(*                                                                         *)
(* Clients keep to the comments: they add what is on no list, remove what  *)
(* is on one or was reinitialised, do not use a head after list_splice has *)
(* emptied it before they reinitialise it, and in the loop remove or move  *)
(* to another list the entry they have come to and no other.               *)
(***************************************************************************)
EXTENDS ListNodes, Chains

CONSTANTS Heads, Entries

ASSUME NodesAssumption ==
  /\ Heads \cap Entries = {}
  /\ {NULL, LIST_POISON1, LIST_POISON2} \cap (Heads \cup Entries) = {}
  /\ IsFiniteSet(Entries)

VARIABLES
  node,     \* struct list_head of every head and entry: next and prev
  owner,    \* history: the head whose list a node is on; a head is its own
  stale,    \* history: the heads that list_splice emptied
  loop,     \* the head and the direction of the loop in progress, or NoLoop
  pos,      \* the loop's entry
  ahead,    \* n of list_for_each_safe: the one behind it
  visited,  \* history: the entries the loop is done with
  due       \* history: the entries on its list when it started, in its order

links == <<node, owner, stale>>
looping == <<loop, pos, ahead, visited, due>>
listVars == <<links, looping>>

Nodes == Heads \cup Entries
Pointers == Nodes \cup {LIST_POISON1, LIST_POISON2}

Self(x) == [next |-> x, prev |-> x]
Poison == [next |-> LIST_POISON1, prev |-> LIST_POISON2]

NoLoop == [head |-> NULL, back |-> FALSE]

\* Entries start as list_del leaves them: list_add reads neither pointer.
ListInit ==
  /\ node = [x \in Nodes |-> IF x \in Heads THEN Self(x) ELSE Poison]
  /\ owner = [x \in Nodes |-> IF x \in Heads THEN x ELSE NULL]
  /\ stale = {}
  /\ loop = NoLoop /\ pos = NULL /\ ahead = NULL
  /\ visited = <<>> /\ due = <<>>

\* Nodes whose pointers may be followed; entries that are on a list; nodes
\* that others can be put before or behind.
Live == (Heads \ stale) \cup {e \in Entries : node[e].next # LIST_POISON1}
Linked == {e \in Entries : node[e].next \notin {LIST_POISON1, e}}
Anchors == (Heads \ stale) \cup Linked

-----------------------------------------------------------------------------
(* The operations, as what they make of the nodes.                         *)

\* __list_add: new goes between two neighbours.
Between(nodes, new, prev, next) ==
  [nodes EXCEPT ![next].prev = new,
                ![new] = [next |-> next, prev |-> prev],
                ![prev].next = new]

\* Faulty: the next entry keeps its prev (line 133 missing).
WithoutHalf(nodes, e) ==
  [nodes EXCEPT ![nodes[e].prev].next = nodes[e].next]

\* __list_del: the neighbours of e point to each other.
Without(nodes, e) ==
  LET prev == nodes[e].prev
      next == nodes[e].next
  IN [nodes EXCEPT ![next].prev = prev, ![prev].next = next]

Behind(nodes, e, head) == Between(nodes, e, head, nodes[head].next)
Before(nodes, e, head) == Between(nodes, e, nodes[head].prev, head)

\* Faulty: the last entry goes on to the spliced head (line 204 missing).
SplicedOpen(nodes, list, head) ==
  LET first == nodes[list].next
      last == nodes[list].prev
      at == nodes[head].next
  IN [nodes EXCEPT ![first].prev = head, ![head].next = first, ![at].prev = last]

\* __list_splice: the entries of list go between head and the one behind it.
Spliced(nodes, list, head) ==
  LET first == nodes[list].next
      last == nodes[list].prev
      at == nodes[head].next
  IN [nodes EXCEPT ![first].prev = head, ![head].next = first,
                   ![last].next = at, ![at].prev = last]

-----------------------------------------------------------------------------

\* Outside a loop any entry may be touched; inside only the one at pos, and
\* nothing is put on the loop's own list.
Touchable(e) == loop = NoLoop \/ (pos = e /\ e # loop.head)
Reachable(head) == loop = NoLoop \/ (head \in Heads \ {loop.head})

ListAdd(new, head) ==
  /\ Touchable(new) /\ Reachable(head)
  /\ new \notin Linked /\ head \in Anchors
  /\ node' = Behind(node, new, head)
  /\ owner' = [owner EXCEPT ![new] = owner[head]]
  /\ UNCHANGED <<stale, looping>>

\* Faulty: the entry goes to the other end (head->next for head).
ListAddTailFirst(new, head) ==
  /\ Touchable(new) /\ Reachable(head)
  /\ new \notin Linked /\ head \in Anchors
  /\ node' = Before(node, new, node[head].next)
  /\ owner' = [owner EXCEPT ![new] = owner[head]]
  /\ UNCHANGED <<stale, looping>>

ListAddTail(new, head) ==
  /\ Touchable(new) /\ Reachable(head)
  /\ new \notin Linked /\ head \in Anchors
  /\ node' = Before(node, new, head)
  /\ owner' = [owner EXCEPT ![new] = owner[head]]
  /\ UNCHANGED <<stale, looping>>

\* Faulty: the two poisons are swapped.
ListDelSwapped(entry) ==
  /\ Touchable(entry)
  /\ entry \in Live
  /\ node' = [Without(node, entry) EXCEPT
                ![entry] = [next |-> LIST_POISON2, prev |-> LIST_POISON1]]
  /\ owner' = [owner EXCEPT ![entry] = NULL]
  /\ UNCHANGED <<stale, looping>>

ListDel(entry) ==
  /\ Touchable(entry)
  /\ entry \in Live
  /\ node' = [Without(node, entry) EXCEPT ![entry] = Poison]
  /\ owner' = [owner EXCEPT ![entry] = NULL]
  /\ UNCHANGED <<stale, looping>>

ListDelInit(entry) ==
  /\ Touchable(entry)
  /\ entry \in Live
  /\ node' = [Without(node, entry) EXCEPT ![entry] = Self(entry)]
  /\ owner' = [owner EXCEPT ![entry] = NULL]
  /\ UNCHANGED <<stale, looping>>

\* The entry is unlinked first: the neighbour it goes before is read after.
ListMove(list, head) ==
  /\ Touchable(list) /\ Reachable(head)
  /\ list \in Live /\ head \in Anchors \ {list}
  /\ node' = Behind(Without(node, list), list, head)
  /\ owner' = [owner EXCEPT ![list] = owner[head]]
  /\ UNCHANGED <<stale, looping>>

ListMoveTail(list, head) ==
  /\ Touchable(list) /\ Reachable(head)
  /\ list \in Live /\ head \in Anchors \ {list}
  /\ node' = Before(Without(node, list), list, head)
  /\ owner' = [owner EXCEPT ![list] = owner[head]]
  /\ UNCHANGED <<stale, looping>>

ListEmpty(head) == node[head].next = head

\* The nodes of list are head's now.
Handed(list, head) ==
  [x \in Nodes |-> IF x # list /\ owner[x] = list THEN owner[head] ELSE owner[x]]

CanSplice(list, head) ==
  /\ loop = NoLoop
  /\ list \in Heads \ stale /\ head \in Anchors /\ owner[head] # list
  /\ ~ListEmpty(list)

\* The emptied head still points to what were its entries.
ListSplice(list, head) ==
  /\ CanSplice(list, head)
  /\ node' = Spliced(node, list, head)
  /\ owner' = Handed(list, head)
  /\ stale' = stale \cup {list}
  /\ UNCHANGED looping

ListSpliceInit(list, head) ==
  /\ CanSplice(list, head)
  /\ node' = [Spliced(node, list, head) EXCEPT ![list] = Self(list)]
  /\ owner' = Handed(list, head)
  /\ UNCHANGED <<stale, looping>>

\* INIT_LIST_HEAD of a head that was emptied.
InitListHead(head) ==
  /\ loop = NoLoop
  /\ head \in stale
  /\ node' = [node EXCEPT ![head] = Self(head)]
  /\ stale' = stale \ {head}
  /\ UNCHANGED <<owner, looping>>

-----------------------------------------------------------------------------
(* list_for_each_safe, and list_for_each_entry_safe_reverse.               *)

Following(x, back) == IF back THEN node[x].prev ELSE node[x].next

\* The entries from x to the first node that is none.
From(x, back) == Along([y \in Nodes |-> Following(y, back)], Entries, x)

Contents(head) == From(node[head].next, FALSE)

LoopStarts(head, back) ==
  /\ loop = NoLoop
  /\ head \in Heads \ stale
  /\ loop' = [head |-> head, back |-> back]
  /\ pos' = Following(head, back)
  /\ ahead' = Following(pos', back)
  /\ visited' = <<>>
  /\ due' = From(pos', back)
  /\ UNCHANGED links

\* Faulty: the next entry is read after the body (n and pos in this order).
LoopGoesOnLate ==
  /\ loop # NoLoop /\ pos \in Entries
  /\ ahead' = Following(pos, loop.back)
  /\ pos' = Following(pos, loop.back)
  /\ visited' = Append(visited, pos)
  /\ UNCHANGED <<links, loop, due>>

\* Faulty: the loop does not go to the next entry (line 284 missing).
LoopGoesOnStays ==
  /\ loop # NoLoop /\ pos # loop.head
  /\ UNCHANGED listVars

\* A poisoned pointer that is followed is a page fault: there is no step.
LoopGoesOn ==
  /\ loop # NoLoop /\ pos # loop.head
  /\ ahead \in Nodes
  /\ pos' = ahead
  /\ ahead' = Following(ahead, loop.back)
  /\ visited' = Append(visited, pos)
  /\ UNCHANGED <<links, loop, due>>

LoopEnds ==
  /\ loop # NoLoop /\ pos = loop.head
  /\ loop' = NoLoop /\ pos' = NULL /\ ahead' = NULL
  /\ visited' = <<>> /\ due' = <<>>
  /\ UNCHANGED links

-----------------------------------------------------------------------------

ListNext ==
  \/ \E e \in Entries :
       \/ ListDel(e) \/ ListDelInit(e)
       \/ \E head \in Nodes :
            \/ ListAdd(e, head) \/ ListAddTail(e, head)
            \/ ListMove(e, head) \/ ListMoveTail(e, head)
  \/ \E list \in Heads, head \in Nodes : ListSplice(list, head) \/ ListSpliceInit(list, head)
  \/ \E head \in Heads : InitListHead(head)
  \/ \E head \in Heads, back \in BOOLEAN : LoopStarts(head, back)
  \/ LoopGoesOn \/ LoopEnds

ListSpec == ListInit /\ [][ListNext]_listVars

\* One thread, and nothing waits: a loop goes on.
ListFairness == WF_listVars(LoopGoesOn \/ LoopEnds)

-----------------------------------------------------------------------------
(* Properties. *)

\* Type invariant of the nodes and of the loop.
ListTypeOK ==
  /\ node \in [Nodes -> [next : Nodes \cup {LIST_POISON1}, prev : Nodes \cup {LIST_POISON2}]]
  /\ owner \in [Nodes -> Heads \cup {NULL}]
  /\ \A h \in Heads : owner[h] = h
  /\ stale \subseteq Heads
  /\ loop \in [head : Heads \cup {NULL}, back : BOOLEAN]
  /\ pos \in Pointers \cup {NULL} /\ ahead \in Pointers \cup {NULL}

WellLinked(nodes, own, live) ==
  \A x \in live :
    LET next == nodes[x].next
        prev == nodes[x].prev
    IN /\ next \in live /\ prev \in live
       /\ nodes[next].prev = x /\ nodes[prev].next = x
       /\ own[next] = own[x]

\* Through any sequence of operations, next and prev are each other's inverse
\* on every node that can be reached, a list never leads to a removed entry or
\* to a head that was spliced away, and never from one head to another.
ListsWellLinked == WellLinked(node, owner, Live)

\* Linux's comments to list_add (103, "good for implementing stacks") and
\* list_add_tail (116, "useful for implementing queues"): the first puts an
\* entry before, the second behind all of a list.
StacksAndQueues ==
  [][\A e \in Entries, h \in Heads :
       /\ ListAdd(e, h) => Contents(h)' = <<e>> \o Contents(h)
       /\ ListAddTail(e, h) => Contents(h)' = Contents(h) \o <<e>>]_listVars

\* list_for_each_safe, "safe against removal of list entry" (277): whatever
\* the body does with the entry at pos, the loop comes to each entry that was
\* on the list when it started, once and in its order.
LoopVisitsAll ==
  loop # NoLoop =>
    due = visited \o IF pos = loop.head THEN <<>> ELSE <<pos>> \o From(ahead, loop.back)

\* "Safe against removal": n is read before the body runs, and whatever the
\* body does, n is the head or an entry whose pointers may be followed.
LoopNeverFaults == loop # NoLoop /\ pos # loop.head => ahead \in Live

\* A loop comes to an end, whatever its body removes.
LoopTerminates == loop # NoLoop ~> loop = NoLoop

\* The lists are sequences, and the operations those on sequences.
AsSequences == INSTANCE Lists WITH
  Items <- Entries,
  lists <- [h \in Heads |-> IF h \in stale THEN <<>> ELSE Contents(h)]

ListsAreSequences == AsSequences!Spec

=============================================================================
