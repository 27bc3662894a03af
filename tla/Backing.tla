------------------------------- MODULE Backing -------------------------------
(***************************************************************************)
(* The life of backing stores in src/lib/fileio.c: create_new_backing,     *)
(* open_backing, close_backing and remove_backing, on several `backing`    *)
(* structs and files of one process. FileIO is what happens between the    *)
(* open and the close of one of them.                                      *)
(*                                                                         *)
(* A backing is no more than the number of a descriptor. Nothing resets    *)
(* the number when the descriptor is closed, and the system gives closed   *)
(* numbers out again. create_new_backing truncates its file before it      *)
(* writes the metadata page: the write may fail, or the process may die    *)
(* before it.                                                              *)
(***************************************************************************)
EXTENDS Integers

CONSTANTS
  Backings,   \* the structs
  Names,      \* names of stores
  Files,      \* what a name in the directory and a descriptor refer to
  MaxFd,      \* bound: the highest descriptor the process may have open
  None, Std   \* no file; the file of the standard descriptor

ASSUME MaxFdAssumption == MaxFd \in Nat
ASSUME FilesAssumption == None \notin Files /\ Std \notin Files /\ None # Std

VARIABLES
  dir,        \* the file of each name
  contents,   \* whether each file starts with a metadata page
  fds,        \* the file of each descriptor
  storefd,    \* the field of each struct
  call,       \* the create_new_backing about to write the metadata
  ret,        \* what the last call returned
  opened,     \* history: the file the client has open with each struct
  whole       \* history: the names create_new_backing last made with success

vars == <<dir, contents, fds, storefd, call, ret, opened, whole>>

-----------------------------------------------------------------------------

Fds == 0 .. MaxFd
Empty == "empty"      \* truncated
Store == "store"      \* with its metadata page
Idle == "idle"
Statuses == {"STATUS_OK", "STATUS_ERR", "STATUS_BAD_FILE", "STATUS_BAD_WRITE",
             "STATUS_BAD_OPEN", "STATUS_BAD_CLOSE", "STATUS_BAD_REMOVE"}

\* A struct comes from calloc: its field is 0, the standard input's number.
Init ==
  /\ dir = [n \in Names |-> None]
  /\ contents = [f \in Files |-> Empty]
  /\ fds = [d \in Fds |-> IF d = 0 THEN Std ELSE None]
  /\ storefd = [b \in Backings |-> 0]
  /\ call = [at |-> Idle]
  /\ ret = "STATUS_OK"
  /\ opened = [b \in Backings |-> None]
  /\ whole = {}

-----------------------------------------------------------------------------
(* open and close of the system: external. open gives the lowest number    *)
(* that is closed; close frees the number whether it reports an error or   *)
(* not, and does nothing to one that is not open.                          *)

Lowest(d) == fds[d] = None /\ \A e \in Fds : e < d => fds[e] # None

Unused(f) == (\A n \in Names : dir[n] # f) /\ (\A d \in Fds : fds[d] # f)

Closed(table, d) == IF d \in Fds THEN [table EXCEPT ![d] = None] ELSE table

-----------------------------------------------------------------------------
(* The calls. A client uses a struct for one open store at a time, and     *)
(* closes it once.                                                         *)

Mine(b) == call.at = Idle /\ opened[b] # None
NotMine(b) == call.at = Idle /\ opened[b] = None

\* Faulty: the number is stored only when open succeeds, so that the close
\* after a failure closes the number that was there before.
OpenFailsStale(b) ==
  /\ fds' = Closed(fds, storefd[b])
  /\ UNCHANGED storefd

\* open failed: close_backing closes number -1.
OpenFails(b) ==
  /\ storefd' = [storefd EXCEPT ![b] = -1]
  /\ fds' = Closed(fds, -1)

\* create_new_backing opens its file, a new or a truncated one. All that is
\* lost by then is what the file held.
CreateOpen(b, n, f) ==
  /\ NotMine(b)
  /\ IF dir[n] = None THEN Unused(f) ELSE dir[n] = f
  /\ \E d \in Fds :
       /\ Lowest(d)
       /\ fds' = [fds EXCEPT ![d] = f]
       /\ storefd' = [storefd EXCEPT ![b] = d]
  /\ dir' = [dir EXCEPT ![n] = f]
  /\ contents' = [contents EXCEPT ![f] = Empty]
  /\ call' = [at |-> "create_write", backing |-> b, name |-> n]
  /\ whole' = whole \ {n}
  /\ UNCHANGED <<ret, opened>>

CreateOpenFails(b) ==
  /\ NotMine(b)
  /\ OpenFails(b)
  /\ ret' = "STATUS_BAD_FILE"
  /\ UNCHANGED <<dir, contents, call, opened, whole>>

\* Faulty: the result of the write is not looked at (line 70 missing).
CreateWriteUnchecked ==
  /\ call.at = "create_write"
  /\ opened' = [opened EXCEPT ![call.backing] = dir[call.name]]
  /\ whole' = whole \cup {call.name}
  /\ call' = [at |-> Idle]
  /\ ret' = "STATUS_OK"
  /\ contents' \in {contents, [contents EXCEPT ![dir[call.name]] = Store]}
  /\ UNCHANGED <<dir, fds, storefd>>

CreateWrite ==
  /\ call.at = "create_write"
  /\ contents' = [contents EXCEPT ![dir[call.name]] = Store]
  /\ opened' = [opened EXCEPT ![call.backing] = dir[call.name]]
  /\ whole' = whole \cup {call.name}
  /\ call' = [at |-> Idle]
  /\ ret' = "STATUS_OK"
  /\ UNCHANGED <<dir, fds, storefd>>

\* Faulty: the descriptor stays open (line 71 missing).
CreateWriteFailsOpen ==
  /\ call.at = "create_write"
  /\ call' = [at |-> Idle]
  /\ ret' = "STATUS_BAD_WRITE"
  /\ UNCHANGED <<dir, contents, fds, storefd, opened, whole>>

\* The file stays, truncated.
CreateWriteFails ==
  /\ call.at = "create_write"
  /\ fds' = Closed(fds, storefd[call.backing])
  /\ call' = [at |-> Idle]
  /\ ret' = "STATUS_BAD_WRITE"
  /\ UNCHANGED <<dir, contents, storefd, opened, whole>>

\* open_backing takes any file of that name, with or without metadata.
OpenBacking(b, n) ==
  /\ NotMine(b)
  /\ dir[n] # None
  /\ \E d \in Fds :
       /\ Lowest(d)
       /\ fds' = [fds EXCEPT ![d] = dir[n]]
       /\ storefd' = [storefd EXCEPT ![b] = d]
  /\ opened' = [opened EXCEPT ![b] = dir[n]]
  /\ ret' = "STATUS_OK"
  /\ UNCHANGED <<dir, contents, call, whole>>

OpenBackingFails(b) ==
  /\ NotMine(b)
  /\ OpenFails(b)
  /\ ret' = "STATUS_BAD_OPEN"
  /\ UNCHANGED <<dir, contents, call, opened, whole>>

\* close may report an error of the disk.
CloseBacking(b) ==
  /\ Mine(b)
  /\ fds' = Closed(fds, storefd[b])
  /\ opened' = [opened EXCEPT ![b] = None]
  /\ ret' \in IF storefd[b] \in Fds /\ fds[storefd[b]] # None
              THEN {"STATUS_OK", "STATUS_BAD_CLOSE"} ELSE {"STATUS_BAD_CLOSE"}
  /\ UNCHANGED <<dir, contents, storefd, call, whole>>

CloseNull ==
  /\ call.at = Idle
  /\ ret' = "STATUS_ERR"
  /\ UNCHANGED <<dir, contents, fds, storefd, call, opened, whole>>

\* Faulty: a missing file is reported as -1, as the comment has it.
RemoveFailsMinusOne ==
  /\ call.at = Idle
  /\ ret' = "-1"
  /\ UNCHANGED <<dir, contents, fds, storefd, call, opened, whole>>

\* remove_backing; who has the file open keeps it.
RemoveBacking(n) ==
  /\ call.at = Idle
  /\ dir[n] # None
  /\ dir' = [dir EXCEPT ![n] = None]
  /\ whole' = whole \ {n}
  /\ ret' = "STATUS_OK"
  /\ UNCHANGED <<contents, fds, storefd, call, opened>>

RemoveFails ==
  /\ call.at = Idle
  /\ ret' = "STATUS_BAD_REMOVE"
  /\ UNCHANGED <<dir, contents, fds, storefd, call, opened, whole>>

\* The process dies, within a call or not, and starts again: the directory
\* and the files are what is left.
Crash ==
  /\ fds' = [d \in Fds |-> IF d = 0 THEN Std ELSE None]
  /\ storefd' = [b \in Backings |-> 0]
  /\ opened' = [b \in Backings |-> None]
  /\ call' = [at |-> Idle]
  /\ ret' = "STATUS_OK"
  /\ UNCHANGED <<dir, contents, whole>>

-----------------------------------------------------------------------------

Create ==
  \/ \E b \in Backings, n \in Names, f \in Files : CreateOpen(b, n, f)
  \/ \E b \in Backings : CreateOpenFails(b)
  \/ CreateWrite \/ CreateWriteFails

Open ==
  \E b \in Backings :
    (\E n \in Names : OpenBacking(b, n)) \/ OpenBackingFails(b)

Close == CloseNull \/ \E b \in Backings : CloseBacking(b)

Remove == RemoveFails \/ \E n \in Names : RemoveBacking(n)

Next == Create \/ Open \/ Close \/ Remove \/ Crash

Spec == Init /\ [][Next]_vars

-----------------------------------------------------------------------------
(* Properties. *)

\* Type invariant of the backings and of the system behind them.
TypeOK ==
  /\ dir \in [Names -> Files \cup {None}]
  /\ contents \in [Files -> {Empty, Store}]
  /\ fds \in [Fds -> Files \cup {None, Std}]
  /\ storefd \in [Backings -> Fds \cup {-1}]
  /\ call \in [at : {Idle}] \cup
              [at : {"create_write"}, backing : Backings, name : Names]
  /\ ret \in Statuses
  /\ opened \in [Backings -> Files \cup {None}]
  /\ whole \subseteq Names

\* The struct is in use: its client has it open, or create_new_backing does.
InUse(b) == opened[b] # None \/ (call.at = "create_write" /\ call.backing = b)

\* Whatever else is opened, closed, removed or fails, the number in an open
\* backing is that of the file it was opened for, and no other backing's: no
\* page call reaches another store, and no close takes another's descriptor,
\* although closed backings keep numbers that are given out again.
BackingsKeepTheirFile ==
  \A b \in Backings :
    /\ opened[b] # None => storefd[b] \in Fds /\ fds[storefd[b]] = opened[b]
    /\ \A c \in Backings : InUse(b) /\ InUse(c) /\ storefd[b] = storefd[c] => b = c

\* No path of create_new_backing, open_backing and close_backing leaves a
\* descriptor open that no backing in use has the number of.
NothingLeaks ==
  \A d \in Fds : fds[d] \in Files => \E b \in Backings : InUse(b) /\ storefd[b] = d

\* A store whose creation returned STATUS_OK can be opened with its metadata
\* after any crash and any failed call, until it is removed or a new creation
\* has truncated it: one that cannot open its file leaves the old store.
CreatedStoresAreWhole ==
  \A n \in whole : dir[n] # None /\ contents[dir[n]] = Store

\* What makes the above inductive.
IInv ==
  /\ TypeOK
  /\ BackingsKeepTheirFile
  /\ NothingLeaks
  /\ CreatedStoresAreWhole
  /\ \A m, n \in Names : dir[m] = dir[n] /\ dir[m] # None => m = n
  /\ call.at = "create_write" =>
       /\ opened[call.backing] = None
       /\ dir[call.name] # None
       /\ call.name \notin whole
       /\ storefd[call.backing] \in Fds
       /\ fds[storefd[call.backing]] = dir[call.name]

=============================================================================
