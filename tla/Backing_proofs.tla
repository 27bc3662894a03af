--------------------------- MODULE Backing_proofs ---------------------------
(***************************************************************************)
(* The properties of Backing for every set of structs, names and files and *)
(* every number of descriptors.                                            *)
(***************************************************************************)
EXTENDS Backing, TLAPS

\* Closing a number closes that one only, and -1 closes nothing.
LEMMA ClosedTable ==
  ASSUME NEW table \in [Fds -> Files \cup {None, Std}], NEW d \in Fds \cup {-1}
  PROVE  /\ Closed(table, d) \in [Fds -> Files \cup {None, Std}]
         /\ \A e \in Fds : Closed(table, d)[e] = IF e = d THEN None ELSE table[e]
         /\ d = -1 => Closed(table, d) = table
<1>1. -1 \notin Fds
  BY MaxFdAssumption DEF Fds
<1>. QED  BY <1>1 DEF Closed

\* A new process: no struct in use, no name, no descriptor but the standard
\* one.
LEMMA InitInvariant == Init => IInv
<1> SUFFICES ASSUME Init PROVE IInv
  OBVIOUS
<1>1. 0 \in Fds /\ call.at # "create_write" /\ ret \in Statuses
  BY MaxFdAssumption DEF Init, Fds, Idle, Statuses
<1>2. TypeOK
  BY <1>1 DEF Init, TypeOK
<1>3. BackingsKeepTheirFile /\ CreatedStoresAreWhole
  BY <1>1 DEF Init, BackingsKeepTheirFile, InUse, CreatedStoresAreWhole
<1>4. NothingLeaks
  BY FilesAssumption DEF Init, NothingLeaks
<1>. QED  BY <1>1, <1>2, <1>3, <1>4 DEF Init, IInv

\* A call that leaves the structs, the descriptors and the files alone.
LEMMA ReturnStep ==
  ASSUME IInv, ret' \in Statuses,
         UNCHANGED <<dir, contents, fds, storefd, call, opened, whole>>
  PROVE  IInv'
<1>1. TypeOK'
  BY DEF IInv, TypeOK
<1>2. BackingsKeepTheirFile' /\ NothingLeaks' /\ CreatedStoresAreWhole'
  BY DEF IInv, BackingsKeepTheirFile, InUse, NothingLeaks, CreatedStoresAreWhole
<1>. QED  BY <1>1, <1>2 DEF IInv

\* A struct that was not in use takes a number that nobody uses.
LEMMA NewNumber ==
  ASSUME IInv, NEW b \in Backings, NEW d \in Fds, Lowest(d)
  PROVE  \A c \in Backings : InUse(c) => storefd[c] # d
<1> SUFFICES ASSUME NEW c \in Backings, InUse(c), storefd[c] = d
             PROVE  FALSE
  OBVIOUS
<1>1. fds[d] = None
  BY DEF Lowest
<1>2. opened[c] \in Files \cup {None}
  BY DEF IInv, TypeOK
<1>3. CASE opened[c] # None
  BY <1>1, <1>3 DEF IInv, BackingsKeepTheirFile
<1>4. CASE call.at = "create_write" /\ call.backing = c
  BY <1>1, <1>4 DEF IInv
<1>. QED  BY <1>3, <1>4 DEF InUse

\* create_new_backing opens its file.
LEMMA CreateOpenStep ==
  ASSUME IInv, NEW b \in Backings, NEW n \in Names, NEW f \in Files,
         CreateOpen(b, n, f)
  PROVE  IInv'
<1>1. PICK d \in Fds :
        /\ Lowest(d)
        /\ fds' = [fds EXCEPT ![d] = f]
        /\ storefd' = [storefd EXCEPT ![b] = d]
  BY DEF CreateOpen
<1>2. /\ call.at = Idle /\ opened[b] = None
      /\ IF dir[n] = None THEN Unused(f) ELSE dir[n] = f
      /\ dir' = [dir EXCEPT ![n] = f]
      /\ contents' = [contents EXCEPT ![f] = Empty]
      /\ call' = [at |-> "create_write", backing |-> b, name |-> n]
      /\ whole' = whole \ {n}
      /\ UNCHANGED <<ret, opened>>
  BY DEF CreateOpen, NotMine
<1>3. TypeOK'
  <2>1. call' \in [at : {"create_write"}, backing : Backings, name : Names]
    BY <1>2
  <2>. QED  BY <1>1, <1>2, <2>1 DEF IInv, TypeOK
<1>4. /\ call'.at = "create_write" /\ call'.backing = b /\ call'.name = n
      /\ storefd'[b] = d /\ fds'[d] = f /\ dir'[n] = f
      /\ \A c \in Backings \ {b} : storefd'[c] = storefd[c]
      /\ \A e \in Fds \ {d} : fds'[e] = fds[e]
      /\ \A m \in Names \ {n} : dir'[m] = dir[m]
      /\ \A g \in Files \ {f} : contents'[g] = contents[g]
  BY <1>1, <1>2 DEF IInv, TypeOK
<1>5. /\ \A c \in Backings : InUse(c) <=> opened[c] # None
      /\ \A c \in Backings : InUse(c)' <=> InUse(c) \/ c = b
      /\ ~ InUse(b)
  BY <1>2, <1>4 DEF InUse, Idle
<1>6. \A c \in Backings : InUse(c) => storefd[c] # d
  BY <1>1, NewNumber
<1>7. BackingsKeepTheirFile'
  BY <1>2, <1>4, <1>5, <1>6 DEF IInv, BackingsKeepTheirFile
<1>8. NothingLeaks'
  <2> SUFFICES ASSUME NEW e \in Fds, fds'[e] \in Files
               PROVE  \E c \in Backings : InUse(c)' /\ storefd'[c] = e
    BY DEF NothingLeaks
  <2>1. CASE e = d
    BY <1>4, <1>5, <2>1
  <2>2. CASE e # d
    BY <1>4, <1>5, <2>2 DEF IInv, NothingLeaks
  <2>. QED  BY <2>1, <2>2
<1>9. \A m \in Names \ {n} : dir[m] # f
  BY <1>2, FilesAssumption DEF IInv, Unused
<1>10. CreatedStoresAreWhole'
  BY <1>2, <1>4, <1>9 DEF IInv, CreatedStoresAreWhole, TypeOK
<1>11. \A m, k \in Names : dir'[m] = dir'[k] /\ dir'[m] # None => m = k
  BY <1>4, <1>9 DEF IInv
<1>. QED
  BY <1>2, <1>3, <1>4, <1>7, <1>8, <1>10, <1>11, FilesAssumption DEF IInv

\* An open that fails, in create_new_backing or open_backing, closes nothing.
LEMMA OpenFailsStep ==
  ASSUME IInv, NEW b \in Backings, NotMine(b), OpenFails(b), ret' \in Statuses,
         UNCHANGED <<dir, contents, call, opened, whole>>
  PROVE  IInv'
<1>1. /\ fds' = fds /\ storefd' = [storefd EXCEPT ![b] = -1]
      /\ call.at = Idle /\ opened[b] = None
  BY ClosedTable DEF OpenFails, NotMine, IInv, TypeOK
<1>2. TypeOK'
  BY <1>1 DEF IInv, TypeOK
<1>3. /\ \A c \in Backings : InUse(c)' <=> InUse(c)
      /\ \A c \in Backings : InUse(c) => c # b /\ storefd'[c] = storefd[c]
      /\ \A c \in Backings : opened[c] # None => storefd'[c] = storefd[c]
  BY <1>1 DEF InUse, Idle, IInv, TypeOK
<1>4. BackingsKeepTheirFile'
  BY <1>1, <1>3 DEF IInv, BackingsKeepTheirFile
<1>5. NothingLeaks' /\ CreatedStoresAreWhole'
  BY <1>1, <1>3 DEF IInv, NothingLeaks, CreatedStoresAreWhole
<1>. QED  BY <1>1, <1>2, <1>4, <1>5 DEF IInv, Idle

\* create_new_backing writes the metadata: the struct is the client's.
LEMMA CreateWriteStep ==
  ASSUME IInv, CreateWrite
  PROVE  IInv'
<1> DEFINE b == call.backing  n == call.name  f == dir[n]
<1>1. /\ b \in Backings /\ n \in Names /\ f \in Files
      /\ opened[b] = None /\ storefd[b] \in Fds /\ fds[storefd[b]] = f
  BY DEF CreateWrite, IInv, TypeOK, Idle
<1>2. /\ contents' = [contents EXCEPT ![f] = Store]
      /\ opened' = [opened EXCEPT ![b] = f]
      /\ whole' = whole \cup {n}
      /\ call.at = "create_write" /\ call' = [at |-> Idle] /\ ret' = "STATUS_OK"
      /\ UNCHANGED <<dir, fds, storefd>>
  BY DEF CreateWrite
<1> HIDE DEF b, n, f
<1>3. TypeOK'
  BY <1>1, <1>2 DEF IInv, TypeOK, Statuses
<1>4. call'.at # "create_write"
  BY <1>2 DEF Idle
<1>5. \A c \in Backings : InUse(c)' <=> InUse(c)
  BY <1>1, <1>2, <1>4, FilesAssumption DEF InUse, IInv, TypeOK, b
<1>6. BackingsKeepTheirFile'
  BY <1>1, <1>2, <1>5 DEF IInv, BackingsKeepTheirFile, TypeOK
<1>7. NothingLeaks'
  BY <1>2, <1>5 DEF IInv, NothingLeaks
<1>8. CreatedStoresAreWhole'
  BY <1>1, <1>2, FilesAssumption DEF IInv, CreatedStoresAreWhole, TypeOK, f
<1>. QED  BY <1>2, <1>3, <1>4, <1>6, <1>7, <1>8 DEF IInv

\* A number in use is closed, and its struct is in use no more.
LEMMA NumberClosed ==
  ASSUME IInv, NEW b \in Backings, InUse(b), storefd[b] \in Fds,
         fds' = Closed(fds, storefd[b]), storefd' = storefd,
         \A c \in Backings : InUse(c)' <=> InUse(c) /\ c # b,
         \A c \in Backings \ {b} : opened'[c] = opened[c],
         opened'[b] = None
  PROVE  BackingsKeepTheirFile' /\ NothingLeaks'
<1>1. \A e \in Fds : fds'[e] = IF e = storefd[b] THEN None ELSE fds[e]
  BY ClosedTable DEF IInv, TypeOK
<1>2. \A c \in Backings : InUse(c) /\ c # b => storefd[c] # storefd[b]
  BY DEF IInv, BackingsKeepTheirFile
<1>3. \A c \in Backings : opened[c] # None => InUse(c)
  BY DEF InUse
<1>4. BackingsKeepTheirFile'
  BY <1>1, <1>2, <1>3 DEF IInv, BackingsKeepTheirFile
<1>5. NothingLeaks'
  BY <1>1, FilesAssumption DEF IInv, NothingLeaks
<1>. QED  BY <1>4, <1>5

\* create_new_backing cannot write the metadata and closes the file.
LEMMA CreateWriteFailsStep ==
  ASSUME IInv, CreateWriteFails
  PROVE  IInv'
<1> DEFINE b == call.backing
<1>1. b \in Backings /\ opened[b] = None /\ storefd[b] \in Fds /\ InUse(b)
  BY DEF CreateWriteFails, IInv, TypeOK, Idle, InUse
<1>2. /\ fds' = Closed(fds, storefd[b])
      /\ call.at = "create_write" /\ call' = [at |-> Idle]
      /\ ret' = "STATUS_BAD_WRITE"
      /\ UNCHANGED <<dir, contents, storefd, opened, whole>>
  BY DEF CreateWriteFails
<1>3. TypeOK'
  BY <1>1, <1>2, ClosedTable DEF IInv, TypeOK, Statuses
<1>4. call'.at # "create_write"
  BY <1>2 DEF Idle
<1>5. \A c \in Backings : InUse(c)' <=> InUse(c) /\ c # b
  BY <1>1, <1>2, <1>4 DEF InUse
<1>6. BackingsKeepTheirFile' /\ NothingLeaks'
  BY <1>1, <1>2, <1>5, NumberClosed
<1>7. CreatedStoresAreWhole'
  BY <1>2 DEF IInv, CreatedStoresAreWhole
<1>. QED  BY <1>2, <1>3, <1>4, <1>6, <1>7 DEF IInv

\* open_backing opens a file that is there.
LEMMA OpenBackingStep ==
  ASSUME IInv, NEW b \in Backings, NEW n \in Names, OpenBacking(b, n)
  PROVE  IInv'
<1> DEFINE f == dir[n]
<1>1. PICK d \in Fds :
        /\ Lowest(d)
        /\ fds' = [fds EXCEPT ![d] = f]
        /\ storefd' = [storefd EXCEPT ![b] = d]
  BY DEF OpenBacking
<1>2. /\ call.at = Idle /\ opened[b] = None /\ f \in Files
      /\ opened' = [opened EXCEPT ![b] = f] /\ ret' = "STATUS_OK"
      /\ UNCHANGED <<dir, contents, call, whole>>
  BY DEF OpenBacking, NotMine, IInv, TypeOK
<1> HIDE DEF f
<1>3. TypeOK'
  BY <1>1, <1>2 DEF IInv, TypeOK, Statuses
<1>4. /\ storefd'[b] = d /\ fds'[d] = f /\ opened'[b] = f
      /\ \A c \in Backings \ {b} : storefd'[c] = storefd[c] /\ opened'[c] = opened[c]
      /\ \A e \in Fds \ {d} : fds'[e] = fds[e]
  BY <1>1, <1>2 DEF IInv, TypeOK
<1>5. \A c \in Backings : InUse(c)' <=> InUse(c) \/ c = b
  BY <1>2, <1>4, FilesAssumption DEF InUse, Idle
<1>6. \A c \in Backings : InUse(c) => storefd[c] # d
  BY <1>1, NewNumber
<1>7. BackingsKeepTheirFile'
  <2>1. ASSUME NEW c \in Backings, opened'[c] # None
        PROVE  storefd'[c] \in Fds /\ fds'[storefd'[c]] = opened'[c]
    <3>1. CASE c = b
      BY <1>4, <3>1
    <3>2. CASE c # b
      BY <1>4, <1>6, <2>1, <3>2 DEF IInv, BackingsKeepTheirFile, InUse
    <3>. QED  BY <3>1, <3>2
  <2>2. ASSUME NEW c \in Backings, NEW e \in Backings,
               InUse(c)', InUse(e)', storefd'[c] = storefd'[e]
        PROVE  c = e
    BY <1>4, <1>5, <1>6, <2>2 DEF IInv, BackingsKeepTheirFile
  <2>. QED  BY <2>1, <2>2 DEF BackingsKeepTheirFile
<1>8. NothingLeaks'
  <2> SUFFICES ASSUME NEW e \in Fds, fds'[e] \in Files
               PROVE  \E c \in Backings : InUse(c)' /\ storefd'[c] = e
    BY DEF NothingLeaks
  <2>1. CASE e = d
    BY <1>4, <1>5, <2>1
  <2>2. CASE e # d
    <3>1. PICK c \in Backings : InUse(c) /\ storefd[c] = e
      BY <1>4, <2>2 DEF IInv, NothingLeaks
    <3>2. c # b
      BY <1>2, <3>1 DEF InUse, Idle
    <3>. QED  BY <1>4, <1>5, <3>1, <3>2
  <2>. QED  BY <2>1, <2>2
<1>9. CreatedStoresAreWhole'
  BY <1>2 DEF IInv, CreatedStoresAreWhole
<1>. QED  BY <1>2, <1>3, <1>7, <1>8, <1>9 DEF IInv, Idle

\* close_backing closes the number of the store that is open.
LEMMA CloseBackingStep ==
  ASSUME IInv, NEW b \in Backings, CloseBacking(b)
  PROVE  IInv'
<1>1. /\ call.at = Idle /\ opened[b] # None
      /\ fds' = Closed(fds, storefd[b])
      /\ opened' = [opened EXCEPT ![b] = None]
      /\ ret' \in Statuses
      /\ UNCHANGED <<dir, contents, storefd, call, whole>>
  BY DEF CloseBacking, Mine, Statuses
<1>2. storefd[b] \in Fds /\ InUse(b)
  BY <1>1 DEF IInv, BackingsKeepTheirFile, InUse
<1>3. TypeOK'
  BY <1>1, <1>2, ClosedTable DEF IInv, TypeOK
<1>4. \A c \in Backings : InUse(c)' <=> InUse(c) /\ c # b
  BY <1>1 DEF InUse, Idle, IInv, TypeOK
<1>5. opened'[b] = None /\ \A c \in Backings \ {b} : opened'[c] = opened[c]
  BY <1>1 DEF IInv, TypeOK
<1>6. BackingsKeepTheirFile' /\ NothingLeaks'
  BY <1>1, <1>2, <1>4, <1>5, NumberClosed
<1>7. CreatedStoresAreWhole'
  BY <1>1 DEF IInv, CreatedStoresAreWhole
<1>. QED  BY <1>1, <1>3, <1>6, <1>7 DEF IInv, Idle

\* remove_backing removes a name; the file of an open backing stays.
LEMMA RemoveBackingStep ==
  ASSUME IInv, NEW n \in Names, RemoveBacking(n)
  PROVE  IInv'
<1>1. /\ call.at = Idle
      /\ dir' = [dir EXCEPT ![n] = None] /\ whole' = whole \ {n} /\ ret' = "STATUS_OK"
      /\ UNCHANGED <<contents, fds, storefd, call, opened>>
  BY DEF RemoveBacking
<1>2. dir'[n] = None /\ \A m \in Names \ {n} : dir'[m] = dir[m]
  BY <1>1 DEF IInv, TypeOK
<1>3. TypeOK'
  BY <1>1 DEF IInv, TypeOK, Statuses
<1>4. BackingsKeepTheirFile' /\ NothingLeaks'
  BY <1>1 DEF IInv, BackingsKeepTheirFile, InUse, NothingLeaks
<1>5. CreatedStoresAreWhole'
  BY <1>1, <1>2 DEF IInv, CreatedStoresAreWhole, TypeOK
<1>. QED  BY <1>1, <1>2, <1>3, <1>4, <1>5 DEF IInv, Idle

\* A crash leaves no struct in use and no descriptor open.
LEMMA CrashStep ==
  ASSUME IInv, Crash
  PROVE  IInv'
<1>1. 0 \in Fds /\ call'.at # "create_write" /\ ret' \in Statuses
  BY MaxFdAssumption DEF Crash, Fds, Idle, Statuses
<1>2. TypeOK'
  BY <1>1 DEF Crash, IInv, TypeOK
<1>3. BackingsKeepTheirFile' /\ CreatedStoresAreWhole'
  BY <1>1 DEF Crash, IInv, BackingsKeepTheirFile, InUse, CreatedStoresAreWhole
<1>4. NothingLeaks'
  BY FilesAssumption DEF Crash, NothingLeaks
<1>. QED  BY <1>1, <1>2, <1>3, <1>4 DEF Crash, IInv

\* Every step keeps the invariant.
LEMMA NextInvariant == IInv /\ [Next]_vars => IInv'
<1> SUFFICES ASSUME IInv, [Next]_vars PROVE IInv'
  OBVIOUS
<1>1. CASE Create
  <2>1. ASSUME NEW b \in Backings, CreateOpenFails(b)
        PROVE  IInv'
    BY <2>1, OpenFailsStep DEF CreateOpenFails, Statuses
  <2>. QED
    BY <1>1, <2>1, CreateOpenStep, CreateWriteStep, CreateWriteFailsStep DEF Create
<1>2. CASE Open
  <2>1. ASSUME NEW b \in Backings, OpenBackingFails(b)
        PROVE  IInv'
    BY <2>1, OpenFailsStep DEF OpenBackingFails, Statuses
  <2>. QED  BY <1>2, <2>1, OpenBackingStep DEF Open
<1>3. CASE Close
  <2>1. CASE CloseNull
    BY <2>1, ReturnStep DEF CloseNull, Statuses
  <2>. QED  BY <1>3, <2>1, CloseBackingStep DEF Close
<1>4. CASE Remove
  <2>1. CASE RemoveFails
    BY <2>1, ReturnStep DEF RemoveFails, Statuses
  <2>. QED  BY <1>4, <2>1, RemoveBackingStep DEF Remove
<1>5. CASE UNCHANGED vars
  <2>1. ret' \in Statuses
    BY <1>5 DEF vars, IInv, TypeOK
  <2>. QED  BY <1>5, <2>1, ReturnStep DEF vars
<1>. QED  BY <1>1, <1>2, <1>3, <1>4, <1>5, CrashStep DEF Next

\* The inductive invariant of the backings.
THEOREM Invariant == Spec => []IInv
<1>. QED  BY InitInvariant, NextInvariant, PTL DEF Spec

\* The fields and the directory keep their types.
THEOREM TypeCorrect == Spec => []TypeOK
<1>1. IInv => TypeOK
  BY DEF IInv
<1>. QED  BY <1>1, Invariant, PTL

\* An open backing's number is that of its file, and its own.
THEOREM FilesKept == Spec => []BackingsKeepTheirFile
<1>1. IInv => BackingsKeepTheirFile
  BY DEF IInv
<1>. QED  BY <1>1, Invariant, PTL

\* No path leaves a descriptor open.
THEOREM NoLeak == Spec => []NothingLeaks
<1>1. IInv => NothingLeaks
  BY DEF IInv
<1>. QED  BY <1>1, Invariant, PTL

\* A store made with success is whole until it is removed or made again.
THEOREM StoresWhole == Spec => []CreatedStoresAreWhole
<1>1. IInv => CreatedStoresAreWhole
  BY DEF IInv
<1>. QED  BY <1>1, Invariant, PTL

=============================================================================
