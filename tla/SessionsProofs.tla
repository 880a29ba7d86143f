--------------------------- MODULE SessionsProofs ---------------------------
(***************************************************************************)
(* Proofs about Sessions, for any number of files, any capacity and any    *)
(* bound on chunks.                                                        *)
(***************************************************************************)
EXTENDS Sessions, TLAPS

\* The session of a directory's download is as it was made until the handler returns.
FolderSessionNew ==
    req # None /\ req.type = "download" /\ req.path \in Folders /\ req.at # Nowhere
        => table[req.at] = New("download", RawName)

\* What the table is between any two steps; inductive.
Inv ==
    /\ TypeOK
    /\ LiveArePointers
    /\ OneSessionPerFile
    /\ HandlerInPlace
    /\ AtRest
    /\ FolderSessionNew

\* A new session is well formed.
LEMMA NewIsSession ==
    ASSUME NEW path \in Paths
    PROVE  /\ New("upload", path) \in Session
           /\ New("download", IF path \in Files THEN path ELSE RawName) \in Session
BY SessionsAssumption DEF New, Session, State, Chunk

\* The sentinels differ from everything they stand beside.
LEMMA NoSentinel == Null \notin Session /\ Garbage \notin Session /\ None \notin Request
BY SentinelsAssumption

\* A lookup that succeeds finds the only session of that type and path.
LEMMA FoundIs ==
    ASSUME TypeOK, OneSessionPerFile, NEW type, NEW path \in Paths,
           NEW i \in Matches(type, path)
    PROVE  Found(type, path) = i /\ Matches(type, path) = {i}
<1>1. Matches(type, path) \subseteq Cells /\ Cells \subseteq Nat
  BY SessionsAssumption DEF Matches, Live, Cells
<1>2. \A j \in Matches(type, path) : j = i
  BY SessionsAssumption DEF Matches, OneSessionPerFile, Paths
<1>3. i <= i
  <2>1. i \in Nat
    BY <1>1
  <2> QED
    BY <2>1
<1>4. Found(type, path) \in Matches(type, path)
  BY <1>2, <1>3 DEF Found
<1> QED
  BY <1>2, <1>4

-----------------------------------------------------------------------------
(* What the three ways to change the table do. *)

\* A session is changed in place.
LEMMA SetCell ==
    ASSUME Inv, NEW i \in Live, NEW s \in Session,
           s.type = table[i].type, s.name = table[i].name,
           table' = [table EXCEPT ![i] = s], count' = count
    PROVE  /\ table' \in [Cells -> Session \cup {Null, Garbage}]
           /\ LiveArePointers' /\ OneSessionPerFile'
           /\ \A type, path : Matches(type, path)' = Matches(type, path)
           /\ Live' = Live
<1>1. Live' = Live /\ i \in Cells
  BY DEF Live
<1>2. table' \in [Cells -> Session \cup {Null, Garbage}]
  BY <1>1 DEF Inv, TypeOK
<1>3. \A j \in Live : /\ table'[j] \in Session
                      /\ table'[j].type = table[j].type
                      /\ table'[j].name = table[j].name
  BY <1>1 DEF Inv, TypeOK, LiveArePointers, Live
<1>4. LiveArePointers'
  BY <1>1, <1>3 DEF LiveArePointers
<1>5. OneSessionPerFile'
  BY <1>1, <1>3 DEF OneSessionPerFile, Inv
<1>6. \A type, path : Matches(type, path)' = Matches(type, path)
  BY <1>1, <1>3 DEF Matches
<1> QED
  BY <1>1, <1>2, <1>4, <1>5, <1>6

\* A session is added behind the others.
LEMMA AddCell ==
    ASSUME Inv, count < Capacity, NEW s \in Session,
           s.name = RawName \/ Matches(s.type, s.name) = {},
           table' = [table EXCEPT ![count] = s], count' = count + 1
    PROVE  /\ table' \in [Cells -> Session \cup {Null, Garbage}]
           /\ count' \in 0..Capacity
           /\ LiveArePointers' /\ OneSessionPerFile'
           /\ Live' = Live \cup {count} /\ count \notin Live
           /\ \A j \in Live : table'[j] = table[j]
           /\ table'[count] = s
<1>1. count \in Nat /\ Capacity \in Nat /\ count \in Cells
  BY SessionsAssumption DEF Inv, TypeOK, Cells
<1>2. Live' = Live \cup {count} /\ count \notin Live /\ Live \subseteq Cells
  BY <1>1 DEF Live, Cells
<1>3. table' \in [Cells -> Session \cup {Null, Garbage}] /\ count' \in 0..Capacity
  BY <1>1 DEF Inv, TypeOK
<1>4. (\A j \in Live : table'[j] = table[j]) /\ table'[count] = s
  BY <1>1, <1>2 DEF Inv, TypeOK
<1>5. LiveArePointers'
  BY <1>2, <1>4 DEF LiveArePointers, Inv
<1>6. OneSessionPerFile'
  <2> SUFFICES ASSUME NEW j \in Live', NEW k \in Live',
                      table'[j].type = table'[k].type, table'[j].name = table'[k].name,
                      table'[j].name # RawName
               PROVE  j = k
    BY DEF OneSessionPerFile
  <2>1. CASE j \in Live /\ k \in Live
    BY <2>1, <1>4 DEF Inv, OneSessionPerFile
  <2>2. CASE j = count /\ k \in Live
    BY <2>2, <1>4 DEF Matches
  <2>3. CASE k = count /\ j \in Live
    BY <2>3, <1>4 DEF Matches
  <2> QED
    BY <1>2, <2>1, <2>2, <2>3
<1> QED
  BY <1>2, <1>3, <1>4, <1>5, <1>6

\* A session is removed: what was to its right moves one cell to the left.
LEMMA RemoveCell ==
    ASSUME Inv, NEW i \in Live, RemoveAt(i)
    PROVE  /\ table' \in [Cells -> Session \cup {Null, Garbage}]
           /\ count' \in 0..Capacity
           /\ LiveArePointers' /\ OneSessionPerFile'
           /\ \A j \in Live' : LET k == IF j < i THEN j ELSE j + 1 IN
                 k \in Live /\ k # i /\ table'[j] = table[k]
           /\ \A k \in Live \ {i} : \E j \in Live' : k = IF j < i THEN j ELSE j + 1
<1> DEFINE From(j) == IF j < i THEN j ELSE j + 1
<1>1. /\ count \in Nat /\ Capacity \in Nat /\ count <= Capacity /\ i \in Nat /\ i < count
      /\ Cells \subseteq Nat
  BY SessionsAssumption DEF Inv, TypeOK, Cells, Live
<1>2. count' = count - 1 /\ count' \in 0..Capacity
  BY <1>1 DEF RemoveAt
<1>3. table' \in [Cells -> Session \cup {Null, Garbage}]
  <2>1. \A j \in Cells : table'[j] \in Session \cup {Null, Garbage}
    <3> SUFFICES ASSUME NEW j \in Cells PROVE table'[j] \in Session \cup {Null, Garbage}
      OBVIOUS
    <3>1. CASE j < i \/ j > count
      BY <3>1 DEF RemoveAt, Inv, TypeOK
    <3>2. CASE ~(j < i \/ j > count) /\ j = count
      BY <3>2 DEF RemoveAt
    <3>3. CASE ~(j < i \/ j > count) /\ j # count
      <4>1. j + 1 \in Cells
        BY <3>3, <1>1 DEF Cells
      <4> QED
        BY <3>3, <4>1 DEF RemoveAt, Inv, TypeOK
    <3> QED
      BY <3>1, <3>2, <3>3
  <2> QED
    BY <2>1 DEF RemoveAt
<1>4. \A j \in Live' : From(j) \in Live /\ From(j) # i /\ table'[j] = table[From(j)]
  BY <1>1, <1>2 DEF RemoveAt, Live, Cells
<1>5. \A j, k \in Live' : From(j) = From(k) => j = k
  BY <1>1, <1>2 DEF Live
<1>6. \A k \in Live \ {i} : \E j \in Live' : k = From(j)
  <2> SUFFICES ASSUME NEW k \in Live \ {i} PROVE \E j \in Live' : k = From(j)
    OBVIOUS
  <2>1. CASE k < i
    BY <2>1, <1>1, <1>2 DEF Live, Cells
  <2>2. CASE k > i
    <3>1. k - 1 \in Live' /\ k = From(k - 1)
      BY <2>2, <1>1, <1>2 DEF Live, Cells
    <3> QED
      BY <3>1
  <2> QED
    BY <2>1, <2>2, <1>1 DEF Live, Cells
<1>7. LiveArePointers'
  BY <1>4 DEF LiveArePointers, Inv
<1>8. OneSessionPerFile'
  BY <1>4, <1>5 DEF OneSessionPerFile, Inv
<1> QED
  BY <1>2, <1>3, <1>4, <1>6, <1>7, <1>8

-----------------------------------------------------------------------------
(* The invariant. *)

\* No handler runs at first, and the table is empty.
LEMMA InitInv == Init => Inv
<1> SUFFICES ASSUME Init PROVE Inv
  OBVIOUS
<1>1. Live = {}
  BY DEF Init, Live, Cells
<1>2. TypeOK
  BY SessionsAssumption DEF Init, TypeOK, Cells
<1> QED
  BY <1>1, <1>2 DEF Init, Inv, LiveArePointers, OneSessionPerFile, HandlerInPlace, AtRest,
              FolderSessionNew

LEMMA RestartInv == Restart => Inv'
<1> SUFFICES ASSUME Restart PROVE Inv'
  OBVIOUS
<1>1. Live' = {}
  BY DEF Restart, Live, Cells
<1>2. TypeOK'
  BY SessionsAssumption DEF Restart, TypeOK, Cells
<1> QED
  BY <1>1, <1>2 DEF Restart, Inv, LiveArePointers, OneSessionPerFile, HandlerInPlace, AtRest,
              FolderSessionNew

\* A handler that added a session, or found no room for it.
LEMMA StartNewInv ==
    ASSUME Inv, NEW type \in {"upload", "download"}, NEW path \in Paths,
           NEW name, name = IF path \in Folders /\ type = "download" THEN RawName ELSE path,
           NEW s \in Session, s.type = type, s.name = name,
           type = "download" => s = New(type, name),
           req = None, Matches(type, path) = {}, Add(s),
           req' = [type |-> type, path |-> path, at |-> AddedAt, offer |-> 0]
    PROVE  Inv'
<1>0. Capacity \in Nat /\ count \in 0..Capacity /\ 0 \in Chunk /\ req' # None
  <2>1. Capacity \in Nat /\ count \in 0..Capacity /\ 0 \in Chunk
    BY SessionsAssumption DEF Inv, TypeOK, Chunk
  <2>2. req' \in Request
    BY <2>1 DEF Request, AddedAt, Nowhere, Cells
  <2> QED
    BY <2>1, <2>2, NoSentinel
<1>1. CASE count < Capacity
  <2>1. /\ table' \in [Cells -> Session \cup {Null, Garbage}]
        /\ count' \in 0..Capacity
        /\ LiveArePointers' /\ OneSessionPerFile'
        /\ Live' = Live \cup {count} /\ count \notin Live
        /\ \A j \in Live : table'[j] = table[j]
        /\ table'[count] = s
    <3>1. name = RawName \/ Matches(s.type, s.name) = {}
      OBVIOUS
    <3>2. table' = [table EXCEPT ![count] = s] /\ count' = count + 1
      BY <1>1 DEF Add
    <3> QED
      BY <1>1, <3>1, <3>2, AddCell
  <2>2. req'.at = count /\ req'.type = type /\ req'.path = path /\ count # Nowhere
    BY <1>0, <1>1 DEF AddedAt, Nowhere
  <2>3. TypeOK'
    BY <1>0, <1>1, <2>1 DEF TypeOK, Request, AddedAt, Cells
  <2>4. HandlerInPlace'
    BY <1>0, <2>1, <2>2 DEF HandlerInPlace
  <2>5. AtRest'
    BY <1>0, <2>1, <2>2 DEF AtRest, Inv, New
  <2>6. FolderSessionNew'
    BY <1>0, <2>1, <2>2 DEF FolderSessionNew, New
  <2> QED
    BY <2>1, <2>3, <2>4, <2>5, <2>6 DEF Inv
<1>2. CASE ~(count < Capacity)
  <2>1. table' = table /\ count' = count /\ Live' = Live
    BY <1>2 DEF Add, Live
  <2>2. req'.at = Nowhere /\ req'.type = type /\ req'.path = path
    BY <1>2 DEF AddedAt
  <2>3. TypeOK'
    BY <1>0, <1>2, <2>1 DEF TypeOK, Request, AddedAt, Inv
  <2>4. LiveArePointers' /\ OneSessionPerFile'
    BY <2>1 DEF LiveArePointers, OneSessionPerFile, Inv
  <2>5. Matches(type, path)' = {}
    BY <2>1 DEF Matches
  <2>6. HandlerInPlace'
    BY <2>2, <2>5 DEF HandlerInPlace
  <2>7. AtRest'
    BY <2>1 DEF AtRest, Inv
  <2>8. FolderSessionNew'
    BY <2>2 DEF FolderSessionNew, Nowhere
  <2> QED
    BY <2>3, <2>4, <2>6, <2>7, <2>8 DEF Inv
<1> QED
  BY <1>1, <1>2

\* A handler leaves session s behind in the cell it works with.
LEMMA InterruptedInv ==
    ASSUME Inv, req # None, NEW k \in Chunk, req' = None, count' = count,
           table' = IF req.at \in Cells
                    THEN [table EXCEPT ![req.at].state = "interrupted", ![req.at].last = k]
                    ELSE table
    PROVE  Inv'
<1>0. Capacity \in Nat /\ req \in Request
  BY SessionsAssumption DEF Inv, TypeOK
<1>9. HandlerInPlace' /\ FolderSessionNew'
  BY DEF HandlerInPlace, FolderSessionNew
<1>1. CASE req.at = Nowhere
  <2>1. table' = table /\ Live' = Live
    BY <1>0, <1>1 DEF Nowhere, Cells, Live
  <2>2. Live \subseteq Cells
    BY DEF Live
  <2>3. AtRest'
    BY <2>1, <2>2, <1>0, <1>1 DEF AtRest, Inv, Nowhere, Cells
  <2>4. TypeOK'
    BY <2>1 DEF Inv, TypeOK
  <2>5. LiveArePointers'
    BY <2>1 DEF Inv, LiveArePointers
  <2>6. OneSessionPerFile'
    BY <2>1 DEF Inv, OneSessionPerFile
  <2> QED
    BY <2>3, <2>4, <2>5, <2>6, <1>9 DEF Inv
<1>2. CASE req.at # Nowhere
  <2> DEFINE s == [table[req.at] EXCEPT !.state = "interrupted", !.last = k]
  <2>1. req.at \in Live /\ req.at \in Cells
    BY <1>2 DEF Inv, HandlerInPlace, Live
  <2>2. table[req.at] \in Session
    BY <2>1 DEF Inv, LiveArePointers
  <2>3. /\ s \in Session /\ s.type = table[req.at].type /\ s.name = table[req.at].name
        /\ s.state = "interrupted"
    BY <2>2 DEF Session, State
  <2>4. table' = [table EXCEPT ![req.at] = s]
    BY <2>1 DEF Inv, TypeOK
  <2> HIDE DEF s
  <2>5. /\ table' \in [Cells -> Session \cup {Null, Garbage}]
        /\ LiveArePointers' /\ OneSessionPerFile'
        /\ Live' = Live
    BY <2>1, <2>3, <2>4, SetCell
  <2>6. TypeOK'
    BY <2>5 DEF TypeOK, Inv
  <2>7. \A i \in Live : table'[i] = IF i = req.at THEN s ELSE table[i]
    BY <2>1, <2>4 DEF Inv, TypeOK, Live
  <2>8. AtRest'
    <3> SUFFICES ASSUME NEW i \in Live
                 PROVE  \/ table'[i].state = "interrupted"
                        \/ table'[i] \in {New("upload", table'[i].name),
                                          New("download", RawName)}
      BY <2>5 DEF AtRest, New
    <3>1. CASE i = req.at
      BY <3>1, <2>3, <2>7
    <3>2. CASE i # req.at
      <4>1. table'[i] = table[i]
        BY <3>2, <2>7
      <4>2. \/ table[i].state = "interrupted"
            \/ table[i] \in {New("upload", table[i].name), New("download", RawName)}
        BY <3>2 DEF Inv, AtRest
      <4> QED
        BY <4>1, <4>2
    <3> QED
      BY <3>1, <3>2
  <2> QED
    BY <2>5, <2>6, <2>8, <1>9 DEF Inv
<1> QED
  BY <1>1, <1>2

\* A handler removes its session, if it is in the table; that of a directory's download
\* is not found and stays, as it was made.
LEMMA DoneInv ==
    ASSUME Inv, req # None, req.path \in Files \/ req.type = "download",
           Remove(req.type, req.path), req' = None
    PROVE  Inv'
<1>0. req \in Request /\ req.path \in Paths
  BY DEF Inv, TypeOK, Request
<1>1. CASE Matches(req.type, req.path) = {}
  <2>1. table' = table /\ count' = count /\ Live' = Live
    BY <1>1 DEF Remove, Live
  <2>2. req.at = Nowhere \/ table[req.at] = New("download", RawName)
    <3>1. CASE req.path \in Folders /\ req.type = "download"
      BY <3>1 DEF Inv, FolderSessionNew
    <3>2. CASE ~(req.path \in Folders /\ req.type = "download")
      BY <1>1, <3>2 DEF Inv, HandlerInPlace, Matches
    <3> QED
      BY <3>1, <3>2
  <2>3. \A i \in Live : i # Nowhere
    BY SessionsAssumption DEF Live, Cells, Nowhere
  <2>4. AtRest'
    BY <2>1, <2>2, <2>3 DEF AtRest, Inv, New
  <2> QED
    BY <2>1, <2>4 DEF Inv, TypeOK, LiveArePointers, OneSessionPerFile, HandlerInPlace,
                      FolderSessionNew
<1>2. CASE Matches(req.type, req.path) # {}
  <2>0. ~(req.path \in Folders /\ req.type = "download")
    BY <1>2, SessionsAssumption DEF Matches, Inv, LiveArePointers, Session, Paths
  <2>1. req.at \in Matches(req.type, req.path)
    BY <1>2, <2>0 DEF Inv, HandlerInPlace, Matches
  <2>2. Found(req.type, req.path) = req.at /\ req.at \in Live
    BY <1>0, <2>1, FoundIs DEF Inv, Matches
  <2>3. RemoveAt(req.at)
    BY <1>2, <2>2 DEF Remove
  <2>4. /\ table' \in [Cells -> Session \cup {Null, Garbage}]
        /\ count' \in 0..Capacity
        /\ LiveArePointers' /\ OneSessionPerFile'
        /\ \A j \in Live' : \E k \in Live : k # req.at /\ table'[j] = table[k]
    BY <2>2, <2>3, RemoveCell
  <2>5. TypeOK'
    BY <2>4 DEF TypeOK
  <2>6. AtRest'
    BY <2>4 DEF AtRest, Inv, New
  <2> QED
    BY <2>4, <2>5, <2>6 DEF Inv, HandlerInPlace, FolderSessionNew
<1> QED
  BY <1>1, <1>2

\* A session found is put to work.
LEMMA StartFoundInv ==
    ASSUME Inv, NEW type \in {"upload", "download"}, NEW path \in Paths, NEW o \in Chunk,
           req = None, Matches(type, path) # {},
           NEW s \in Session, s.type = type, s.name = path,
           table' = [table EXCEPT ![Found(type, path)] = s], count' = count,
           req' = [type |-> type, path |-> path, at |-> Found(type, path), offer |-> o]
    PROVE  Inv'
<1>1. PICK i \in Matches(type, path) : TRUE
  OBVIOUS
<1>2. Found(type, path) = i
  BY FoundIs DEF Inv
<1>3. /\ i \in Live /\ i \in Cells /\ i # Nowhere /\ path # RawName
      /\ table[i].type = type /\ table[i].name = path
  BY SessionsAssumption DEF Matches, Live, Cells, Nowhere, Paths
<1>4. /\ table' \in [Cells -> Session \cup {Null, Garbage}]
      /\ LiveArePointers' /\ OneSessionPerFile'
      /\ Live' = Live
  BY <1>2, <1>3, SetCell
<1>5. req' \in Request /\ req' # None /\ req'.at = i /\ req'.type = type /\ req'.path = path
  BY <1>2, <1>3, NoSentinel DEF Request
<1>6. TypeOK'
  BY <1>4, <1>5 DEF Inv, TypeOK
<1>7. \A j \in Live : table'[j] = IF j = i THEN s ELSE table[j]
  BY <1>2, <1>3 DEF Inv, TypeOK, Live
<1>8. AtRest'
  BY <1>4, <1>5, <1>7 DEF AtRest, Inv, New
<1>9. ~(path \in Folders /\ type = "download") => HandlerInPlace'
  BY <1>3, <1>4, <1>5, <1>7 DEF HandlerInPlace
<1>10. ~(path \in Folders /\ type = "download")
  BY SessionsAssumption DEF Session, Paths
<1>11. FolderSessionNew'
  BY <1>5, <1>10 DEF FolderSessionNew
<1> QED
  BY <1>4, <1>6, <1>8, <1>9, <1>10, <1>11 DEF Inv

\* Every step keeps the invariant.
LEMMA NextInv == Inv /\ [Next]_vars => Inv'
<1> SUFFICES ASSUME Inv, [Next]_vars PROVE Inv'
  OBVIOUS
<1>0. 0 \in Chunk /\ (\A p \in Paths : p # RawName) /\ (\A p \in Folders : p \notin Files)
  BY SessionsAssumption DEF Chunk, Paths
<1>1. ASSUME NEW p \in Paths, StartUpload(p) PROVE Inv'
  <2>1. CASE Matches("upload", p) # {}
    <3> DEFINE i == Found("upload", p)
    <3> DEFINE s == [table[i] EXCEPT !.state = "running"]
    <3>1. i \in Matches("upload", p)
      BY <2>1, FoundIs DEF Inv
    <3>2. table[i] \in Session /\ i \in Cells /\ table[i].type = "upload" /\ table[i].name = p
      BY <3>1 DEF Inv, LiveArePointers, Matches, Live
    <3>3. s \in Session /\ s.type = "upload" /\ s.name = p
      BY <3>2 DEF Session, State
    <3>4. Offer(table[i]) \in Chunk
      BY <3>2, <1>0 DEF Offer, Session
    <3>5. table' = [table EXCEPT ![i] = s] /\ count' = count /\ req = None
      BY <1>1, <2>1 DEF StartUpload
    <3>6. req' = [type |-> "upload", path |-> p, at |-> i, offer |-> Offer(table[i])]
      BY <1>1, <2>1 DEF StartUpload
    <3> HIDE DEF s
    <3> QED
      BY <2>1, <3>3, <3>4, <3>5, <3>6, StartFoundInv
  <2>2. CASE Matches("upload", p) = {}
    <3> DEFINE s == [New("upload", p) EXCEPT !.state = "running"]
    <3>1. s \in Session /\ s.type = "upload" /\ s.name = p
      BY NewIsSession DEF New, Session, State
    <3>2. /\ Add(s) /\ req = None
          /\ req' = [type |-> "upload", path |-> p, at |-> AddedAt, offer |-> 0]
      BY <1>1, <2>2 DEF StartUpload
    <3> HIDE DEF s
    <3> QED
      BY <2>2, <3>1, <3>2, StartNewInv
  <2> QED
    BY <2>1, <2>2
<1>2. ASSUME NEW p \in Paths, UploadMkdirFails(p) PROVE Inv'
  <2>0. req' = req /\ req = None /\ HandlerInPlace' /\ FolderSessionNew'
    BY <1>2 DEF UploadMkdirFails, HandlerInPlace, FolderSessionNew
  <2>1. CASE Matches("upload", p) = {} /\ count < Capacity
    <3> DEFINE s == New("upload", p)
    <3>1. s \in Session /\ s.type = "upload" /\ s.name = p
      BY NewIsSession DEF New
    <3>2. table' = [table EXCEPT ![count] = s] /\ count' = count + 1
      BY <1>2, <2>1 DEF UploadMkdirFails, Add
    <3>3. s = New("upload", s.name)
      BY <3>1
    <3> HIDE DEF s
    <3>4. /\ table' \in [Cells -> Session \cup {Null, Garbage}]
          /\ count' \in 0..Capacity
          /\ LiveArePointers' /\ OneSessionPerFile'
          /\ Live' = Live \cup {count}
          /\ \A j \in Live : table'[j] = table[j]
          /\ table'[count] = s
      BY <2>1, <3>1, <3>2, AddCell
    <3>5. AtRest'
      BY <2>0, <3>3, <3>4 DEF AtRest, Inv, New
    <3> QED
      BY <2>0, <3>4, <3>5 DEF Inv, TypeOK
  <2>2. CASE ~(Matches("upload", p) = {} /\ count < Capacity)
    <3>1. UNCHANGED vars
      BY <1>2, <2>2 DEF UploadMkdirFails, Add, vars
    <3> QED
      BY <3>1 DEF Inv, TypeOK, LiveArePointers, OneSessionPerFile, HandlerInPlace, AtRest,
                  FolderSessionNew, Live, Matches, vars
  <2> QED
    BY <2>1, <2>2
<1>3. ASSUME NEW p \in Paths, StartDownload(p) PROVE Inv'
  <2>1. CASE Matches("download", p) # {}
    <3> DEFINE i == Found("download", p)
    <3>1. i \in Matches("download", p)
      BY <2>1, FoundIs DEF Inv
    <3>2. /\ table[i] \in Session /\ i \in Cells
          /\ table[i].type = "download" /\ table[i].name = p
      BY <3>1 DEF Inv, LiveArePointers, Matches, Live
    <3>3. table' = [table EXCEPT ![i] = table[i]] /\ count' = count /\ req = None
      BY <1>3, <2>1, <3>2 DEF StartDownload, Inv, TypeOK
    <3>4. req' = [type |-> "download", path |-> p, at |-> i, offer |-> 0]
      BY <1>3, <2>1 DEF StartDownload
    <3> QED
      BY <1>0, <2>1, <3>2, <3>3, <3>4, StartFoundInv
  <2>2. CASE Matches("download", p) = {}
    <3> DEFINE name == IF p \in Files THEN p ELSE RawName
    <3> DEFINE s == New("download", name)
    <3>1. s \in Session /\ s.type = "download" /\ s.name = name /\ s = New("download", name)
      BY NewIsSession DEF New
    <3>2. /\ Add(s) /\ req = None
          /\ req' = [type |-> "download", path |-> p, at |-> AddedAt, offer |-> 0]
      BY <1>3, <2>2 DEF StartDownload
    <3>3. name = IF p \in Folders /\ "download" = "download" THEN RawName ELSE p
      BY <1>0 DEF Paths
    <3> HIDE DEF s, name
    <3> QED
      BY <2>2, <3>1, <3>2, <3>3, StartNewInv
  <2> QED
    BY <2>1, <2>2
<1>4. ASSUME NEW k \in Chunk, UploadInterrupted(k) PROVE Inv'
  BY <1>4, InterruptedInv DEF UploadInterrupted
<1>5. ASSUME NEW k \in Chunk, DownloadInterrupted(k) PROVE Inv'
  BY <1>5, InterruptedInv DEF DownloadInterrupted
<1>6. CASE UploadDone
  BY <1>6, DoneInv DEF UploadDone
<1>7. CASE DownloadDone
  BY <1>7, DoneInv DEF DownloadDone
<1>8. CASE Restart
  BY <1>8, RestartInv
<1>9. CASE UNCHANGED vars
  BY <1>9 DEF Inv, TypeOK, LiveArePointers, OneSessionPerFile, HandlerInPlace, AtRest,
              FolderSessionNew, Live, Matches, vars
<1> QED
  BY <1>1, <1>2, <1>3, <1>4, <1>5, <1>6, <1>7, <1>8, <1>9 DEF Next

\* The invariant holds in every reachable state.
THEOREM TableInvariant == Spec => []Inv
BY InitInv, NextInv, PTL DEF Spec

\* The session table keeps its types: count never exceeds the capacity.
THEOREM TypeCorrect == Spec => []TypeOK
BY TableInvariant, PTL DEF Inv

\* No lookup follows a null or uninitialised pointer, whatever was removed before and
\* however full the table is.
THEOREM NoWildPointer == Spec => []LiveArePointers
BY TableInvariant, PTL DEF Inv

\* user_get_session has at most one session to return.
THEOREM LookupIsUnique == Spec => []OneSessionPerFile
BY TableInvariant, PTL DEF Inv

\* A handler records its result in the session it found or made.
THEOREM HandlerKeepsItsSession == Spec => []HandlerInPlace
BY TableInvariant, PTL DEF Inv

\* AtRest: a handler that has returned leaves no session running, and none behind but
\* that of an attempt that broke off, of an upload that never began, and of a directory's
\* download, which user_remove_session does not find.
THEOREM NothingLeftRunning == Spec => []AtRest
BY TableInvariant, PTL DEF Inv

-----------------------------------------------------------------------------
(* The table implements ResumePoints. *)

\* The resume point of a file with a slot is in that slot.
LEMMA PointAt ==
    Inv => \A p \in Paths : \A i \in Matches("upload", p) : PointOf(p) = table[i].last
BY FoundIs DEF Inv, PointOf, HasSlot

LEMMA PointAtNext ==
    Inv' => (\A p \in Paths : \A i \in Matches("upload", p) : PointOf(p) = table[i].last)'
BY PointAt, PTL

\* A file whose slot is carried over keeps its resume point.
LEMMA Kept ==
    ASSUME Inv, Inv', NEW p \in Paths,
           \A i \in Matches("upload", p) :
               \E j \in Matches("upload", p)' : table'[j].last = table[i].last,
           Matches("upload", p) = {} => Matches("upload", p)' = {}
    PROVE  (HasSlot(p)' <=> HasSlot(p)) /\ PointOf(p)' = PointOf(p)
<1>1. CASE Matches("upload", p) = {}
  BY <1>1 DEF HasSlot, PointOf
<1>2. CASE Matches("upload", p) # {}
  <2>1. PICK i \in Matches("upload", p) : TRUE
    BY <1>2
  <2>2. PICK j \in Matches("upload", p)' : table'[j].last = table[i].last
    BY <2>1
  <2>3. PointOf(p) = table[i].last
    BY <2>1, PointAt
  <2>4. PointOf(p)' = table'[j].last
    BY <2>2, PointAtNext
  <2> QED
    BY <2>1, <2>2, <2>3, <2>4 DEF HasSlot
<1> QED
  BY <1>1, <1>2

\* Nothing changes for ResumePoints when every slot is carried over.
LEMMA AllKept ==
    ASSUME \A p \in Paths : (HasSlot(p)' <=> HasSlot(p)) /\ PointOf(p)' = PointOf(p)
    PROVE  Slots' = Slots /\ [p \in Paths |-> PointOf(p)]' = [p \in Paths |-> PointOf(p)]
BY DEF Slots

\* A session added for another file, or a download, moves no slot of p.
LEMMA AddKeeps ==
    ASSUME Inv, Inv', NEW p \in Paths, NEW s \in Session, Add(s),
           s.type # "upload" \/ s.name # p
    PROVE  (HasSlot(p)' <=> HasSlot(p)) /\ PointOf(p)' = PointOf(p)
<1>1. CASE count < Capacity
  <2>1. count \in Nat /\ Capacity \in Nat /\ count \in Cells
    BY SessionsAssumption DEF Inv, TypeOK, Cells
  <2>2. table' = [table EXCEPT ![count] = s] /\ count' = count + 1
    BY <1>1 DEF Add
  <2>3. Live' = Live \cup {count} /\ count \notin Live /\ Live \subseteq Cells
    BY <2>1, <2>2 DEF Live, Cells
  <2>4. (\A j \in Live : table'[j] = table[j]) /\ table'[count] = s
    BY <2>1, <2>2, <2>3 DEF Inv, TypeOK
  <2>5. Matches("upload", p)' = Matches("upload", p)
    BY <2>3, <2>4 DEF Matches
  <2>6. \A i \in Matches("upload", p) : table'[i].last = table[i].last
    BY <2>4 DEF Matches
  <2> QED
    BY <2>5, <2>6, Kept
<1>2. CASE ~(count < Capacity)
  <2>1. table' = table /\ count' = count
    BY <1>2 DEF Add
  <2> QED
    BY <2>1 DEF HasSlot, PointOf, Found, Matches, Live
<1> QED
  BY <1>1, <1>2

\* A session changed in place moves no slot of p, if it is not p's or keeps its point.
LEMMA SetKeeps ==
    ASSUME Inv, Inv', NEW p \in Paths, NEW i \in Live, NEW s \in Session,
           s.type = table[i].type, s.name = table[i].name,
           table' = [table EXCEPT ![i] = s], count' = count,
           i \notin Matches("upload", p) \/ s.last = table[i].last
    PROVE  (HasSlot(p)' <=> HasSlot(p)) /\ PointOf(p)' = PointOf(p)
<1>1. Matches("upload", p)' = Matches("upload", p)
  BY SetCell
<1>2. \A j \in Live : table'[j] = IF j = i THEN s ELSE table[j]
  BY DEF Inv, TypeOK, Live
<1>3. \A j \in Matches("upload", p) : table'[j].last = table[j].last
  BY <1>2 DEF Matches
<1> QED
  BY <1>1, <1>3, Kept

\* A removed session moves no slot of p, if it is not p's.
LEMMA RemoveKeeps ==
    ASSUME Inv, Inv', NEW p \in Paths, NEW i \in Live, RemoveAt(i),
           i \notin Matches("upload", p)
    PROVE  (HasSlot(p)' <=> HasSlot(p)) /\ PointOf(p)' = PointOf(p)
<1>1. \A j \in Live' : \E k \in Live : k # i /\ table'[j] = table[k]
  BY RemoveCell
<1>2. \A k \in Live \ {i} : \E j \in Live' : table'[j] = table[k]
  BY RemoveCell
<1>3. \A k \in Matches("upload", p) :
          \E j \in Matches("upload", p)' : table'[j].last = table[k].last
  <2> SUFFICES ASSUME NEW k \in Matches("upload", p)
               PROVE  \E j \in Matches("upload", p)' : table'[j].last = table[k].last
    OBVIOUS
  <2>1. PICK j \in Live' : table'[j] = table[k]
    BY <1>2 DEF Matches
  <2>2. j \in Matches("upload", p)'
    BY <2>1 DEF Matches
  <2> QED
    BY <2>1, <2>2
<1>4. Matches("upload", p) = {} => Matches("upload", p)' = {}
  BY <1>1 DEF Matches
<1> QED
  BY <1>3, <1>4, Kept

\* Removing p's session frees p's slot.
LEMMA RemoveFrees ==
    ASSUME Inv, NEW p \in Paths, NEW i \in Matches("upload", p), RemoveAt(i)
    PROVE  Matches("upload", p)' = {}
<1>1. i \in Live /\ (\A k \in Matches("upload", p) : k = i)
  BY FoundIs DEF Inv, Matches
<1>2. \A j \in Live' : \E k \in Live : k # i /\ table'[j] = table[k]
  BY <1>1, RemoveCell
<1> QED
  BY <1>1, <1>2 DEF Matches

\* An empty table is ResumePoints' initial state.
LEMMA RefineInit == Init => Resume!Init
<1> SUFFICES ASSUME Init PROVE Resume!Init
  OBVIOUS
<1>1. Live = {}
  BY DEF Init, Live, Cells
<1>2. \A p \in Paths : ~HasSlot(p) /\ PointOf(p) = 0
  BY <1>1 DEF HasSlot, PointOf, Matches
<1>3. Slots = {} /\ [p \in Paths |-> PointOf(p)] = [p \in Paths |-> 0]
  BY <1>2 DEF Slots
<1>4. UploadJob = None
  BY DEF Init, UploadJob
<1> QED
  BY <1>3, <1>4 DEF Resume!Init

LEMMA RefineRestart == Restart => Resume!Restart
<1> SUFFICES ASSUME Restart PROVE Resume!Restart
  OBVIOUS
<1>1. Live' = {}
  BY DEF Restart, Live, Cells
<1>2. \A p \in Paths : ~HasSlot(p)' /\ PointOf(p)' = 0
  BY <1>1 DEF HasSlot, PointOf, Matches
<1>3. Slots' = {} /\ [p \in Paths |-> PointOf(p)]' = [p \in Paths |-> 0]
  BY <1>2 DEF Slots
<1>4. UploadJob' = None
  BY DEF Restart, UploadJob
<1> QED
  BY <1>3, <1>4 DEF Resume!Restart

\* Starting an upload offers the file's resume point.
LEMMA RefineStart ==
    ASSUME Inv, Inv', NEW p \in Paths, StartUpload(p)
    PROVE  Resume!Start(p)
<1>0. UploadJob = None
  BY DEF StartUpload, UploadJob
<1>1. CASE Matches("upload", p) # {}
  <2> DEFINE i == Found("upload", p)
  <2> DEFINE s == [table[i] EXCEPT !.state = "running"]
  <2>1. i \in Matches("upload", p)
    BY <1>1, FoundIs DEF Inv
  <2>2. table[i] \in Session /\ i \in Cells /\ i \in Live
    BY <2>1 DEF Inv, LiveArePointers, Matches, Live
  <2>3. s \in Session /\ s.type = table[i].type /\ s.name = table[i].name /\ s.last = table[i].last
    BY <2>2 DEF Session, State
  <2>4. table' = [table EXCEPT ![i] = s] /\ count' = count /\ req = None
    BY <1>1 DEF StartUpload
  <2>5. req' = [type |-> "upload", path |-> p, at |-> i, offer |-> Offer(table[i])]
    BY <1>1 DEF StartUpload
  <2>6. Offer(table[i]) = PointOf(p)
    <3>1. PointOf(p) = table[i].last
      BY <2>1, PointAt
    <3>2. \/ table[i].state = "interrupted"
          \/ table[i] \in {New("upload", table[i].name), New("download", RawName)}
      BY <2>2, <2>4 DEF Inv, AtRest
    <3> QED
      BY <3>1, <3>2 DEF Offer, New
  <2>7. req' \in Request
    <3>1. Offer(table[i]) \in Chunk
      BY <2>2, SessionsAssumption DEF Offer, Session, Chunk
    <3> QED
      BY <2>2, <2>5, <3>1 DEF Request
  <2>8. UploadJob' = [target |-> p, offer |-> PointOf(p)]
    BY <2>5, <2>6, <2>7, NoSentinel DEF UploadJob
  <2> HIDE DEF s, i
  <2>9. \A q \in Paths : (HasSlot(q)' <=> HasSlot(q)) /\ PointOf(q)' = PointOf(q)
    BY <2>2, <2>3, <2>4, SetKeeps
  <2> QED
    BY <1>0, <2>8, <2>9, AllKept DEF Resume!Start
<1>2. CASE Matches("upload", p) = {}
  <2> DEFINE s == [New("upload", p) EXCEPT !.state = "running"]
  <2>1. s \in Session /\ s.type = "upload" /\ s.name = p /\ s.last = 0
    BY NewIsSession DEF New, Session, State
  <2>2. /\ Add(s)
        /\ req' = [type |-> "upload", path |-> p, at |-> AddedAt, offer |-> 0]
    BY <1>2 DEF StartUpload
  <2> HIDE DEF s
  <2>3. PointOf(p) = 0 /\ ~HasSlot(p)
    BY <1>2 DEF PointOf, HasSlot
  <2>4. \A q \in Paths \ {p} : (HasSlot(q)' <=> HasSlot(q)) /\ PointOf(q)' = PointOf(q)
    BY <2>1, <2>2, AddKeeps
  <2>5. PointOf(p)' = 0
    <3>1. CASE HasSlot(p)'
      <4>1. PICK j \in Matches("upload", p)' : PointOf(p)' = table'[j].last
        BY <3>1, PointAtNext DEF HasSlot
      <4>2. count < Capacity
        BY <1>2, <2>2, <3>1 DEF Add, HasSlot, Matches, Live
      <4>3. Live' = Live \cup {count} /\ (\A k \in Live : table'[k] = table[k]) /\ table'[count] = s
        <5>1. table' = [table EXCEPT ![count] = s] /\ count' = count + 1
          BY <2>2, <4>2 DEF Add
        <5> QED
          BY <1>2, <2>1, <4>2, <5>1, AddCell
      <4>4. j = count
        BY <1>2, <4>1, <4>3 DEF Matches
      <4> QED
        BY <2>1, <4>1, <4>3, <4>4
    <3>2. CASE ~HasSlot(p)'
      BY <3>2 DEF PointOf, HasSlot
    <3> QED
      BY <3>1, <3>2
  <2>6. [q \in Paths |-> PointOf(q)]' = [q \in Paths |-> PointOf(q)]
    BY <2>3, <2>4, <2>5
  <2>7. Slots' \in {Slots, Slots \cup {p}}
    BY <2>3, <2>4 DEF Slots
  <2>8. req' \in Request
    <3>1. req' # None
      BY <2>2, SessionsAssumption, NoSentinel DEF Request, AddedAt, Nowhere, Cells, Chunk, Inv, TypeOK
    <3> QED
      BY <3>1 DEF Inv, TypeOK
  <2>9. UploadJob' = [target |-> p, offer |-> PointOf(p)]
    BY <2>2, <2>3, <2>8, NoSentinel DEF UploadJob
  <2> QED
    BY <1>0, <2>6, <2>7, <2>9 DEF Resume!Start
<1> QED
  BY <1>1, <1>2

\* A request that ends early reserves a slot at most.
LEMMA RefineReserve ==
    ASSUME Inv, Inv', NEW p \in Paths, UploadMkdirFails(p)
    PROVE  Resume!Reserve(p) \/ UNCHANGED Resume!vars
<1>0. UploadJob = None /\ UploadJob' = None
  BY DEF UploadMkdirFails, UploadJob
<1>1. CASE Matches("upload", p) = {} /\ count < Capacity
  <2> DEFINE s == New("upload", p)
  <2>1. s \in Session /\ s.type = "upload" /\ s.name = p /\ s.last = 0
    BY NewIsSession DEF New
  <2>2. Add(s) /\ table' = [table EXCEPT ![count] = s] /\ count' = count + 1
    BY <1>1 DEF UploadMkdirFails, Add
  <2> HIDE DEF s
  <2>3. Live' = Live \cup {count} /\ table'[count] = s
    BY <1>1, <2>1, <2>2, AddCell
  <2>4. count \in Matches("upload", p)'
    BY <2>1, <2>3 DEF Matches
  <2>5. HasSlot(p)' /\ PointOf(p)' = 0
    BY <2>1, <2>3, <2>4, PointAtNext DEF HasSlot
  <2>6. PointOf(p) = 0 /\ ~HasSlot(p)
    BY <1>1 DEF PointOf, HasSlot
  <2>7. \A q \in Paths \ {p} : (HasSlot(q)' <=> HasSlot(q)) /\ PointOf(q)' = PointOf(q)
    BY <2>1, <2>2, AddKeeps
  <2>8. [q \in Paths |-> PointOf(q)]' = [q \in Paths |-> PointOf(q)]
    BY <2>5, <2>6, <2>7
  <2>9. Slots' = Slots \cup {p}
    BY <2>5, <2>6, <2>7 DEF Slots
  <2> QED
    BY <1>0, <2>8, <2>9 DEF Resume!Reserve
<1>2. CASE ~(Matches("upload", p) = {} /\ count < Capacity)
  <2>1. table' = table /\ count' = count
    BY <1>2 DEF UploadMkdirFails, Add
  <2>2. \A q \in Paths : (HasSlot(q)' <=> HasSlot(q)) /\ PointOf(q)' = PointOf(q)
    BY <2>1 DEF HasSlot, PointOf, Found, Matches, Live
  <2> QED
    BY <1>0, <2>2, AllKept DEF Resume!vars
<1> QED
  BY <1>1, <1>2

\* Downloads change no resume point of an upload.
LEMMA RefineDownload ==
    ASSUME Inv, Inv',
           \/ \E p \in Paths : StartDownload(p)
           \/ \E k \in Chunk : DownloadInterrupted(k)
           \/ DownloadDone
    PROVE  UNCHANGED Resume!vars
<1>1. UploadJob = None /\ UploadJob' = None
  <2>1. ASSUME NEW p \in Paths, StartDownload(p) PROVE UploadJob = None /\ UploadJob' = None
    <3>1. req = None /\ req'.type = "download"
      BY <2>1 DEF StartDownload
    <3> QED
      BY <3>1 DEF UploadJob
  <2>2. ASSUME NEW k \in Chunk, DownloadInterrupted(k)
        PROVE  UploadJob = None /\ UploadJob' = None
    BY <2>2 DEF DownloadInterrupted, UploadJob
  <2>3. ASSUME DownloadDone PROVE UploadJob = None /\ UploadJob' = None
    BY <2>3 DEF DownloadDone, UploadJob
  <2> QED
    BY <2>1, <2>2, <2>3
<1>2. ASSUME NEW p \in Paths, StartDownload(p)
      PROVE  \A q \in Paths : (HasSlot(q)' <=> HasSlot(q)) /\ PointOf(q)' = PointOf(q)
  <2>1. CASE Matches("download", p) # {}
    <3>1. table' = table /\ count' = count
      BY <1>2, <2>1 DEF StartDownload
    <3> QED
      BY <3>1 DEF HasSlot, PointOf, Found, Matches, Live
  <2>2. CASE Matches("download", p) = {}
    <3> DEFINE s == New("download", IF p \in Files THEN p ELSE RawName)
    <3>1. s \in Session /\ s.type # "upload"
      BY NewIsSession DEF New
    <3>2. Add(s)
      BY <1>2, <2>2 DEF StartDownload
    <3> HIDE DEF s
    <3> QED
      BY <3>1, <3>2, AddKeeps
  <2> QED
    BY <2>1, <2>2
<1>3. ASSUME NEW k \in Chunk, DownloadInterrupted(k)
      PROVE  \A q \in Paths : (HasSlot(q)' <=> HasSlot(q)) /\ PointOf(q)' = PointOf(q)
  <2>0. req # None /\ req.type = "download" /\ count' = count
    BY <1>3 DEF DownloadInterrupted
  <2>1. CASE req.at = Nowhere
    <3>1. table' = table
      BY <1>3, <2>1, SessionsAssumption DEF DownloadInterrupted, Nowhere, Cells
    <3> QED
      BY <2>0, <3>1 DEF HasSlot, PointOf, Found, Matches, Live
  <2>2. CASE req.at # Nowhere
    <3> DEFINE s == [table[req.at] EXCEPT !.state = "interrupted", !.last = k]
    <3>1. req.at \in Live /\ req.at \in Cells /\ table[req.at].type = "download"
      BY <2>0, <2>2 DEF Inv, HandlerInPlace, Live
    <3>2. table[req.at] \in Session
      BY <3>1 DEF Inv, LiveArePointers
    <3>3. s \in Session /\ s.type = table[req.at].type /\ s.name = table[req.at].name
      BY <3>2 DEF Session, State
    <3>4. table' = [table EXCEPT ![req.at] = s]
      BY <1>3, <3>1 DEF DownloadInterrupted, Inv, TypeOK
    <3>5. \A q \in Paths : req.at \notin Matches("upload", q)
      BY <3>1 DEF Matches
    <3> HIDE DEF s
    <3> QED
      BY <2>0, <3>1, <3>3, <3>4, <3>5, SetKeeps
  <2> QED
    BY <2>1, <2>2
<1>4. ASSUME DownloadDone
      PROVE  \A q \in Paths : (HasSlot(q)' <=> HasSlot(q)) /\ PointOf(q)' = PointOf(q)
  <2>0. req.path \in Paths
    BY <1>4 DEF DownloadDone, Inv, TypeOK, Request
  <2>1. CASE Matches("download", req.path) = {}
    <3>1. table' = table /\ count' = count
      BY <1>4, <2>1 DEF DownloadDone, Remove
    <3> QED
      BY <3>1 DEF HasSlot, PointOf, Found, Matches, Live
  <2>2. CASE Matches("download", req.path) # {}
    <3> DEFINE i == Found("download", req.path)
    <3>1. i \in Matches("download", req.path)
      BY <2>0, <2>2, FoundIs DEF Inv
    <3>2. i \in Live /\ \A q \in Paths : i \notin Matches("upload", q)
      BY <3>1 DEF Matches
    <3>3. RemoveAt(i)
      BY <1>4, <2>2 DEF DownloadDone, Remove
    <3> HIDE DEF i
    <3> QED
      BY <3>2, <3>3, RemoveKeeps
  <2> QED
    BY <2>1, <2>2
<1>5. \A q \in Paths : (HasSlot(q)' <=> HasSlot(q)) /\ PointOf(q)' = PointOf(q)
  BY <1>2, <1>3, <1>4
<1> QED
  BY <1>1, <1>5, AllKept DEF Resume!vars

\* An interrupted upload moves its own file's resume point only.
LEMMA RefineInterrupt ==
    ASSUME Inv, Inv', NEW k \in Chunk, UploadInterrupted(k)
    PROVE  Resume!Interrupt(k)
<1>0. /\ req # None /\ req.type = "upload" /\ count' = count /\ req' = None
      /\ req \in Request /\ req.path \in Paths
  BY DEF UploadInterrupted, Inv, TypeOK, Request
<1>1. /\ UploadJob = [target |-> req.path, offer |-> req.offer] /\ UploadJob' = None
      /\ UploadJob # None
  <2>1. UploadJob = [target |-> req.path, offer |-> req.offer] /\ UploadJob' = None
    BY <1>0 DEF UploadJob
  <2>2. UploadJob \in [target : Paths, offer : Chunk]
    BY <1>0, <2>1 DEF Request
  <2> QED
    BY <2>1, <2>2, SentinelsAssumption
<1>9. PICK f \in Paths : f = req.path
  BY <1>0
<1>2. CASE req.at = Nowhere
  <2>1. table' = table
    BY <1>2, SessionsAssumption DEF UploadInterrupted, Nowhere, Cells
  <2>2. \A q \in Paths : (HasSlot(q)' <=> HasSlot(q)) /\ PointOf(q)' = PointOf(q)
    BY <1>0, <2>1 DEF HasSlot, PointOf, Found, Matches, Live
  <2>3. ~HasSlot(f) /\ PointOf(f) = 0
    BY <1>0, <1>2, <1>9 DEF Inv, HandlerInPlace, HasSlot, PointOf
  <2>4. f \notin Slots
    BY <2>3 DEF Slots
  <2>5. Slots' = Slots /\ [p \in Paths |-> PointOf(p)]' = [p \in Paths |-> PointOf(p)]
    BY <2>2, AllKept
  <2>6. [[p \in Paths |-> PointOf(p)] EXCEPT ![f] = 0] = [p \in Paths |-> PointOf(p)]
    BY <2>3
  <2> QED
    BY <1>1, <1>9, <2>4, <2>5, <2>6 DEF Resume!Interrupt
<1>3. CASE req.at # Nowhere
  <2> DEFINE s == [table[req.at] EXCEPT !.state = "interrupted", !.last = k]
  <2>1. /\ req.at \in Live /\ req.at \in Cells
        /\ table[req.at].type = "upload" /\ table[req.at].name = f
    BY <1>0, <1>3, <1>9 DEF Inv, HandlerInPlace, Live
  <2>2. table[req.at] \in Session
    BY <2>1 DEF Inv, LiveArePointers
  <2>3. /\ s \in Session /\ s.type = table[req.at].type /\ s.name = table[req.at].name
        /\ s.last = k
    BY <2>2 DEF Session, State
  <2>4. table' = [table EXCEPT ![req.at] = s]
    BY <2>1 DEF UploadInterrupted, Inv, TypeOK
  <2> HIDE DEF s
  <2>5. \A q \in Paths \ {f} : req.at \notin Matches("upload", q)
    BY <2>1 DEF Matches
  <2>6. \A q \in Paths \ {f} : (HasSlot(q)' <=> HasSlot(q)) /\ PointOf(q)' = PointOf(q)
    BY <1>0, <2>1, <2>3, <2>4, <2>5, SetKeeps
  <2>7. req.at \in Matches("upload", f) /\ req.at \in Matches("upload", f)'
    <3>1. req.at \in Matches("upload", f)
      BY <2>1 DEF Matches
    <3>2. Matches("upload", f)' = Matches("upload", f)
      BY <1>0, <2>1, <2>3, <2>4, SetCell
    <3> QED
      BY <3>1, <3>2
  <2>8. PointOf(f)' = k
    <3>1. PointOf(f)' = table'[req.at].last
      BY <1>0, <2>7, PointAtNext
    <3>2. table'[req.at] = s
      BY <2>1, <2>4 DEF Inv, TypeOK
    <3> QED
      BY <2>3, <3>1, <3>2
  <2>9. HasSlot(f) /\ HasSlot(f)'
    BY <2>7 DEF HasSlot
  <2>10. Slots' = Slots /\ f \in Slots
    BY <1>0, <2>6, <2>9 DEF Slots
  <2>11. [p \in Paths |-> PointOf(p)]' = [[p \in Paths |-> PointOf(p)] EXCEPT ![f] = k]
    BY <1>0, <2>6, <2>8
  <2> QED
    BY <1>1, <1>9, <2>10, <2>11 DEF Resume!Interrupt
<1> QED
  BY <1>2, <1>3

\* A finished upload gives its slot back.
LEMMA RefineFinish ==
    ASSUME Inv, Inv', UploadDone
    PROVE  Resume!Finish
<1>0. /\ req # None /\ req.type = "upload" /\ req' = None
      /\ req \in Request /\ req.path \in Paths /\ req.path \notin Folders
  BY SessionsAssumption DEF UploadDone, Inv, TypeOK, Paths
<1>1. /\ UploadJob = [target |-> req.path, offer |-> req.offer] /\ UploadJob' = None
      /\ UploadJob # None
  <2>1. UploadJob = [target |-> req.path, offer |-> req.offer] /\ UploadJob' = None
    BY <1>0 DEF UploadJob
  <2>2. UploadJob \in [target : Paths, offer : Chunk]
    BY <1>0, <2>1 DEF Request
  <2> QED
    BY <2>1, <2>2, SentinelsAssumption
<1>2. PICK f \in Paths : f = req.path
  BY <1>0
<1>3. /\ ~HasSlot(f)' /\ PointOf(f)' = 0
      /\ \A q \in Paths \ {f} : (HasSlot(q)' <=> HasSlot(q)) /\ PointOf(q)' = PointOf(q)
  <2>1. CASE Matches("upload", f) = {}
    <3>1. table' = table /\ count' = count
      BY <1>2, <2>1 DEF UploadDone, Remove
    <3> QED
      BY <2>1, <3>1 DEF HasSlot, PointOf, Found, Matches, Live
  <2>2. CASE Matches("upload", f) # {}
    <3>1. PICK i \in Matches("upload", f) : TRUE
      BY <2>2
    <3>2. RemoveAt(i)
      BY <1>2, <2>2, FoundIs DEF UploadDone, Remove, Inv
    <3>3. i \in Live /\ \A q \in Paths \ {f} : i \notin Matches("upload", q)
      BY <3>1 DEF Matches
    <3>4. Matches("upload", f)' = {}
      BY <3>2, RemoveFrees
    <3>5. ~HasSlot(f)' /\ PointOf(f)' = 0
      BY <3>4 DEF HasSlot, PointOf
    <3> QED
      BY <3>2, <3>3, <3>5, RemoveKeeps
  <2> QED
    BY <2>1, <2>2
<1>4. Slots' = Slots \ {f}
  BY <1>3 DEF Slots
<1>5. [p \in Paths |-> PointOf(p)]' = [[p \in Paths |-> PointOf(p)] EXCEPT ![f] = 0]
  BY <1>3
<1> QED
  BY <1>1, <1>2, <1>4, <1>5 DEF Resume!Finish

\* Every step of the table is a step of ResumePoints, or none.
LEMMA RefineNext == Inv /\ Inv' /\ [Next]_vars => [Resume!Next]_(Resume!vars)
<1> SUFFICES ASSUME Inv, Inv', [Next]_vars PROVE [Resume!Next]_(Resume!vars)
  OBVIOUS
<1>1. ASSUME NEW p \in Paths, StartUpload(p) PROVE Resume!Next
  BY <1>1, RefineStart DEF Resume!Next
<1>2. ASSUME NEW p \in Paths, UploadMkdirFails(p) PROVE [Resume!Next]_(Resume!vars)
  BY <1>2, RefineReserve DEF Resume!Next
<1>3. ASSUME NEW p \in Paths, StartDownload(p) PROVE UNCHANGED Resume!vars
  BY <1>3, RefineDownload
<1>4. ASSUME NEW k \in Chunk, UploadInterrupted(k) PROVE Resume!Next
  BY <1>4, RefineInterrupt DEF Resume!Next
<1>5. ASSUME NEW k \in Chunk, DownloadInterrupted(k) PROVE UNCHANGED Resume!vars
  BY <1>5, RefineDownload
<1>6. CASE UploadDone
  BY <1>6, RefineFinish DEF Resume!Next
<1>7. CASE DownloadDone
  BY <1>7, RefineDownload
<1>8. CASE Restart
  BY <1>8, RefineRestart DEF Resume!Next
<1>9. CASE UNCHANGED vars
  BY <1>9 DEF vars, Resume!vars, Slots, HasSlot, PointOf, UploadJob, Found, Matches, Live
<1> QED
  BY <1>1, <1>2, <1>3, <1>4, <1>5, <1>6, <1>7, <1>8, <1>9 DEF Next

\* The session table implements one resume point per file, for any capacity.
THEOREM ImplementsResumePoints == Spec => KeepsResumePoints
BY RefineInit, RefineNext, TableInvariant, PTL DEF Spec, KeepsResumePoints, Resume!Spec
=============================================================================
