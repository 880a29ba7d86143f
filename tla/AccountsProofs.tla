--------------------------- MODULE AccountsProofs ---------------------------
(***************************************************************************)
(* Theorems about Accounts, for every set of tokens, every hash function   *)
(* and every number of buckets.  The map is only ever appended to while    *)
(* the process lives, so what is looked up once stays found, and the first *)
(* entry of a chain, whose value umap_get returns, never changes; a        *)
(* directory is known, or uman_init has not come to it (yet, or at all).   *)
(***************************************************************************)
EXTENDS Accounts, TLAPS

\* A directory uman_init has not read is the only kind whose user is unknown, while it
\* reads and afterwards.
LoadedSoFar == \A t \in dirs : Known(t) \/ Unread(t)

IInv == TypeOK /\ LoadedSoFar

\* Sequences over a set are sequences over a larger one.
LEMMA SeqMonotone ==
    ASSUME NEW A, NEW B, A \subseteq B
    PROVE  Seq(A) \subseteq Seq(B)
<1> SUFFICES ASSUME NEW s \in Seq(A)
             PROVE  s \in Seq(B)
    OBVIOUS
<1>1. Len(s) \in Nat /\ s = [i \in 1..Len(s) |-> s[i]]
    OBVIOUS
<1>2. \A i \in 1..Len(s) : s[i] \in B
    OBVIOUS
<1> QED
    BY <1>1, <1>2

\* A sequence that is not empty has a first element.
LEMMA FirstElement ==
    ASSUME NEW S, NEW s \in Seq(S), s # <<>>
    PROVE  s[1] \in S
<1>1. Len(s) \in Nat /\ Len(s) # 0
    OBVIOUS
<1>2. 1 \in 1..Len(s)
    BY <1>1
<1> QED
    BY <1>2

\* umap_get answers with a User exactly when the key is in the chain.
LEMMA KnownIsInChain ==
    ASSUME TypeOK, NEW t \in Tokens
    PROVE  Known(t) <=> \E i \in 1..Len(entries[Hash[t]]) : entries[Hash[t]][i].key = t
<1>1. Hash[t] \in Buckets
    BY AccountsAssumption
<1>2. entries[Hash[t]] \in Seq([key : Keys, user : 1..Len(users)])
    BY <1>1 DEF TypeOK
<1>3. ASSUME entries[Hash[t]] # <<>>
      PROVE  entries[Hash[t]][1].user # 0
  <2>1. entries[Hash[t]][1] \in [key : Keys, user : 1..Len(users)]
      BY <1>2, <1>3, FirstElement
  <2>2. Len(users) \in Nat
      BY DEF TypeOK
  <2> QED
      BY <2>1, <2>2
<1> QED
    BY <1>2, <1>3 DEF Known, UmapGet, NoUser

\* umap_put keeps the shape of the map, loses no key, leaves the first entry of a
\* chain alone and makes the key it is given known.
LEMMA PutAppends ==
    ASSUME TypeOK, NEW t \in Keys, Register(t)
    PROVE  /\ users' \in Seq([token : Keys, used : Nat])
           /\ entries' \in [Buckets -> Seq([key : Keys, user : 1..Len(users')])]
           /\ \A b \in Buckets : \/ entries'[b] = entries[b]
                                 \/ \E e : entries'[b] = Append(entries[b], e)
           /\ \E i \in 1..Len(entries'[Hash[t]]) : entries'[Hash[t]][i].key = t
<1> DEFINE e == [key |-> t, user |-> Len(users) + 1]
           chain == entries[Hash[t]]
<1>1. Hash[t] \in Buckets
    BY AccountsAssumption DEF Keys
<1>2. /\ users' \in Seq([token : Keys, used : Nat])
      /\ Len(users) \in Nat
      /\ Len(users') = Len(users) + 1
    BY DEF TypeOK, Register
<1>3. e \in [key : Keys, user : 1..Len(users')]
    BY <1>2
<1>4. entries \in [Buckets -> Seq([key : Keys, user : 1..Len(users')])]
  <2>1. 1..Len(users) \subseteq 1..Len(users')
      BY <1>2
  <2>2. Seq([key : Keys, user : 1..Len(users)]) \subseteq Seq([key : Keys, user : 1..Len(users')])
    <3>1. [key : Keys, user : 1..Len(users)] \subseteq [key : Keys, user : 1..Len(users')]
        BY <2>1
    <3> QED
        BY <3>1, SeqMonotone
  <2> QED
      BY <2>2 DEF TypeOK
<1>5. chain \in Seq([key : Keys, user : 1..Len(users')])
    BY <1>1, <1>4
<1>6. CASE chain # <<>> /\ chain[1].key = t
  <2>1. entries' = entries
      BY <1>6 DEF Register, UmapPut
  <2>2. 1 \in 1..Len(chain)
      BY <1>5, <1>6
  <2> QED
      BY <1>2, <1>4, <1>6, <2>1, <2>2
<1>7. CASE ~(chain # <<>> /\ chain[1].key = t)
  <2>1. entries' = [entries EXCEPT ![Hash[t]] = Append(chain, e)]
      BY <1>7 DEF Register, UmapPut
  <2>2. Append(chain, e) \in Seq([key : Keys, user : 1..Len(users')])
      BY <1>3, <1>5
  <2>3. entries' \in [Buckets -> Seq([key : Keys, user : 1..Len(users')])]
      BY <1>4, <2>1, <2>2
  <2>4. entries'[Hash[t]] = Append(chain, e)
      BY <1>1, <1>4, <2>1
  <2>5. \A b \in Buckets : b # Hash[t] => entries'[b] = entries[b]
      BY <1>4, <2>1
  <2>6. /\ Len(chain) + 1 \in 1..Len(Append(chain, e))
        /\ Append(chain, e)[Len(chain) + 1].key = t
      BY <1>5
  <2> QED
      BY <1>2, <2>3, <2>4, <2>5, <2>6
<1> QED
    BY <1>6, <1>7

\* Registering anyone keeps every known user known, with the same User object.
LEMMA RegisterKeepsKnown ==
    ASSUME TypeOK, TypeOK', NEW k \in Keys, Register(k), NEW t \in Tokens, Known(t)
    PROVE  Known(t)' /\ UmapGet(t)' = UmapGet(t)
<1>1. Hash[t] \in Buckets
    BY AccountsAssumption
<1>2. PICK i \in 1..Len(entries[Hash[t]]) : entries[Hash[t]][i].key = t
    BY KnownIsInChain
<1>3. entries[Hash[t]] \in Seq([key : Keys, user : 1..Len(users)])
    BY <1>1 DEF TypeOK
<1>4. /\ i \in 1..Len(entries'[Hash[t]])
      /\ entries'[Hash[t]][i] = entries[Hash[t]][i]
      /\ entries'[Hash[t]][1] = entries[Hash[t]][1]
  <2>1. CASE entries'[Hash[t]] = entries[Hash[t]]
      BY <2>1
  <2>2. CASE \E e : entries'[Hash[t]] = Append(entries[Hash[t]], e)
      BY <1>3, <2>2
  <2> QED
      BY <1>1, <2>1, <2>2, PutAppends
<1>5. UmapGet(t)' = entries'[Hash[t]][1].user
    BY <1>2, <1>4 DEF UmapGet
<1>6. UmapGet(t) = entries[Hash[t]][1].user
    BY <1>2 DEF UmapGet
<1> QED
    BY <1>4, <1>5, <1>6 DEF Known

\* Every step keeps the types.
LEMMA TypeInductive == TypeOK /\ [Next]_vars => TypeOK'
<1> SUFFICES ASSUME TypeOK, [Next]_vars
             PROVE  TypeOK'
    OBVIOUS
<1>1. ASSUME NEW t \in Tokens, Auth(t)
      PROVE  TypeOK'
  <2>1. t \in Keys
      BY DEF Keys
  <2> QED
      BY <1>1, <2>1, PutAppends DEF TypeOK, Auth
<1>2. ASSUME NEW t \in Tokens, NEW f \in Files, Upload(t, f)
      PROVE  TypeOK'
    BY <1>2 DEF TypeOK, Upload, UploadTo, heapVars
<1>3. ASSUME NEW t \in Tokens, UploadBareName(t)
      PROVE  TypeOK'
    BY <1>3 DEF TypeOK, UploadBareName, UploadTo, heapVars
<1>4. ASSUME NEW t \in Tokens, NEW d \in Folders, Mkdir(t, d)
      PROVE  TypeOK'
    BY <1>4 DEF TypeOK, Mkdir, heapVars
<1>5. ASSUME NEW t \in Tokens, NEW x \in Files \cup Folders, Remove(t, x)
      PROVE  TypeOK'
    BY <1>5 DEF TypeOK, Remove, heapVars
<1>6. ASSUME NEW t \in Tokens, RemoveRoot(t)
      PROVE  TypeOK'
    BY <1>6 DEF TypeOK, RemoveRoot, heapVars
<1>7. ASSUME NEW name \in todo, Load(name)
      PROVE  TypeOK'
  <2>1. slot' \in Keys
      BY <1>7 DEF TypeOK, Load, Name, Keys
  <2>2. /\ users' \in Seq([token : Keys, used : Nat])
        /\ entries' \in [Buckets -> Seq([key : Keys, user : 1..Len(users')])]
      BY <1>7, <2>1, PutAppends DEF Load
  <2> QED
      BY <1>7, <2>1, <2>2 DEF TypeOK, Load, diskVars
<1>8. CASE Loaded \/ LoadFails
    BY <1>8 DEF TypeOK, Loaded, LoadFails, heapVars, diskVars
<1>9. CASE Crash
  <2>1. entries' \in [Buckets -> Seq([key : Keys, user : 1..Len(users')])]
      BY <1>9 DEF Crash, StartEmpty
  <2>2. users' \in Seq([token : Keys, used : Nat])
      BY <1>9 DEF Crash, StartEmpty
  <2>3. todo' \subseteq Name
      BY <1>9 DEF Crash, StartEmpty, NamesOnDisk, Name, TypeOK
  <2>4. slot' \in Keys /\ phase' \in {"loading", "serving"}
      BY <1>9 DEF Crash, StartEmpty, Keys
  <2> QED
      BY <1>9, <2>1, <2>2, <2>3, <2>4 DEF Crash, diskVars, TypeOK
<1>10. CASE UNCHANGED vars
    BY <1>10 DEF TypeOK, vars, heapVars, diskVars
<1> QED
    BY <1>1, <1>2, <1>3, <1>4, <1>5, <1>6, <1>7, <1>8, <1>9, <1>10 DEF Next, Request

\* The initial state has the types.
LEMMA TypeInitial == Init => TypeOK
    BY DEF Init, TypeOK, Keys

\* The map, the directories and uman_init's locals keep their types.
THEOREM TypeCorrect == Spec => []TypeOK
    BY TypeInitial, TypeInductive, PTL DEF Spec

\* A request or a loaded name leaves every known user known, with the same object.
LEMMA ServingKeepsKnown ==
    ASSUME TypeOK, [Next]_vars, ~Crash, NEW t \in Tokens, Known(t)
    PROVE  Known(t)' /\ UmapGet(t)' = UmapGet(t)
<1>1. TypeOK'
    BY TypeInductive
<1>2. CASE \E k \in Keys : Register(k)
    BY <1>1, <1>2, RegisterKeepsKnown
<1>3. CASE entries' = entries
    BY <1>3 DEF Known, UmapGet
<1>4. (\E k \in Keys : Register(k)) \/ entries' = entries
  <2>1. ASSUME NEW k \in Tokens, Request(k)
        PROVE  (\E j \in Keys : Register(j)) \/ entries' = entries
      BY <2>1 DEF Request, Auth, Upload, UploadBareName, UploadTo, Mkdir, Remove, RemoveRoot,
                  heapVars, Keys
  <2>2. ASSUME NEW name \in todo, Load(name)
        PROVE  \E j \in Keys : Register(j)
    <3>1. slot' \in Keys
        BY <1>1 DEF TypeOK
    <3> QED
        BY <2>2, <3>1 DEF Load
  <2>3. CASE Loaded \/ LoadFails \/ UNCHANGED vars
      BY <2>3 DEF Loaded, LoadFails, vars, heapVars
  <2> QED
      BY <2>1, <2>2, <2>3 DEF Next
<1> QED
    BY <1>2, <1>3, <1>4

\* SameUserObject: while the process lives, the User object that umap_get returns for
\* a token is the same, whoever registers again and whichever tokens collide.
THEOREM ObjectIsStable == Spec => SameUserObject
<1>1. TypeOK /\ [Next]_vars =>
          [StartEmpty \/ \A t \in Tokens : Known(t) => UmapGet(t)' = UmapGet(t)]_vars
    BY ServingKeepsKnown DEF Crash
<1> QED
    BY <1>1, TypeCorrect, PTL DEF Spec, SameUserObject

\* Registering a token makes it known.
LEMMA RegisteredIsKnown ==
    ASSUME TypeOK, TypeOK', NEW t \in Tokens, Register(t)
    PROVE  Known(t)'
<1>1. t \in Keys
    BY DEF Keys
<1>2. PICK i \in 1..Len(entries'[Hash[t]]) : entries'[Hash[t]][i].key = t
    BY <1>1, PutAppends
<1>3. entries'[Hash[t]] \in Seq([key : Keys, user : 1..Len(users')])
    BY AccountsAssumption DEF TypeOK
<1>4. entries'[Hash[t]] # <<>>
    BY <1>2
<1>5. entries'[Hash[t]][1] \in [key : Keys, user : 1..Len(users')]
    BY <1>3, <1>4, FirstElement
<1>6. Len(users') \in Nat
    BY DEF TypeOK
<1>7. entries'[Hash[t]][1].user # 0
    BY <1>5, <1>6
<1> QED
    BY <1>2, <1>7 DEF Known, UmapGet, NoUser

\* Every step keeps the directories read so far known.
LEMMA LoadedInductive == IInv /\ [Next]_vars => IInv'
<1> SUFFICES ASSUME TypeOK, LoadedSoFar, [Next]_vars
             PROVE  LoadedSoFar'
    BY TypeInductive DEF IInv
<1>1. TypeOK'
    BY TypeInductive
<1>2. ASSUME NEW t \in Tokens, Auth(t)
      PROVE  LoadedSoFar'
  <2>1. ~Crash => \A d \in dirs : Known(d) => Known(d)'
      BY ServingKeepsKnown DEF TypeOK
  <2>2. ~Crash
      BY <1>2 DEF Auth, Crash, StartEmpty
  <2>3. Known(t)'
      BY <1>1, <1>2, RegisteredIsKnown DEF Auth
  <2> QED
      BY <1>2, <2>1, <2>2, <2>3 DEF Auth, LoadedSoFar, Unread
<1>3. ASSUME NEW t \in Tokens, UploadTo(t)
      PROVE  LoadedSoFar'
    BY <1>3 DEF UploadTo, heapVars, LoadedSoFar, Known, UmapGet, Unread
<1>4. ASSUME UNCHANGED <<heapVars, todo, phase>>, dirs' \subseteq dirs
      PROVE  LoadedSoFar'
    BY <1>4 DEF heapVars, LoadedSoFar, Known, UmapGet, Unread
<1>5. ASSUME NEW name \in todo, Load(name)
      PROVE  LoadedSoFar'
  <2>1. ~Crash
      BY <1>5 DEF Load, Register, Crash, StartEmpty, TypeOK
  <2>2. \A d \in dirs : Known(d) => Known(d)'
      BY <2>1, ServingKeepsKnown DEF TypeOK
  <2>3. ASSUME NEW d \in dirs, [token |-> d, isUuid |-> TRUE] = name
        PROVE  Known(d)'
    <3>1. d \in Tokens
        BY DEF TypeOK
    <3>2. Register(d)
        BY <1>5, <2>3 DEF Load
    <3> QED
        BY <1>1, <3>1, <3>2, RegisteredIsKnown
  <2>4. phase' = "loading" /\ dirs' = dirs /\ todo' = todo \ {name}
      BY <1>5 DEF Load, diskVars
  <2> QED
      BY <2>2, <2>3, <2>4 DEF LoadedSoFar, Unread
<1>6. CASE Loaded \/ LoadFails
    BY <1>6 DEF Loaded, LoadFails, heapVars, diskVars, LoadedSoFar, Known, UmapGet, Unread
<1>7. CASE Crash
  <2>1. phase' = "loading" /\ todo' = NamesOnDisk /\ dirs' = dirs
      BY <1>7 DEF Crash, StartEmpty, diskVars
  <2>2. \A d \in dirs : [token |-> d, isUuid |-> TRUE] \in NamesOnDisk
      BY DEF NamesOnDisk
  <2> QED
      BY <2>1, <2>2 DEF LoadedSoFar, Unread
<1>8. ASSUME NEW t \in Tokens, Request(t)
      PROVE  LoadedSoFar'
  <2>1. CASE Auth(t) \/ UploadTo(t)
      BY <1>2, <1>3, <2>1
  <2>2. CASE \/ \E d \in Folders : Mkdir(t, d)
             \/ \E x \in Files \cup Folders : Remove(t, x)
             \/ RemoveRoot(t)
    <3>1. UNCHANGED <<heapVars, todo, phase>> /\ dirs' \subseteq dirs
        BY <2>2 DEF Mkdir, Remove, RemoveRoot
    <3> QED
        BY <1>4, <3>1
  <2> QED
      BY <1>8, <2>1, <2>2 DEF Request, Upload, UploadBareName
<1>9. CASE UNCHANGED vars
    BY <1>4, <1>9 DEF vars, diskVars
<1> QED
    BY <1>5, <1>6, <1>7, <1>8, <1>9 DEF Next

\* DirectoriesAreKnown: a server that serves knows every user with a directory in
\* STORAGE_DIR that uman_init came to, in whichever order it read them, whatever it read
\* besides, wherever it stopped, and every user whose directory was made since.
THEOREM EveryDirectoryHasItsUser == Spec => []DirectoriesAreKnown
<1>1. Init => IInv
    BY TypeInitial DEF IInv, Init, LoadedSoFar
<1>2. IInv => DirectoriesAreKnown
    BY DEF IInv, LoadedSoFar, DirectoriesAreKnown
<1> QED
    BY <1>1, <1>2, LoadedInductive, PTL DEF Spec
=============================================================================
