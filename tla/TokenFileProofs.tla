-------------------------- MODULE TokenFileProofs ---------------------------
(***************************************************************************)
(* Proofs about TokenFile, for any number of processes and tokens.         *)
(*                                                                         *)
(* The properties are about the server's users; they hold because of what  *)
(* the processes carry.  CarriedIsSaved says that a token in a message is  *)
(* the one in the file or one that could not be written, and OneCreator    *)
(* that a process which is about to write is the only one and finds the    *)
(* file still empty: its write cannot replace a token somebody has read.   *)
(***************************************************************************)
EXTENDS TokenFile, TLAPS

\* At most one process has created the file and not written it yet.
OneCreator ==
    \A p \in Procs : procs[p].pc = "created" =>
        file = Empty /\ \A q \in Procs : procs[q].pc = "created" => q = p

CarriedIsSaved ==
    \A p \in Procs : procs[p].tok \in Tokens =>
        procs[p].tok \in used /\ (procs[p].tok = file \/ procs[p].tok \in unsaved)

\* The message of the auth command is zeroed before the token is loaded.
AuthIsZeroed == \A p \in Procs : procs[p].cmd = "auth" => procs[p].tok # Junk

\* The file a process has opened to read is not removed.
OpenedIsThere == \A p \in Procs : procs[p].pc = "read" => file # Absent

\* The inductive invariant.
Inv ==
    /\ TypeOK
    /\ file \in Tokens => file \in used
    /\ OneCreator
    /\ CarriedIsSaved
    /\ AuthIsZeroed
    /\ OpenedIsThere
    /\ RegisteredIsSaved
    /\ Null \notin served

LEMMA InitInv == Init => Inv
BY TokenFileAssumption
DEF Init, Inv, TypeOK, Off, Message, Commands, OneCreator, CarriedIsSaved, AuthIsZeroed,
    OpenedIsThere, RegisteredIsSaved

\* A step that only moves one process on keeps what is said of the others.
LEMMA RunInv ==
    ASSUME Inv, NEW p \in Procs, Run(p) \/ NoHome(p) \/ Ends(p) \/ Open(p)
    PROVE  Inv'
BY TokenFileAssumption
DEF Inv, TypeOK, Run, NoHome, Ends, Open, Off, Message, Commands, OneCreator,
    CarriedIsSaved, AuthIsZeroed, OpenedIsThere, RegisteredIsSaved

LEMMA CreateInv == ASSUME Inv, NEW p \in Procs, Create(p) PROVE Inv'
BY TokenFileAssumption
DEF Inv, TypeOK, Create, Creates, Message, Commands, OneCreator, CarriedIsSaved,
    AuthIsZeroed, OpenedIsThere, RegisteredIsSaved

\* The file is empty until the only creator writes it, so no token is replaced.
LEMMA WriteInv == ASSUME Inv, NEW p \in Procs, Write(p) PROVE Inv'
<1>1. PICK t \in Tokens \ used :
        /\ used' = used \cup {t}
        /\ procs' = [procs EXCEPT ![p].pc = "send", ![p].tok = t]
        /\ \/ file' = t /\ unsaved' = unsaved
           \/ file' = file /\ unsaved' = unsaved \cup {t}
  BY DEF Write
<1>2. file = Empty /\ \A q \in Procs : procs[q].pc = "created" => q = p
  BY DEF Inv, OneCreator, Write
<1>3. users' = users /\ served' = served
  BY DEF Write
<1>4. TypeOK'
  BY <1>1, <1>3 DEF Inv, TypeOK, Message
<1>5. OneCreator'
  BY <1>1, <1>2 DEF Inv, TypeOK, OneCreator
<1>6. CarriedIsSaved'
  BY <1>1, <1>2, TokenFileAssumption DEF Inv, TypeOK, CarriedIsSaved
<1>7. AuthIsZeroed'
  BY <1>1, TokenFileAssumption DEF Inv, TypeOK, AuthIsZeroed
<1>8. RegisteredIsSaved'
  BY <1>1, <1>2, <1>3, TokenFileAssumption DEF Inv, TypeOK, RegisteredIsSaved
<1>9. file' \in Tokens => file' \in used'
  BY <1>1, <1>2, TokenFileAssumption
<1>10. OpenedIsThere'
  BY <1>1, <1>2, TokenFileAssumption DEF Inv, TypeOK, OpenedIsThere
<1> QED BY <1>3, <1>4, <1>5, <1>6, <1>7, <1>8, <1>9, <1>10 DEF Inv

LEMMA ReadInv == ASSUME Inv, NEW p \in Procs, Read(p) PROVE Inv'
<1>1. procs' = [procs EXCEPT ![p].pc = "send",
                             ![p].tok = IF file = Empty THEN @ ELSE file]
  BY DEF Read
<1>2. file' = file /\ used' = used /\ unsaved' = unsaved /\ users' = users
      /\ served' = served
  BY DEF Read
<1>3. file # Empty => file \in Tokens
  BY DEF Inv, TypeOK, OpenedIsThere, Read
<1>4. TypeOK'
  <2>1. /\ procs[p] \in [pc : {"off", "load", "created", "read", "send"},
                          cmd : Commands, tok : Message]
        /\ (IF file = Empty THEN procs[p].tok ELSE file) \in Message
    BY <1>3 DEF Inv, TypeOK, Message
  <2>2. procs' \in [Procs -> [pc : {"off", "load", "created", "read", "send"},
                              cmd : Commands, tok : Message]]
    BY <1>1, <2>1 DEF Inv, TypeOK
  <2>3. QED
    BY <1>2, <2>2 DEF Inv, TypeOK
<1>5. CarriedIsSaved'
  BY <1>1, <1>2, <1>3 DEF Inv, TypeOK, CarriedIsSaved
<1>6. AuthIsZeroed'
  BY <1>1, <1>3, TokenFileAssumption DEF Inv, TypeOK, AuthIsZeroed
<1>7. OneCreator' /\ OpenedIsThere'
  BY <1>1, <1>2 DEF Inv, TypeOK, OneCreator, OpenedIsThere
<1> QED
  BY <1>2, <1>4, <1>5, <1>6, <1>7 DEF Inv, RegisteredIsSaved

\* The server registers what the message carries, never an uninitialised token.
LEMMA AuthInv == ASSUME Inv, NEW p \in Procs, Auth(p) PROVE Inv'
BY TokenFileAssumption
DEF Inv, TypeOK, Auth, Off, Message, Commands, OneCreator, CarriedIsSaved, AuthIsZeroed,
    OpenedIsThere, RegisteredIsSaved

LEMMA RequestInv == ASSUME Inv, NEW p \in Procs, Request(p) PROVE Inv'
BY TokenFileAssumption
DEF Inv, TypeOK, Request, Accepts, Off, Message, Commands, OneCreator, CarriedIsSaved,
    AuthIsZeroed, OpenedIsThere, RegisteredIsSaved

\* Inv holds in every reachable state.
THEOREM TokenInvariant == Spec => []Inv
<1>1. ASSUME Inv, [Next]_vars PROVE Inv'
  <2>1. CASE UNCHANGED vars
    BY <1>1, <2>1
    DEF vars, Inv, TypeOK, OneCreator, CarriedIsSaved, AuthIsZeroed, OpenedIsThere,
        RegisteredIsSaved
  <2>2. CASE Next
    BY <1>1, <2>2, RunInv, CreateInv, WriteInv, ReadInv, AuthInv, RequestInv DEF Next
  <2> QED BY <1>1, <2>1, <2>2
<1> QED BY <1>1, InitInv, PTL DEF Spec

\* The token file, the commands and the server's users keep their types.
THEOREM TypeCorrect == Spec => []TypeOK
BY TokenInvariant, PTL DEF Inv

\* A registered user is the one the token file names, or one whose token could not be
\* written, whichever commands ran at the same time or were killed in load_token.
THEOREM RegisteredUserIsSaved == Spec => []RegisteredIsSaved
BY TokenInvariant, PTL DEF Inv

\* No two commands are served as different users, but for a token that was not written.
THEOREM OneUser == Spec => []OneUserServed
<1>1. Inv => OneUserServed
  BY DEF Inv, TypeOK, RegisteredIsSaved, OneUserServed
<1> QED BY <1>1, TokenInvariant, PTL

\* No request is served for the null token or an uninitialised one.
THEOREM RealUsersOnly == Spec => []OnlyRealUsersServed
<1>1. Inv => OnlyRealUsersServed
  BY DEF Inv, TypeOK, OnlyRealUsersServed
<1> QED BY <1>1, TokenInvariant, PTL
=============================================================================
