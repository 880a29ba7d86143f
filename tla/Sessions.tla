------------------------------ MODULE Sessions ------------------------------
(***************************************************************************)
(* The session table of one user (user.c, session.c) as handle_upload and  *)
(* handle_download of server.c use it, for several files.  A handler looks *)
(* its session up or adds one, runs the transfer, and records how far it   *)
(* got or removes the session.  The server serves one request at a time,   *)
(* so handlers do not overlap; the process may die inside one.             *)
(*                                                                         *)
(* The table is an array of Capacity pointers in memory that malloc did    *)
(* not clear.  user_remove_session shifts one element too many: with a     *)
(* full table it swaps sessions[Capacity] too.  The array of the model has *)
(* that element; with a capacity of 10 glibc's malloc(80) has room for it. *)
(***************************************************************************)
EXTENDS Naturals

CONSTANTS
    Files,      \* paths of regular files
    Folders,    \* paths of directories on the server
    RawName,    \* a name as a client typed it: no path on the server
    Capacity,   \* sessions_capacity
    MaxChunks,  \* bound on last_transfered_chunk
    Null,       \* the null pointer
    Garbage,    \* what malloc returned
    None        \* no handler runs

ASSUME SessionsAssumption ==
    /\ Files \cap Folders = {}
    /\ RawName \notin Files \cup Folders
    /\ Capacity \in Nat
    /\ MaxChunks \in Nat

VARIABLES
    table,   \* User.sessions
    count,   \* sessions_count
    req      \* the running handler: type, path, where its session is, resume point sent

vars == <<table, count, req>>

Paths == Files \cup Folders
Cells == 0..Capacity
Nowhere == Capacity + 1      \* a session user_add_session refused: in no cell
Chunk == 0..MaxChunks

State == {"idle", "running", "interrupted"}

\* file_info->filename is the path on the server, except for downloads of directories.
Session == [type : {"upload"}, name : Paths, state : State, last : Chunk]
      \cup [type : {"download"}, name : Files \cup {RawName}, state : State, last : Chunk]

Request == [type : {"upload", "download"}, path : Paths, at : Cells \cup {Nowhere},
            offer : Chunk]

ASSUME SentinelsAssumption ==
    /\ Null \notin Session
    /\ Garbage \notin Session
    /\ None \notin Request
    /\ None \notin [target : Paths, offer : Chunk]

Live == {i \in Cells : i < count}

TypeOK ==
    /\ table \in [Cells -> Session \cup {Null, Garbage}]
    /\ count \in 0..Capacity
    /\ req \in Request \cup {None}
-----------------------------------------------------------------------------
(* user.c and session.c *)

\* session_init
New(type, name) == [type |-> type, name |-> name, state |-> "idle", last |-> 0]

\* Mutant: the search gives up after the first cell.
MatchesFirst(type, path) == {i \in Live : i = 0 /\ table[i].type = type /\ table[i].name = path}

\* Mutant: the type is not compared.
MatchesName(type, path) == {i \in Live : table[i].name = path}

\* The cells whose session has this type and this file name.
Matches(type, path) == {i \in Live : table[i].type = type /\ table[i].name = path}

\* The cell user_get_session and user_remove_session stop at.
Found(type, path) ==
    CHOOSE i \in Matches(type, path) : \A j \in Matches(type, path) : i <= j

\* Mutant: the session is dropped and the gap is not closed.
RemoveLeavesGap(i) ==
    /\ table' = [table EXCEPT ![i] = Null]
    /\ count' = count - 1

\* Mutant: the shift starts one cell too early.
RemoveShiftsEarly(i) ==
    /\ table' = [j \in Cells |-> IF j + 1 < i \/ j > count THEN table[j]
                                 ELSE IF j = count THEN Null ELSE table[j + 1]]
    /\ count' = count - 1

\* user_remove_session: the removed pointer becomes NULL and is swapped with its
\* right neighbour until it has passed the last live cell.
RemoveAt(i) ==
    /\ table' = [j \in Cells |-> IF j < i \/ j > count THEN table[j]
                                 ELSE IF j = count THEN Null ELSE table[j + 1]]
    /\ count' = count - 1

Remove(type, path) ==
    IF Matches(type, path) # {}
    THEN RemoveAt(Found(type, path))
    ELSE UNCHANGED <<table, count>>

\* user_add_session; nobody looks at its result.
Add(s) ==
    IF count < Capacity
    THEN table' = [table EXCEPT ![count] = s] /\ count' = count + 1
    ELSE UNCHANGED <<table, count>>

\* Where a new session is after Add.
AddedAt == IF count < Capacity THEN count ELSE Nowhere
-----------------------------------------------------------------------------
(* handle_upload *)

\* seq, sent in UPLOAD_RES.
Offer(s) == IF s.state = "interrupted" THEN s.last ELSE 0

\* A session is found or made, UPLOAD_RES is sent, the session runs.
StartUpload(p) ==
    /\ req = None
    /\ IF Matches("upload", p) # {}
       THEN LET i == Found("upload", p) IN
            /\ table' = [table EXCEPT ![i].state = "running"]
            /\ req' = [type |-> "upload", path |-> p, at |-> i, offer |-> Offer(table[i])]
            /\ UNCHANGED count
       ELSE /\ Add([New("upload", p) EXCEPT !.state = "running"])
            /\ req' = [type |-> "upload", path |-> p, at |-> AddedAt, offer |-> 0]

\* The user's directory cannot be made: the handler returns with a session found or made.
UploadMkdirFails(p) ==
    /\ req = None
    /\ IF Matches("upload", p) # {} THEN UNCHANGED <<table, count>> ELSE Add(New("upload", p))
    /\ UNCHANGED req

\* Mutant: the state is left as it was.
UploadInterruptedKeepsState(k) ==
    /\ req # None
    /\ req.type = "upload"
    /\ table' = IF req.at \in Cells THEN [table EXCEPT ![req.at].last = k] ELSE table
    /\ req' = None
    /\ UNCHANGED count

\* file_recv returned -1 or -2 after k chunks; a path that is a directory cannot be
\* opened, and k is 0.
UploadInterrupted(k) ==
    /\ req # None
    /\ req.type = "upload"
    /\ req.path \in Folders => k = 0
    /\ table' = IF req.at \in Cells
                THEN [table EXCEPT ![req.at].state = "interrupted", ![req.at].last = k]
                ELSE table
    /\ req' = None
    /\ UNCHANGED count

\* file_recv returned anything else.
UploadDone ==
    /\ req # None
    /\ req.type = "upload"
    /\ req.path \in Files
    /\ Remove("upload", req.path)
    /\ req' = None
-----------------------------------------------------------------------------
(* handle_download *)

\* The session is found by the path on the server; a new one points to the request's
\* FileInfo, whose name fileinfo_from_filename makes that path, unless it is a directory.
StartDownload(p) ==
    /\ req = None
    /\ IF Matches("download", p) # {}
       THEN /\ req' = [type |-> "download", path |-> p, at |-> Found("download", p), offer |-> 0]
            /\ UNCHANGED <<table, count>>
       ELSE /\ Add(New("download", IF p \in Files THEN p ELSE RawName))
            /\ req' = [type |-> "download", path |-> p, at |-> AddedAt, offer |-> 0]

\* file_send failed.
DownloadInterrupted(k) ==
    /\ req # None
    /\ req.type = "download"
    /\ table' = IF req.at \in Cells
                THEN [table EXCEPT ![req.at].state = "interrupted", ![req.at].last = k]
                ELSE table
    /\ req' = None
    /\ UNCHANGED count

\* file_send sent the whole file.  For a directory it opens the name as the client typed
\* it, in the server's working directory, and may succeed when something is there; the
\* session is then looked for under the path on the server, and not found.
DownloadDone ==
    /\ req # None
    /\ req.type = "download"
    /\ Remove("download", req.path)
    /\ req' = None
-----------------------------------------------------------------------------
\* user_init of a server that was started again.
Restart ==
    /\ table' = [i \in Cells |-> Garbage]
    /\ count' = 0
    /\ req' = None

Init ==
    /\ table = [i \in Cells |-> Garbage]
    /\ count = 0
    /\ req = None

Next ==
    \/ \E p \in Paths : StartUpload(p) \/ UploadMkdirFails(p) \/ StartDownload(p)
    \/ \E k \in Chunk : UploadInterrupted(k) \/ DownloadInterrupted(k)
    \/ UploadDone
    \/ DownloadDone
    \/ Restart

Spec == Init /\ [][Next]_vars
-----------------------------------------------------------------------------
(* Properties. *)

\* user_get_session follows every pointer below sessions_count: none of them is NULL
\* or uninitialised, however the removals have shifted the table, full or not.
LiveArePointers == \A i \in Live : table[i] \in Session

\* A lookup has one answer: no two sessions of a type have the same path.  Sessions
\* of downloaded directories, which no lookup finds, are the exception.
OneSessionPerFile ==
    \A i, j \in Live : /\ table[i].type = table[j].type
                       /\ table[i].name = table[j].name
                       /\ table[i].name # RawName
                       => i = j

\* Apart from the one a handler is working with, no session is left running, which
\* would make the next attempt start over, and none belongs to a finished transfer: a
\* slot is held only by a transfer that broke off or never began.  The exception is a
\* finished download of a directory, whose session stays as it was made.
AtRest ==
    \A i \in Live : \/ req # None /\ req.at = i
                    \/ table[i].state = "interrupted"
                    \/ table[i] \in {New("upload", table[i].name), New("download", RawName)}

\* The session a handler works with is still the one it found when it returns.
HandlerInPlace ==
    req # None =>
        IF req.at = Nowhere
        THEN Matches(req.type, req.path) = {}
        ELSE /\ req.at \in Live
             /\ table[req.at].type = req.type
             /\ table[req.at].name = IF req.path \in Folders /\ req.type = "download"
                                     THEN RawName ELSE req.path

\* The upload sessions as resume points.
HasSlot(p) == Matches("upload", p) # {}

Slots == {p \in Paths : HasSlot(p)}

PointOf(p) == IF HasSlot(p) THEN table[Found("upload", p)].last ELSE 0

UploadJob ==
    IF req # None /\ req.type = "upload"
    THEN [target |-> req.path, offer |-> req.offer] ELSE None

Resume == INSTANCE ResumePoints WITH
    Targets <- Paths, Points <- Chunk, Idle <- None,
    slots <- Slots, point <- [p \in Paths |-> PointOf(p)], job <- UploadJob

\* The table implements a resume point per file: an upload is offered what its last
\* interrupted attempt left and nothing else moves it: not other files' uploads and
\* removals, not downloads of the same file, not a full table.
KeepsResumePoints == Resume!Spec
=============================================================================
