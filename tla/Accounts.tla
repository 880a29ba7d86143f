------------------------------ MODULE Accounts ------------------------------
(***************************************************************************)
(* The users the server knows: the hash map from tokens to User objects    *)
(* (user_map.c, user_manager.c, user.c), the directories in STORAGE_DIR it *)
(* is loaded from when the server starts, and the requests that change     *)
(* either: AUTH, UPLOAD, MKDIR and REMOVE (server.c).  The server handles  *)
(* one request at a time, so a request is one step; the transfer inside an *)
(* UPLOAD is the subject of Upload and is taken here to complete.  A       *)
(* request that is refused changes nothing and is not a step.              *)
(*                                                                         *)
(* umap_put leaves the next pointer of a new entry uninitialised.  The     *)
(* model takes it to be NULL, as in fresh heap memory; when it is not, the *)
(* process dies walking the chain, which is the step Crash.                *)
(***************************************************************************)
EXTENDS Naturals, Sequences, FiniteSets

CONSTANTS
    Tokens,      \* the tokens of the clients
    Junk,        \* what an uninitialised uuid_t holds: no client's token
    Buckets,     \* the indices of UserMap.entries
    Hash,        \* umap_key_to_index
    Files,       \* names of files, the same for every user
    Folders,     \* names of directories that MKDIR makes
    Size,        \* the size of each file
    TotalSpace,  \* MAX_USER_SPACE, in the unit of Size
    MaxUsers     \* bound on the User objects one process allocates

ASSUME AccountsAssumption ==
    /\ Junk \notin Tokens
    /\ Hash \in [Tokens \cup {Junk} -> Buckets]
    /\ Files \cap Folders = {}
    /\ Size \in [Files -> Nat]
    /\ TotalSpace \in Nat
    /\ MaxUsers \in Nat

VARIABLES
    entries,  \* UserMap.entries: the chain of each bucket
    users,    \* the User objects on the heap, by order of allocation
    slot,     \* the local uuid_t of uman_init's loop
    todo,     \* names in STORAGE_DIR that uman_init has not read; the server may serve
              \* before it is empty
    phase,    \* "loading" in uman_init, "serving" in the event loop
    dirs,     \* tokens that have a directory in STORAGE_DIR
    strays,   \* tokens t with a file "t(null)" in STORAGE_DIR
    stored    \* what the directory of each token holds

heapVars == <<entries, users, slot>>
diskVars == <<dirs, strays, stored>>
vars == <<heapVars, todo, phase, diskVars>>

Keys == Tokens \cup {Junk}
Name == [token : Tokens, isUuid : BOOLEAN]
NoUser == 0

TypeOK ==
    /\ entries \in [Buckets -> Seq([key : Keys, user : 1..Len(users)])]
    /\ users \in Seq([token : Keys, used : Nat])
    /\ slot \in Keys
    /\ todo \subseteq Name
    /\ phase \in {"loading", "serving"}
    /\ dirs \subseteq Tokens
    /\ strays \subseteq Tokens
    /\ stored \in [Tokens -> SUBSET (Files \cup Folders)]
-----------------------------------------------------------------------------
(* The user map. *)

\* Mutant: only the first entry of the chain is compared.
UmapGetFirst(t) ==
    LET chain == entries[Hash[t]] IN
    IF chain # <<>> /\ chain[1].key = t THEN chain[1].user ELSE NoUser

\* A key found anywhere in the chain gives the value of the chain's first entry.
UmapGet(t) ==
    LET chain == entries[Hash[t]] IN
    IF \E i \in 1..Len(chain) : chain[i].key = t THEN chain[1].user ELSE NoUser

\* Mutant: a new entry is put in front of the chain.
UmapPutFirst(t, u) ==
    LET chain == entries[Hash[t]] IN
    IF chain # <<>> /\ chain[1].key = t
    THEN entries
    ELSE [entries EXCEPT ![Hash[t]] = <<[key |-> t, user |-> u]>> \o chain]

\* Refused when the first entry has the key; a duplicate further down is not seen.
UmapPut(t, u) ==
    LET chain == entries[Hash[t]] IN
    IF chain # <<>> /\ chain[1].key = t
    THEN entries
    ELSE [entries EXCEPT ![Hash[t]] = Append(chain, [key |-> t, user |-> u])]

\* uman_register_user: a new User, whether the map takes it or not.
Register(t) ==
    /\ Len(users) < MaxUsers
    /\ users' = Append(users, [token |-> t, used |-> 0])
    /\ entries' = UmapPut(t, Len(users) + 1)

Known(t) == UmapGet(t) # NoUser
-----------------------------------------------------------------------------
(* Starting the server: uman_init. *)

\* readdir yields the directories of users and the stray files.
NamesOnDisk == [token : dirs, isUuid : {TRUE}] \cup [token : strays, isUuid : {FALSE}]

StartEmpty ==
    /\ entries' = [b \in Buckets |-> <<>>]
    /\ users' = <<>>
    /\ slot' = Junk
    /\ todo' = NamesOnDisk
    /\ phase' = "loading"

Init ==
    /\ entries = [b \in Buckets |-> <<>>]
    /\ users = <<>>
    /\ slot = Junk
    /\ todo = {}
    /\ phase = "serving"
    /\ dirs = {}
    /\ strays = {}
    /\ stored = [t \in Tokens |-> {}]

\* One name: a name that is no UUID leaves the uuid_t as it was, and is registered.
Load(name) ==
    /\ phase = "loading"
    /\ name \in todo
    /\ slot' = IF name.isUuid THEN name.token ELSE slot
    /\ Register(slot')
    /\ todo' = todo \ {name}
    /\ UNCHANGED <<phase, diskVars>>

Loaded ==
    /\ phase = "loading"
    /\ todo = {}
    /\ phase' = "serving"
    /\ UNCHANGED <<heapVars, todo, diskVars>>

\* opendir fails, or readdir returns NULL before the last name: uman_init returns with
\* the users registered so far, and main serves with them.
LoadFails ==
    /\ phase = "loading"
    /\ todo # {}
    /\ phase' = "serving"
    /\ UNCHANGED <<heapVars, todo, diskVars>>

\* The process ends, at any point, and is started again.
Crash == StartEmpty /\ UNCHANGED diskVars
-----------------------------------------------------------------------------
(* Requests. *)

\* handle_auth: the directory is made or not (it is there, or mkdir fails), and the
\* token is registered in either case.
Auth(t) ==
    /\ phase = "serving"
    /\ dirs' \in {dirs, dirs \cup {t}}
    /\ Register(t)
    /\ UNCHANGED <<slot, todo, phase, strays, stored>>

\* A stream request of a known user; handle_upload makes the user's directory again.
UploadTo(t) ==
    /\ phase = "serving"
    /\ Known(t)
    /\ dirs' = dirs \cup {t}
    /\ UNCHANGED <<heapVars, todo, phase>>

Upload(t, f) ==
    /\ UploadTo(t)
    /\ users[UmapGet(t)].used + Size[f] <= TotalSpace
    /\ stored' = [stored EXCEPT ![t] = @ \cup {f}]
    /\ UNCHANGED strays

\* The local name has no '/': strrchr finds none, and the file lands beside the
\* directory, under the token followed by "(null)".
UploadBareName(t) ==
    /\ UploadTo(t)
    /\ strays' = strays \cup {t}
    /\ UNCHANGED stored

\* handle_mkdir: the user's own directory is not made again when it is missing.
Mkdir(t, d) ==
    /\ phase = "serving"
    /\ Known(t)
    /\ t \in dirs
    /\ stored' = [stored EXCEPT ![t] = @ \cup {d}]
    /\ UNCHANGED <<heapVars, todo, phase, dirs, strays>>

\* handle_remove of one name.
Remove(t, x) ==
    /\ phase = "serving"
    /\ Known(t)
    /\ x \in stored[t]
    /\ stored' = [stored EXCEPT ![t] = @ \ {x}]
    /\ UNCHANGED <<heapVars, todo, phase, dirs, strays>>

\* handle_remove of "/": rm_r takes the user's directory with all it holds; the user
\* stays in the map.
RemoveRoot(t) ==
    /\ phase = "serving"
    /\ Known(t)
    /\ t \in dirs
    /\ dirs' = dirs \ {t}
    /\ stored' = [stored EXCEPT ![t] = {}]
    /\ UNCHANGED <<heapVars, todo, phase, strays>>
-----------------------------------------------------------------------------
Request(t) ==
    \/ Auth(t)
    \/ \E f \in Files : Upload(t, f)
    \/ UploadBareName(t)
    \/ \E d \in Folders : Mkdir(t, d)
    \/ \E x \in Files \cup Folders : Remove(t, x)
    \/ RemoveRoot(t)

Next ==
    \/ \E t \in Tokens : Request(t)
    \/ \E name \in todo : Load(name)
    \/ Loaded \/ LoadFails
    \/ Crash

Spec == Init /\ [][Next]_vars
-----------------------------------------------------------------------------
(* Properties. *)

\* uman_init did not come to the directory of this user.
Unread(t) == [token |-> t, isUuid |-> TRUE] \in todo

\* Whatever happened before, a server that serves knows every user that has a
\* directory, but those whose names opendir and readdir did not give it: no other user
\* is told "user not found" about files that are there.  Chains of colliding tokens,
\* restarts, stray names and refused umap_puts included.
DirectoriesAreKnown == phase = "serving" => \A t \in dirs : Known(t) \/ Unread(t)

\* As long as the process lives, the User object a token leads to stays the same,
\* however often the token, or a colliding one, is registered again: the sessions it
\* holds are not lost to a second AUTH_REQ.
SameUserObject ==
    [][StartEmpty \/ \A t \in Tokens : Known(t) => UmapGet(t)' = UmapGet(t)]_vars
=============================================================================
