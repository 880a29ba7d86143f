----------------------------- MODULE TokenFile ------------------------------
(***************************************************************************)
(* The identity of a user: the token file that the commands of client.c    *)
(* share (load_token), and what the server takes their tokens for.         *)
(* Commands are processes that may run at the same time and be killed at   *)
(* any point; creating the file and writing the token into it are two      *)
(* steps.                                                                  *)
(*                                                                         *)
(* A command that cannot read a token goes on with what its Message held:  *)
(* zeros (auth, upload, mkdir) or what was on the stack (download, ls,     *)
(* rm).                                                                    *)
(***************************************************************************)
CONSTANTS
    Procs,    \* client processes
    Tokens,   \* what uuid_generate may return
    Null,     \* the token of zeros
    Junk,     \* an uninitialised token
    Absent,   \* no token file
    Empty     \* a token file without a token

ASSUME TokenFileAssumption ==
    /\ Null \notin Tokens \cup {Junk}
    /\ Junk \notin Tokens
    /\ Absent \notin Tokens \cup {Empty}
    /\ Empty \notin Tokens

VARIABLES
    file,     \* the token file
    procs,    \* the running commands: next step, command and token in the message
    used,     \* tokens generated so far
    unsaved,  \* tokens whose write failed
    users,    \* tokens the server has registered
    served    \* tokens the server has served a request other than AUTH for

vars == <<file, procs, used, unsaved, users, served>>

Commands == {"auth", "zeroed", "raw"}
Message == Tokens \cup {Null, Junk}

TypeOK ==
    /\ file \in Tokens \cup {Absent, Empty}
    /\ procs \in [Procs -> [pc : {"off", "load", "created", "read", "send"},
                            cmd : Commands, tok : Message]]
    /\ used \subseteq Tokens
    /\ unsaved \subseteq used
    /\ users \subseteq used \cup {Null}
    /\ served \subseteq users

Off == [pc |-> "off", cmd |-> "auth", tok |-> Null]

Init ==
    /\ file = Absent
    /\ procs = [p \in Procs |-> Off]
    /\ used = {} /\ unsaved = {} /\ users = {} /\ served = {}
-----------------------------------------------------------------------------
(* The commands and load_token *)

\* Message msg = { 0 } or Message msg.
Run(p) ==
    /\ procs[p].pc = "off"
    /\ \E cmd \in Commands :
          procs' = [procs EXCEPT ![p] = [pc |-> "load", cmd |-> cmd,
                                         tok |-> IF cmd = "raw" THEN Junk ELSE Null]]
    /\ UNCHANGED <<file, used, unsaved, users, served>>

\* Neither XDG_STATE_HOME nor HOME is set: load_token returns 1, which is no error
\* to the commands.
NoHome(p) ==
    /\ procs[p].pc = "load"
    /\ procs' = [procs EXCEPT ![p].pc = "send"]
    /\ UNCHANGED <<file, used, unsaved, users, served>>

\* The file cannot be opened, or the process is killed.
Ends(p) ==
    /\ procs[p].pc # "off"
    /\ procs' = [procs EXCEPT ![p] = Off]
    /\ UNCHANGED <<file, used, unsaved, users, served>>

\* Mutant: open without O_EXCL, which empties a file that is there.
CreatesAnyway(p) == procs[p].pc = "load" /\ file' = Empty

\* Mutant: a file without a token counts as missing.
CreatesOverEmpty(p) == procs[p].pc = "load" /\ file \in {Absent, Empty} /\ file' = Empty

\* open(O_CREAT | O_EXCL) makes the file.
Creates(p) == procs[p].pc = "load" /\ file = Absent /\ file' = Empty

Create(p) ==
    /\ Creates(p)
    /\ procs' = [procs EXCEPT ![p].pc = "created"]
    /\ UNCHANGED <<used, unsaved, users, served>>

\* uuid_generate and write, whose result nobody looks at.
Write(p) ==
    /\ procs[p].pc = "created"
    /\ \E t \in Tokens \ used :
          /\ used' = used \cup {t}
          /\ procs' = [procs EXCEPT ![p].pc = "send", ![p].tok = t]
          /\ \/ file' = t /\ UNCHANGED unsaved
             \/ UNCHANGED file /\ unsaved' = unsaved \cup {t}
    /\ UNCHANGED <<users, served>>

\* EEXIST: the file is opened to read it.
Open(p) ==
    /\ procs[p].pc = "load"
    /\ file # Absent
    /\ procs' = [procs EXCEPT ![p].pc = "read"]
    /\ UNCHANGED <<file, used, unsaved, users, served>>

\* read and uuid_parse: without a token in the file the message keeps its own.
Read(p) ==
    /\ procs[p].pc = "read"
    /\ procs' = [procs EXCEPT ![p].pc = "send", ![p].tok = IF file = Empty THEN @ ELSE file]
    /\ UNCHANGED <<file, used, unsaved, users, served>>
-----------------------------------------------------------------------------
(* The request as the server takes it *)

\* handle_auth registers whatever token is sent.
Auth(p) ==
    /\ procs[p].pc = "send"
    /\ procs[p].cmd = "auth"
    /\ users' = users \cup {procs[p].tok}
    /\ procs' = [procs EXCEPT ![p] = Off]
    /\ UNCHANGED <<file, used, unsaved, served>>

\* Mutant: a request with a null token is not refused.
AcceptsRegistered(t) == t \in users

\* on_client_message_received and the handlers: not the null token, and a known user.
Accepts(t) == t # Null /\ t \in users

Request(p) ==
    /\ procs[p].pc = "send"
    /\ procs[p].cmd # "auth"
    /\ served' = IF Accepts(procs[p].tok) THEN served \cup {procs[p].tok} ELSE served
    /\ procs' = [procs EXCEPT ![p] = Off]
    /\ UNCHANGED <<file, used, unsaved, users>>
-----------------------------------------------------------------------------
Next == \E p \in Procs :
    \/ Run(p) \/ NoHome(p) \/ Ends(p)
    \/ Create(p) \/ Write(p) \/ Open(p) \/ Read(p)
    \/ Auth(p) \/ Request(p)

Spec == Init /\ [][Next]_vars
-----------------------------------------------------------------------------
(* Properties *)

\* Whatever commands ran at the same time or were killed in load_token, a user the
\* server has registered is the one the token file names, so its files can be found
\* again; a token whose write failed is the only exception.
RegisteredIsSaved == \A t \in users \ {Null} : t = file \/ t \in unsaved

\* All the files a user stores are under one token: two commands are never served
\* as two different users, unless a write of the token failed.
OneUserServed == \A t, u \in served : t = u \/ {t, u} \cap unsaved # {}

\* A command that found no token may register the null user, but no request is ever
\* served for it, nor for an uninitialised token.
OnlyRealUsersServed == served \subseteq Tokens
=============================================================================
