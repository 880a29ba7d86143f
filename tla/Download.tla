------------------------------ MODULE Download ------------------------------
(***************************************************************************)
(* The download of one file of one user: cmd_download of the client        *)
(* (client.c) and handle_download of the server (server.c) around the      *)
(* chunk protocol of Transfer.  The server is the sender, the client the   *)
(* receiver.  An attempt resumes from the size of the client's partial     *)
(* file; the server also keeps a session, whose resume point it computes   *)
(* and then overrides.  Between attempts the server's file may be replaced *)
(* by another version.                                                     *)
(*                                                                         *)
(* rPc "wait": the client waits for DOWNLOAD_RES; "done" and "fail":       *)
(* file_recv has returned.  sPc "wait": the request waits for the server's *)
(* event loop; "done" and "fail": file_send has returned.                  *)
(***************************************************************************)
EXTENDS Transfer, Integers

CONSTANTS
    NoSess,        \* the user has no download session for the file
    TableFull,     \* whether the user's table may be full of other sessions
    ServerFaults,  \* whether the user, the path or the file may be unknown
    Replaceable    \* whether the server's file is replaced between attempts

ASSUME DownloadAssumption ==
    TableFull \in BOOLEAN /\ ServerFaults \in BOOLEAN /\ Replaceable \in BOOLEAN

VARIABLE sess      \* the session handle_download works with, or left in the table

downloadVars == <<vars, sess>>

\* last is a size_t; -1 is the value that wraps around below zero.
Session == [state : {"idle", "interrupted"}, last : -1..MaxChunks, kept : BOOLEAN]

DownloadMsg == FwdMsg \cup [type : {"res", "error"}]

DownloadTypeOK ==
    /\ src \in Sources
    /\ dst \in [Idx -> Chunks \cup {Hole, Torn}]
    /\ link \in {"up", "down"}
    /\ fwd \in Seq(DownloadMsg)
    /\ back \in Seq(BackMsg \cup [type : {"bye"}])
    /\ sPc \in {"off", "wait", "ready", "await", "done", "fail"}
    /\ sSeq \in 0..MaxChunks
    /\ rPc \in {"off", "wait", "recv", "write", "done", "fail"}
    /\ rSeq \in 0..MaxChunks
    /\ rPos \in 0..MaxChunks
    /\ rErr \in {"none", "eof", "io", "seq", "msg"}
    /\ held \in Chunks \cup {NoChunk}
    /\ sess \in Session \cup {NoSess}

DownloadInit == Init /\ sess = NoSess
-----------------------------------------------------------------------------
(* The client: cmd_download. *)

\* The last chunk of file f, if it has one.
LastFilled(f) == {j \in Idx : f[j] # Hole /\ \A i \in Idx : i > j => f[i] = Hole}

\* floor(size / CHUNK_SIZE) of the local file: a short last chunk does not count.
\* (A torn chunk may be whole or short.)
Wanted(f) ==
    IF f = EmptyFile THEN {0}
    ELSE UNION {CASE f[j] = Torn -> {j, j + 1}
                  [] f[j] # Torn /\ f[j].short -> {j}
                  [] OTHER -> {j + 1} : j \in LastFilled(f)}

\* DOWNLOAD_RES arrives with the chunk count: file_recv starts.
ClientRes ==
    /\ rPc = "wait"
    /\ fwd # <<>>
    /\ Head(fwd).type = "res"
    /\ fwd' = Tail(fwd)
    /\ FileRecv
    /\ UNCHANGED <<src, dst, link, back, sndVars, sess>>

\* The command ends after sending msgs.
ClientExit(msgs) ==
    /\ RcvGone
    /\ fwd' = <<>>
    /\ back' \in LoseSuffix(IF link = "up" THEN back \o msgs ELSE back)
    /\ UNCHANGED <<src, dst, sndVars, sess>>

\* An ERROR instead of DOWNLOAD_RES, or a closed connection.
ClientGiveUp ==
    /\ rPc = "wait"
    /\ IF fwd # <<>> THEN Head(fwd).type # "res" ELSE link = "down"
    /\ ClientExit(<<>>)

\* chunk_recv gets a message too small for a chunk header (-4).
RecvOther ==
    /\ rPc = "recv"
    /\ fwd # <<>>
    /\ Head(fwd).type # "chunk"
    /\ fwd' = Tail(fwd)
    /\ RecvReturn(rSeq, "msg")
    /\ UNCHANGED <<src, dst, link, back, sndVars, rPos, sess>>

\* file_recv has returned, whatever it returned: DOWNLOAD_FIN ("bye"), which the
\* server never waits for, and the command ends.
ClientFin ==
    /\ rPc \in {"done", "fail"}
    /\ ClientExit(<<[type |-> "bye"]>>)
-----------------------------------------------------------------------------
(* The server: handle_download. *)

FindSession ==
    IF sess # NoSess
    THEN {sess}
    ELSE {[state |-> "idle", last |-> 0, kept |-> k] :
              k \in IF TableFull THEN BOOLEAN ELSE {TRUE}}

Left(s) == IF s.kept THEN s ELSE NoSess

\* Mutant: the session decides where the transfer resumes.
StartChunkOfSession(s) == {IF s.state = "interrupted" THEN s.last + 1 ELSE 0}

\* start_chunk: last_transfered_chunk + 1 of an interrupted session, overridden in
\* both cases by what the client says it has.
StartChunk(s) == Wanted(dst)

ServerReturns(msgs) ==
    /\ SndGone
    /\ fwd' \in LoseSuffix(IF link = "up" THEN fwd \o msgs ELSE fwd)
    /\ back' = <<>>
    /\ UNCHANGED <<src, dst, rcvVars>>

\* The user or the path is unknown, or there is no such file.
ServerRefuse ==
    /\ ServerFaults
    /\ sPc = "wait"
    /\ ServerReturns(<<[type |-> "error"]>>)
    /\ UNCHANGED sess

\* The connection breaks before the request's payload is there.
ServerNoRequest ==
    /\ sPc = "wait"
    /\ link = "down"
    /\ ServerReturns(<<>>)
    /\ UNCHANGED sess

\* The request is accepted: DOWNLOAD_RES, then file_send starts.
ServerAccept ==
    /\ sPc = "wait"
    /\ \E s \in FindSession :
          /\ sess' = s
          /\ \E k \in StartChunk(s) : FileSend(k)
    /\ fwd' = Sent(fwd, [type |-> "res"])
    /\ UNCHANGED <<src, dst, link, back, rcvVars>>

\* Mutant: the handler returns without closing after a failure.
ServerInterruptedKeepsOpen ==
    /\ sPc = "fail"
    /\ \E last \in {sSeq - 1, sSeq + 1} :
          sess' = Left([sess EXCEPT !.state = "interrupted", !.last = last])
    /\ sPc' = "off" /\ sSeq' = 0
    /\ UNCHANGED <<src, dst, netVars, rcvVars>>

\* file_send failed: the session is marked, an ERROR sent.  The count file_send
\* returns is seq + 1 or seq - 1, depending on what failed; nothing uses it.
ServerInterrupted ==
    /\ sPc = "fail"
    /\ \E last \in {sSeq - 1, sSeq + 1} :
          sess' = Left([sess EXCEPT !.state = "interrupted", !.last = last])
    /\ ServerReturns(<<[type |-> "error"]>>)

\* file_send succeeded: the session is removed and the connection closed.
ServerFinish ==
    /\ sPc = "done"
    /\ sess' = NoSess
    /\ ServerReturns(<<>>)

\* The server process dies and is started again: uman_init knows no session.
ServerCrash ==
    /\ \/ sPc # "off" /\ ServerReturns(<<>>)
       \/ sPc = "off" /\ sess # NoSess /\ UNCHANGED vars
    /\ sess' = NoSess
-----------------------------------------------------------------------------
\* Between attempts the server's file is replaced by another upload.
Replace ==
    /\ Replaceable
    /\ sPc = "off" /\ rPc = "off"
    /\ src' \in Sources \ {src}
    /\ UNCHANGED <<dst, netVars, sndVars, rcvVars, sess>>

ClientStart == Connect /\ UNCHANGED sess

ClientStep == ClientRes \/ ClientGiveUp \/ ClientFin \/ RecvOther \/ (RecvStep /\ UNCHANGED sess)

ServerStep ==
    \/ ServerRefuse \/ ServerNoRequest \/ ServerAccept
    \/ (SendStep /\ UNCHANGED sess)
    \/ ServerInterrupted \/ ServerFinish

NetworkStep == (Cut \/ Corrupt) /\ UNCHANGED sess

ClientKilled == LeaveRecv /\ UNCHANGED sess

DownloadNext ==
    \/ ClientStart \/ ClientStep \/ ClientKilled
    \/ ServerStep \/ ServerCrash
    \/ NetworkStep
    \/ Replace

DownloadSpec == DownloadInit /\ [][DownloadNext]_downloadVars

\* The processes keep running, and a chunk sent again and again arrives intact at
\* last; nothing makes connections break, processes die or users act.
Fairness ==
    /\ WF_downloadVars(ClientStep)
    /\ WF_downloadVars(ServerStep)
    /\ SF_downloadVars(RecvGood /\ UNCHANGED sess)

FairDownloadSpec == DownloadSpec /\ Fairness
-----------------------------------------------------------------------------
(* Properties. *)

\* Every attempt ends on both sides, also when the server cannot read its file and
\* when there is nothing left to send: unlike in an upload, no one waits for a final
\* message that never comes.
DownloadEnds == (rPc = "wait" ~> rPc = "off") /\ (sPc = "wait" ~> sPc = "off")

\* Whatever versions a partial file was assembled from, a chunk is stored at the
\* offset it has in the file it comes from.
ChunksInPlace == \A i \in Idx : dst[i] \in Chunks => dst[i].idx = i

IsChunk(m) == m.type = "chunk"

\* What of the server's messages belongs to the chunk protocol: there is never more
\* than one chunk in flight, and nothing behind it.
ChunksIn(q) == IF q # <<>> /\ IsChunk(q[Len(q)]) THEN <<q[Len(q)]>> ELSE <<>>

\* To the chunk protocol, an ERROR in place of a chunk is a lost connection.
ChunkErr == IF rErr = "msg" THEN "io" ELSE rErr

Chunked == INSTANCE Transfer WITH
    fwd <- ChunksIn(fwd), back <- RepliesIn(back), rErr <- ChunkErr

\* A download of a file that is not replaced is a run of the chunk protocol: the size
\* of the partial file is a safe place to resume whichever step the client died at,
\* although a chunk is acknowledged before it is written.
DownloadsByChunks == Chunked!Spec
=============================================================================
