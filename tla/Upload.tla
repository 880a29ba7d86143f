------------------------------- MODULE Upload -------------------------------
(***************************************************************************)
(* The upload of one file of one user: cmd_upload of the client            *)
(* (client.c) and handle_upload of the server (server.c) around the chunk  *)
(* protocol of Transfer, with the session that lets a later attempt resume *)
(* (session.c, user.c).  The client is the sender, the server the          *)
(* receiver.  Between attempts the client's file may be edited and the     *)
(* server's copy removed (handle_remove); either process may die at any    *)
(* point, and a restarted server has lost its sessions and kept its files. *)
(*                                                                         *)
(* sPc "wait": the client waits for UPLOAD_RES; "done" and "fail":         *)
(* file_send has returned and the client waits for UPLOAD_FIN.             *)
(* rPc "wait": the request waits for the server's event loop.              *)
(***************************************************************************)
EXTENDS Transfer

CONSTANTS
    ByteRange,     \* the values of a byte: the client keeps one byte of the resume point
    Quota,         \* total_space of the user, in chunks
    NoSess,        \* the user has no upload session for the file
    TableFull,     \* whether the user's table may be full of other sessions
    ServerFaults,  \* whether the user may be unknown, mkdir or open fail
    Editable,      \* whether the user edits the file between attempts
    Removable      \* whether the user removes the file on the server

ASSUME UploadAssumption ==
    /\ ByteRange \in Nat \ {0}
    /\ Quota \in Nat
    /\ TableFull \in BOOLEAN /\ ServerFaults \in BOOLEAN
    /\ Editable \in BOOLEAN /\ Removable \in BOOLEAN

VARIABLE sess      \* the session handle_upload works with, or left in the table

uploadVars == <<vars, sess>>

\* kept: user_add_session found room; a session that is not kept is forgotten when
\* the handler returns.
Session == [state : {"idle", "running", "interrupted"}, last : 0..MaxChunks, kept : BOOLEAN]

UploadMsg == BackMsg \cup [type : {"res"}, seq : 0..MaxChunks] \cup [type : {"error", "fin"}]

UploadTypeOK ==
    /\ src \in Sources
    /\ dst \in [Idx -> Chunks \cup {Hole, Torn}]
    /\ link \in {"up", "down"}
    /\ fwd \in Seq(FwdMsg)
    /\ back \in Seq(UploadMsg)
    /\ sPc \in {"off", "wait", "ready", "await", "done", "fail"}
    /\ sSeq \in 0..MaxChunks
    /\ rPc \in {"off", "wait", "recv", "write", "done", "fail"}
    /\ rSeq \in 0..MaxChunks
    /\ rPos \in 0..MaxChunks
    /\ rErr \in {"none", "eof", "io", "seq"}
    /\ held \in Chunks \cup {NoChunk}
    /\ sess \in Session \cup {NoSess}

UploadInit == Init /\ sess = NoSess
-----------------------------------------------------------------------------
(* The client: cmd_upload. *)

\* Mutant: the transfer resumes after the chunk the server asked for.
ResumeFromNext(k) == k + 1

\* seq = (size_t)(*msg.payload): the low byte of the number the server sent.
ResumeFrom(k) == k % ByteRange

\* UPLOAD_RES arrives: file_send starts there.
ClientRes ==
    /\ sPc = "wait"
    /\ back # <<>>
    /\ Head(back).type = "res"
    /\ back' = Tail(back)
    /\ FileSend(ResumeFrom(Head(back).seq))
    /\ UNCHANGED <<src, dst, link, fwd, rcvVars, sess>>

ClientExit ==
    /\ SndGone
    /\ fwd' \in LoseSuffix(fwd)
    /\ back' = <<>>
    /\ UNCHANGED <<src, dst, rcvVars, sess>>

\* An ERROR instead of UPLOAD_RES, or a closed connection: the command gives up.
ClientGiveUp ==
    /\ sPc = "wait"
    /\ IF back # <<>> THEN Head(back).type # "res" ELSE link = "down"
    /\ ClientExit

\* file_send has returned, whatever it returned: one more header is read, and the
\* command ends on UPLOAD_FIN, on anything else and on a closed connection.
ClientFin ==
    /\ sPc \in {"done", "fail"}
    /\ back # <<>> \/ link = "down"
    /\ ClientExit
-----------------------------------------------------------------------------
(* The server: handle_upload. *)

\* user_get_session, or a new session and user_add_session, whose result nobody
\* looks at.
FindSession ==
    IF sess # NoSess
    THEN {sess}
    ELSE {[state |-> "idle", last |-> 0, kept |-> k] :
              k \in IF TableFull THEN BOOLEAN ELSE {TRUE}}

\* What remains of a session when the handler returns without removing it.
Left(s) == IF s.kept THEN s ELSE NoSess

\* The sequence number sent to the client.
SessionSeq(s) == IF s.state = "interrupted" THEN s.last ELSE 0

\* handle_upload returns after replying msgs and on_stream_req closes the socket.
Reply(msgs) == IF link = "up" THEN back \o msgs ELSE back

ServerReturns(msgs) ==
    /\ RcvGone
    /\ fwd' = <<>>
    /\ back' \in LoseSuffix(Reply(msgs))
    /\ UNCHANGED <<src, dst, sndVars>>

\* The user is unknown or the file is larger than the user's space.
ServerRefuse ==
    /\ rPc = "wait"
    /\ ServerFaults \/ src.n > Quota
    /\ ServerReturns(<<[type |-> "error"]>>)
    /\ UNCHANGED sess

\* The connection breaks before the request's payload is there.
ServerNoRequest ==
    /\ rPc = "wait"
    /\ link = "down"
    /\ ServerReturns(<<>>)
    /\ UNCHANGED sess

\* The user's directory cannot be made; the session stays as it was found.
ServerMkdirFails ==
    /\ ServerFaults
    /\ rPc = "wait"
    /\ src.n <= Quota
    /\ ServerReturns(<<[type |-> "error"]>>)
    /\ \E s \in FindSession : sess' = Left(s)

\* The request is accepted: UPLOAD_RES, the session runs, file_recv starts.
ServerAccept ==
    /\ rPc = "wait"
    /\ src.n <= Quota
    /\ \E s \in FindSession :
          /\ sess' = [s EXCEPT !.state = "running"]
          /\ back' = Reply(<<[type |-> "res", seq |-> SessionSeq(s)]>>)
    /\ FileRecv
    /\ UNCHANGED <<src, dst, link, fwd, sndVars>>

\* file_recv cannot open the file: it returns {0, -1} after UPLOAD_RES was sent.
ServerOpenFails ==
    /\ ServerFaults
    /\ rPc = "wait"
    /\ src.n <= Quota
    /\ \E s \in FindSession :
          /\ sess' = Left([s EXCEPT !.state = "interrupted", !.last = 0])
          /\ ServerReturns(<<[type |-> "res", seq |-> SessionSeq(s)], [type |-> "error"]>>)

\* Mutant: the chunk being received counts as received.
ServerInterruptedCountsOneMore ==
    /\ rPc = "fail"
    /\ rErr \in {"eof", "io"}
    /\ sess' = Left([sess EXCEPT !.state = "interrupted",
                                 !.last = IF rSeq < src.n THEN rSeq + 1 ELSE rSeq])
    /\ ServerReturns(IF rErr = "io" THEN <<[type |-> "error"]>> ELSE <<>>)

\* Mutant: the session keeps seq - 1, as file_send returns it, which wraps at 0.
ServerInterruptedSeqMinusOne ==
    /\ rPc = "fail"
    /\ rErr \in {"eof", "io"}
    /\ sess' = Left([sess EXCEPT !.state = "interrupted", !.last = rSeq - 1])
    /\ ServerReturns(IF rErr = "io" THEN <<[type |-> "error"]>> ELSE <<>>)

\* file_recv returned -1 (with an ERROR) or -2: the session remembers how far it got.
ServerInterrupted ==
    /\ rPc = "fail"
    /\ rErr \in {"eof", "io"}
    /\ sess' = Left([sess EXCEPT !.state = "interrupted", !.last = rSeq])
    /\ ServerReturns(IF rErr = "io" THEN <<[type |-> "error"]>> ELSE <<>>)

\* file_recv returned success, or an error that is neither -1 nor -2: UPLOAD_FIN,
\* and the session is removed.
ServerFinish ==
    /\ rPc = "done" \/ (rPc = "fail" /\ rErr = "seq")
    /\ sess' = NoSess
    /\ ServerReturns(<<[type |-> "fin"]>>)

\* The server process dies and is started again: uman_init knows no session.
ServerCrash ==
    /\ \/ rPc # "off" /\ ServerReturns(<<>>)
       \/ rPc = "off" /\ sess # NoSess /\ UNCHANGED vars
    /\ sess' = NoSess
-----------------------------------------------------------------------------
(* Between attempts. *)

\* The user changes the local file.
Edit ==
    /\ Editable
    /\ sPc = "off" /\ rPc = "off"
    /\ src' \in Sources \ {src}
    /\ UNCHANGED <<dst, netVars, sndVars, rcvVars, sess>>

\* Another command of the user removes the file on the server; sessions stay.
Remove ==
    /\ Removable
    /\ rPc \in {"off", "wait"}
    /\ dst # EmptyFile
    /\ dst' = EmptyFile
    /\ UNCHANGED <<src, netVars, sndVars, rcvVars, sess>>
-----------------------------------------------------------------------------
ClientStart == Connect /\ UNCHANGED sess

ClientStep == ClientRes \/ ClientGiveUp \/ ClientFin \/ (SendStep /\ UNCHANGED sess)

ServerStep ==
    \/ ServerRefuse \/ ServerNoRequest \/ ServerMkdirFails \/ ServerAccept \/ ServerOpenFails
    \/ (RecvStep /\ UNCHANGED sess)
    \/ ServerInterrupted \/ ServerFinish

NetworkStep == (Cut \/ Corrupt) /\ UNCHANGED sess

ClientKilled == LeaveSend /\ UNCHANGED sess

UploadNext ==
    \/ ClientStart \/ ClientStep \/ ClientKilled
    \/ ServerStep \/ ServerCrash
    \/ NetworkStep
    \/ Edit \/ Remove

UploadSpec == UploadInit /\ [][UploadNext]_uploadVars

\* The processes keep running, and a chunk sent again and again arrives intact at
\* last; nothing makes connections break, processes die or users act.
Fairness ==
    /\ WF_uploadVars(ClientStep)
    /\ WF_uploadVars(ServerStep)
    /\ SF_uploadVars(RecvGood /\ UNCHANGED sess)

FairUploadSpec == UploadSpec /\ Fairness
-----------------------------------------------------------------------------
(* Properties. *)

\* The resume point of an interrupted session never exceeds what the server has of
\* the file on disk, whichever step the attempt or a process died at: last_transfered_chunk
\* counts only chunks written.
ResumeWithinStored ==
    sess # NoSess /\ sess.state = "interrupted" => Intact(dst, src, sess.last)

FinSent == \E i \in 1..Len(back) : back[i].type = "fin"

\* The server sends "file successfully uploaded" only when its copy is the file the
\* client sent.
FinOnlyWhenStored == [][~FinSent /\ FinSent' => Intact(dst, src, src.n)]_uploadVars

\* Client and server wait for each other on a live connection: one for UPLOAD_FIN,
\* the other for a chunk.  The server, single threaded, then serves nobody.
MutualWait ==
    /\ sPc \in {"done", "fail"} /\ rPc = "recv"
    /\ link = "up" /\ fwd = <<>> /\ back = <<>>

\* That happens only when the client failed to read its own file, or when nothing
\* was sent at all because the server held a resume point at or beyond the end of a
\* file that has become shorter.
MutualWaitOnlyFromClient ==
    MutualWait => sPc = "fail" \/ (rSeq = 0 /\ sSeq > 0 /\ sSeq >= src.n)

\* Every attempt ends on both sides and the server is free again, unless the two wait
\* for each other.
AttemptEnds == /\ sPc = "wait" ~> sPc = "off" \/ MutualWait
               /\ rPc = "wait" ~> rPc = "off" \/ MutualWait

Chunked == INSTANCE Transfer WITH back <- RepliesIn(back)

\* An upload of a file that is neither edited nor removed is a run of the chunk
\* protocol: in particular the session and the byte the client keeps of it never
\* make an attempt start behind a chunk the server lacks.
UploadsByChunks == Chunked!Spec
=============================================================================
