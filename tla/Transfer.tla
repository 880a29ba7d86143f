------------------------------ MODULE Transfer ------------------------------
(***************************************************************************)
(* One file copied from a sender to a receiver over TCP connections that   *)
(* may break: file_send and file_recv of file.c with chunk_send and        *)
(* chunk_recv of chunk.c.  The protocol is stop and wait: the sender       *)
(* transmits one chunk and waits for CHUNK_OK or CHUNK_AGAIN.  An attempt  *)
(* may start at any chunk the receiver already holds everything before.    *)
(*                                                                         *)
(* The unit of data is the chunk (CHUNK_SIZE bytes, the last one may be    *)
(* short); chunks are numbered from 0, as hdr.seq is.                      *)
(***************************************************************************)
EXTENDS Naturals, Sequences

CONSTANTS
    MaxChunks,    \* bound on the number of chunks of a file
    Sources,      \* the files that can be sent: [ver, n, short] records
    Hole,         \* a chunk of a file that nobody wrote
    Torn,         \* a short chunk written over other bytes: the file was not truncated
    NoChunk,      \* the receiver holds no chunk
    SourceFaults, \* whether read() on the file being sent may fail
    DiskFaults    \* whether write() on the file being received may fail

VARIABLES
    src,     \* the file being sent
    dst,     \* the file being received: what each of its chunks holds
    link,    \* the connection: "up", or "down" once closed or broken
    fwd,     \* messages in flight from the sender to the receiver
    back,    \* messages in flight from the receiver to the sender
    sPc,     \* where the sending process is, "off" when there is none
    sSeq,    \* seq of file_send
    rPc,     \* where the receiving process is, "off" when there is none
    rSeq,    \* seq of file_recv
    rPos,    \* offset of the received file's descriptor, in chunks
    rErr,    \* error_code file_recv returned
    held     \* the chunk acknowledged and not written yet

netVars == <<link, fwd, back>>
sndVars == <<sPc, sSeq>>
rcvVars == <<rPc, rSeq, rPos, rErr, held>>
vars == <<src, dst, netVars, sndVars, rcvVars>>
-----------------------------------------------------------------------------
Idx == 0..(MaxChunks - 1)

\* The i-th chunk of file s, as read() and chunk_init deliver it.
ChunkOf(s, i) == [ver |-> s.ver, idx |-> i, short |-> s.short /\ i + 1 = s.n]

Chunks == [ver : {s.ver : s \in Sources}, idx : Idx, short : BOOLEAN]

ASSUME TransferAssumption ==
    /\ MaxChunks \in Nat
    /\ \A s \in Sources : /\ DOMAIN s = {"ver", "n", "short"}
                          /\ s.n \in 0..MaxChunks
                          /\ s.short \in BOOLEAN
    /\ SourceFaults \in BOOLEAN
    /\ DiskFaults \in BOOLEAN
    /\ Hole \notin Chunks /\ Torn \notin Chunks /\ NoChunk \notin Chunks

\* A chunk message; ok is whether the data still matches the header's checksum.
ChunkMsg(s, i) == [type |-> "chunk", seq |-> i, chunk |-> ChunkOf(s, i), ok |-> TRUE]

\* The messages of file_send (SEND_CHUNK) and of file_recv (CHUNK_OK, CHUNK_AGAIN).
FwdMsg == [type : {"chunk"}, seq : Idx, chunk : Chunks, ok : BOOLEAN]

BackMsg == [type : {"ok", "again"}]

\* What write() makes of file f when chunk c is written at chunk offset i.  The
\* file was opened without O_TRUNC: a short chunk leaves the bytes behind it.
StaleBehind(f, i, c) ==
    \/ f[i] \notin {Hole, c}
    \/ \E j \in Idx : j > i /\ f[j] # Hole

WriteAt(f, i, c) ==
    [f EXCEPT ![i] = IF c.short /\ StaleBehind(f, i, c) THEN Torn ELSE c]

EmptyFile == [i \in Idx |-> Hole]

\* The first k chunks of f are those of s.
Intact(f, s, k) == \A i \in Idx : i < k => f[i] = ChunkOf(s, i)

\* What can be left of the messages in flight when a connection breaks.
LoseSuffix(q) == {SubSeq(q, 1, k) : k \in 0..Len(q)}

\* msg_send on a connection the peer has lost may still succeed: the bytes are
\* accepted by the kernel and reach nobody.
Sent(q, m) == IF link = "up" THEN Append(q, m) ELSE q
-----------------------------------------------------------------------------
TypeOK ==
    /\ src \in Sources
    /\ dst \in [Idx -> Chunks \cup {Hole, Torn}]
    /\ link \in {"up", "down"}
    /\ fwd \in Seq(FwdMsg)
    /\ back \in Seq(BackMsg)
    /\ sPc \in {"off", "wait", "ready", "await", "done", "fail"}
    /\ sSeq \in 0..MaxChunks
    /\ rPc \in {"off", "wait", "recv", "write", "done", "fail"}
    /\ rSeq \in 0..MaxChunks
    /\ rPos \in 0..MaxChunks
    /\ rErr \in {"none", "eof", "io", "seq"}
    /\ held \in Chunks \cup {NoChunk}

Init ==
    /\ src \in Sources
    /\ dst = EmptyFile
    /\ link = "down" /\ fwd = <<>> /\ back = <<>>
    /\ sPc = "off" /\ sSeq = 0
    /\ rPc = "off" /\ rSeq = 0 /\ rPos = 0 /\ rErr = "none" /\ held = NoChunk
-----------------------------------------------------------------------------
(* The connection. *)

\* A client connects and the server takes the connection up; the server serves
\* one connection at a time, so the previous attempt is over on both sides.
Connect ==
    /\ sPc = "off" /\ rPc = "off"
    /\ sPc' = "wait" /\ rPc' = "wait"
    /\ link' = "up" /\ fwd' = <<>> /\ back' = <<>>
    /\ UNCHANGED <<src, dst, sSeq, rSeq, rPos, rErr, held>>

\* The connection breaks: any suffix of what is in flight is lost.
Cut ==
    /\ link = "up"
    /\ link' = "down"
    /\ fwd' \in LoseSuffix(fwd)
    /\ back' \in LoseSuffix(back)
    /\ UNCHANGED <<src, dst, sndVars, rcvVars>>

\* The data of a chunk in flight is damaged.
Corrupt ==
    /\ fwd # <<>>
    /\ Head(fwd).type = "chunk"
    /\ Head(fwd).ok
    /\ fwd' = [fwd EXCEPT ![1].ok = FALSE]
    /\ UNCHANGED <<src, dst, link, back, sndVars, rcvVars>>
-----------------------------------------------------------------------------
(* file_send *)

\* Mutant: the loop runs once too often.
SendPcOneMore(k) == IF k <= src.n THEN "ready" ELSE "done"

\* The loop condition: seq < info.chunk_count.
SendPc(k) == IF k < src.n THEN "ready" ELSE "done"

\* file_send is called with start_chunk = k: lseek, seq = k.
FileSend(k) ==
    /\ sPc' = SendPc(k)
    /\ sSeq' = k

StartSend(k) ==
    /\ sPc = "wait"
    /\ FileSend(k)
    /\ UNCHANGED <<src, dst, netVars, rcvVars>>

\* read, chunk_init and a chunk_send that reports success.
SendChunk ==
    /\ sPc = "ready"
    /\ fwd' = Sent(fwd, ChunkMsg(src, sSeq))
    /\ sPc' = "await"
    /\ UNCHANGED <<src, dst, link, back, sSeq, rcvVars>>

\* read() fails: file_send returns -1 and the connection stays open.
ReadFails ==
    /\ SourceFaults
    /\ sPc = "ready"
    /\ sPc' = "fail"
    /\ UNCHANGED <<src, dst, netVars, sSeq, rcvVars>>

\* chunk_send reports the broken connection: file_send returns -5.
SendFails ==
    /\ sPc = "ready"
    /\ link = "down"
    /\ sPc' = "fail"
    /\ UNCHANGED <<src, dst, netVars, sSeq, rcvVars>>

\* Mutant: any reply is taken for CHUNK_OK.
RecvReplyAnyIsOk ==
    /\ sPc = "await"
    /\ back # <<>>
    /\ back' = Tail(back)
    /\ FileSend(sSeq + 1)
    /\ UNCHANGED <<src, dst, link, fwd, rcvVars>>

\* msg_recv(&msg, 0) after a chunk: OK moves on, any other empty message sends
\* the same buffer again, a message with a payload is an error (-6).
RecvReply ==
    /\ sPc = "await"
    /\ back # <<>>
    /\ back' = Tail(back)
    /\ IF Head(back).type = "ok"
         THEN FileSend(sSeq + 1)
         ELSE /\ sPc' = IF Head(back).type \in {"again", "bye"} THEN "ready" ELSE "fail"
              /\ sSeq' = sSeq
    /\ UNCHANGED <<src, dst, link, fwd, rcvVars>>

\* msg_recv reports the broken connection: file_send returns -6.
ReplyLost ==
    /\ sPc = "await"
    /\ back = <<>>
    /\ link = "down"
    /\ sPc' = "fail"
    /\ UNCHANGED <<src, dst, netVars, sSeq, rcvVars>>
-----------------------------------------------------------------------------
(* file_recv *)

\* Mutant: the loop stops before the last chunk.
RecvPcOneLess(k) == IF k + 1 < src.n THEN "recv" ELSE "done"

\* The loop condition: seq < info->chunk_count.
RecvPc(k) == IF k < src.n THEN "recv" ELSE "done"

\* file_recv is called: open(O_WRONLY | O_CREAT), seq = 0.
FileRecv ==
    /\ rPc' = RecvPc(0)
    /\ rSeq' = 0 /\ rPos' = 0 /\ rErr' = "none" /\ held' = NoChunk

StartRecv ==
    /\ rPc = "wait"
    /\ FileRecv
    /\ UNCHANGED <<src, dst, netVars, sndVars>>

\* file_recv returns an error.
RecvReturn(seq, err) ==
    /\ rPc' = "fail"
    /\ rSeq' = seq
    /\ rErr' = err
    /\ UNCHANGED held

\* Mutants: a resumed transfer keeps expecting chunk 0, or does not lseek.
ResumeSeqFromZero(m) == rSeq

ResumePosNoSeek(m) == rPos

\* The sequence number expected after the resume test: while nothing has been
\* received, the number in the first chunk is adopted (with an lseek).
ResumeSeq(m) == IF rSeq = 0 /\ m.seq > 0 THEN m.seq ELSE rSeq

ResumePos(m) == IF rSeq = 0 /\ m.seq > 0 THEN m.seq ELSE rPos

\* Mutant: a damaged chunk is acknowledged and dropped.
RecvCorruptIsOk ==
    /\ rPc = "recv"
    /\ fwd # <<>>
    /\ Head(fwd).type = "chunk" /\ ~Head(fwd).ok
    /\ fwd' = Tail(fwd)
    /\ back' = Sent(back, [type |-> "ok"])
    /\ UNCHANGED <<src, dst, link, sndVars, rcvVars>>

\* Mutant: a damaged chunk is dropped without a reply.
RecvCorruptSilent ==
    /\ rPc = "recv"
    /\ fwd # <<>>
    /\ Head(fwd).type = "chunk" /\ ~Head(fwd).ok
    /\ fwd' = Tail(fwd)
    /\ UNCHANGED <<src, dst, link, back, sndVars, rcvVars>>

\* A chunk whose checksum does not match is asked for again.
RecvCorrupt ==
    /\ rPc = "recv"
    /\ fwd # <<>>
    /\ Head(fwd).type = "chunk" /\ ~Head(fwd).ok
    /\ fwd' = Tail(fwd)
    /\ back' = Sent(back, [type |-> "again"])
    /\ UNCHANGED <<src, dst, link, sndVars, rcvVars>>

\* An intact chunk: an unexpected number ends the transfer (-4), the expected
\* one is acknowledged, before it is written.
RecvGood ==
    /\ rPc = "recv"
    /\ fwd # <<>>
    /\ Head(fwd).type = "chunk" /\ Head(fwd).ok
    /\ fwd' = Tail(fwd)
    /\ rPos' = ResumePos(Head(fwd))
    /\ IF ResumeSeq(Head(fwd)) = Head(fwd).seq
       THEN /\ rPc' = "write"
            /\ rSeq' = ResumeSeq(Head(fwd))
            /\ held' = Head(fwd).chunk
            /\ back' = Sent(back, [type |-> "ok"])
            /\ UNCHANGED rErr
       ELSE /\ RecvReturn(ResumeSeq(Head(fwd)), "seq")
            /\ UNCHANGED back
    /\ UNCHANGED <<src, dst, link, sndVars>>

\* The reply to a chunk cannot be sent (msg_send returns -1): nothing is written.
RecvReplyFails ==
    /\ rPc = "recv"
    /\ fwd # <<>>
    /\ link = "down"
    /\ Head(fwd).type = "chunk"
    /\ Head(fwd).ok => ResumeSeq(Head(fwd)) = Head(fwd).seq
    /\ fwd' = Tail(fwd)
    /\ IF Head(fwd).ok
       THEN RecvReturn(ResumeSeq(Head(fwd)), "io") /\ rPos' = ResumePos(Head(fwd))
       ELSE RecvReturn(rSeq, "io") /\ UNCHANGED rPos
    /\ UNCHANGED <<src, dst, link, back, sndVars>>

\* chunk_recv finds the connection closed (-2) or reset (-1).
RecvEnd ==
    /\ rPc = "recv"
    /\ fwd = <<>>
    /\ link = "down"
    /\ \E err \in {"eof", "io"} : RecvReturn(rSeq, err)
    /\ UNCHANGED <<src, dst, netVars, sndVars, rPos>>

\* Mutant: the file is opened with O_APPEND, so a chunk lands behind the others.
WriteChunkAtEnd ==
    /\ rPc = "write"
    /\ \E i \in Idx : /\ dst[i] = Hole \/ i = MaxChunks - 1
                      /\ \A j \in Idx : j < i => dst[j] # Hole
                      /\ dst' = WriteAt(dst, i, held)
    /\ rPos' = rPos + 1
    /\ rSeq' = rSeq + 1
    /\ rPc' = RecvPc(rSeq + 1)
    /\ held' = NoChunk
    /\ UNCHANGED <<src, rErr, netVars, sndVars>>

\* write, seq++. The result of write() is not looked at: where it fails (a full
\* disk) nothing is stored and the chunk counts all the same.
WriteChunk ==
    /\ rPc = "write"
    /\ \/ dst' = WriteAt(dst, rPos, held) /\ rPos' = rPos + 1
       \/ DiskFaults /\ UNCHANGED <<dst, rPos>>
    /\ rSeq' = rSeq + 1
    /\ rPc' = RecvPc(rSeq + 1)
    /\ held' = NoChunk
    /\ UNCHANGED <<src, rErr, netVars, sndVars>>
-----------------------------------------------------------------------------
(* A process returns from the handler or command, or dies, at any point: its *)
(* locals are gone and the kernel closes its socket.                         *)

SndGone ==
    /\ sPc' = "off" /\ sSeq' = 0
    /\ link' = "down"

RcvGone ==
    /\ rPc' = "off" /\ rSeq' = 0 /\ rPos' = 0 /\ rErr' = "none" /\ held' = NoChunk
    /\ link' = "down"

LeaveSend ==
    /\ sPc # "off"
    /\ SndGone
    /\ fwd' \in LoseSuffix(fwd)
    /\ back' = <<>>
    /\ UNCHANGED <<src, dst, rcvVars>>

LeaveRecv ==
    /\ rPc # "off"
    /\ RcvGone
    /\ fwd' = <<>>
    /\ back' \in LoseSuffix(back)
    /\ UNCHANGED <<src, dst, sndVars>>
-----------------------------------------------------------------------------
\* The processes' own steps once an attempt runs.
SendStep == SendChunk \/ ReadFails \/ SendFails \/ RecvReply \/ ReplyLost

RecvStep == RecvCorrupt \/ RecvGood \/ RecvReplyFails \/ RecvEnd \/ WriteChunk

\* A transfer resumes at most where the received file stops being the sent one.
ResumeSend == \E k \in 0..src.n : Intact(dst, src, k) /\ StartSend(k)

Next ==
    \/ Connect
    \/ ResumeSend
    \/ StartRecv
    \/ SendStep
    \/ RecvStep
    \/ Cut
    \/ Corrupt
    \/ LeaveSend
    \/ LeaveRecv

Spec == Init /\ [][Next]_vars
-----------------------------------------------------------------------------
(* Properties. *)

\* The receiver holds chunk i: written, or acknowledged and about to be written.
Holds(i) == dst[i] = ChunkOf(src, i) \/ (rPc = "write" /\ i = rSeq)

HoldsBefore(k) == \A i \in Idx : i < k => Holds(i)

\* When file_recv returns success, the file on disk is the whole file that was
\* sent, however many attempts, breaks and repeated chunks it took.
CompleteCopy == rPc = "done" => Intact(dst, src, src.n)

\* Whatever number of chunks file_recv counts, and returns as last_chunk_recvd when
\* it is interrupted, that many chunks of the file are on disk: the point from which
\* a later attempt may resume.
CountedIsStored == rPc # "off" => Intact(dst, src, rSeq) /\ rPos = rSeq

\* A chunk the sender has seen CHUNK_OK for is held by the receiver as long as the
\* receiver lives, although the acknowledgement precedes the write.
AckedIsHeld ==
    sPc \in {"ready", "await", "done"} /\ rPc # "off"
        => HoldsBefore(sSeq)

\* The sequence check of file_recv (-4) never fires between these two endpoints:
\* lost replies and repeated chunks never get sender and receiver out of step.
NoSeqMismatch == rErr # "seq"

\* The number file_recv will take next; 0 means it has received nothing yet and
\* adopts the number of the first chunk it gets.
Expected == IF rPc = "write" THEN rSeq + 1 ELSE rSeq

Agrees(k) == Expected = 0 \/ Expected = k

RecvCounts ==
    /\ rErr # "seq"
    /\ rSeq <= src.n
    /\ rPos <= rSeq
    /\ rPc = "off" => link = "down" /\ fwd = <<>>
    /\ rPc \in {"off", "wait"} => rSeq = 0
    /\ rPc \in {"recv", "write"} => rSeq < src.n
    /\ rPc = "write" => held # NoChunk
    /\ rPc = "done" => rSeq = src.n

WireCounts ==
    /\ Len(fwd) <= 1
    /\ fwd # <<>> => fwd[1].seq < src.n /\ Agrees(fwd[1].seq)

SendCounts == sPc \in {"ready", "await"} => sSeq < src.n

PeerCounts ==
    /\ sPc \in {"wait", "ready"} => fwd = <<>> /\ back = <<>>
    /\ sPc = "wait" => Expected = 0
    /\ sPc = "ready" => Agrees(sSeq)
    /\ sPc = "await" =>
          /\ Len(fwd) + Len(back) <= 1
          /\ fwd # <<>> => fwd[1].seq = sSeq
          /\ back # <<>> => IF back[1].type = "ok" THEN Expected = sSeq + 1
                                                   ELSE Agrees(sSeq)

\* The counters of file_send and file_recv stay in step: the chunk being sent, in
\* flight or answered is the one file_recv expects, or the first one it sees.  It
\* holds with failing disks too, and makes NoSeqMismatch inductive.
CountsInStep ==
    /\ RecvCounts
    /\ WireCounts
    /\ SendCounts
    /\ sPc = "done" => sSeq <= src.n
    /\ rPc # "off" => PeerCounts

DiskData ==
    \A i \in Idx : /\ dst[i] \in {Hole, ChunkOf(src, i)}
                   /\ i >= src.n => dst[i] = Hole

RecvData ==
    /\ rPos = rSeq
    /\ Intact(dst, src, rSeq)
    /\ rPc = "write" => held = ChunkOf(src, rSeq)

WireData ==
    fwd # <<>> => /\ fwd[1].chunk = ChunkOf(src, fwd[1].seq)
                  /\ HoldsBefore(fwd[1].seq)

SendData == sPc \in {"ready", "await", "done"} => HoldsBefore(sSeq)

\* The data follows the counters when writes succeed: the disk holds nothing but
\* chunks of the file at their offsets, and everything before a chunk in flight, or
\* before the chunk the sender is at, is held by the receiver.
DataInStep ==
    /\ DiskData
    /\ RecvData
    /\ WireData
    /\ rPc # "off" => SendData

Copy == INSTANCE FileCopy WITH
    Originals <- {[i \in 0..(s.n - 1) |-> ChunkOf(s, i)] : s \in Sources},
    Slots     <- Idx,
    Blank     <- Hole,
    original  <- [i \in 0..(src.n - 1) |-> ChunkOf(src, i)],
    copy      <- dst,
    finished  <- (rPc = "done")

\* The chunk protocol implements an in-order copy: the received file changes only
\* by gaining its next chunk, and success is reported only for a complete file.
CopiesInOrder == Copy!Spec
-----------------------------------------------------------------------------
(* For the commands that share the connection with the chunk protocol. *)

IsReply(m) == m.type \in {"ok", "again"}

\* What of the receiver's messages belongs to the chunk protocol: there is never more
\* than one reply in flight, and nothing before it.
RepliesIn(q) == IF q # <<>> /\ IsReply(Head(q)) THEN <<Head(q)>> ELSE <<>>
=============================================================================
