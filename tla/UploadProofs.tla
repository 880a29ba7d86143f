---------------------------- MODULE UploadProofs ----------------------------
(***************************************************************************)
(* Proofs about the upload: what holds however the file is edited and      *)
(* removed between attempts, whatever faults there are, and, for a file    *)
(* that is left alone, that an upload is a run of the chunk protocol.      *)
(* The theorems of TransferProofs are used through the refinement mapping. *)
(***************************************************************************)
EXTENDS Upload, TransferProofs

Protocol == INSTANCE TransferProofs WITH back <- RepliesIn(back)

\* While the server's handler runs there is at most one message on its way to the
\* client: UPLOAD_RES to a client that waits for it, or the reply to a chunk.
AnswersOnly ==
    back # <<>> => /\ Len(back) = 1
                   /\ rPc # "wait"
                   /\ \/ IsReply(back[1]) /\ sPc = "await"
                      \/ back[1].type = "res" /\ sPc = "wait"

\* What the client can be doing while the server's handler runs.  A client that has
\* nothing more to send has had every chunk acknowledged, or was told to start at or
\* beyond the end.
ClientSide ==
    /\ rPc = "wait" => sPc \in {"off", "wait"}
    /\ sPc = "off" => link = "down"
    /\ sPc = "fail" => link = "down" \/ fwd = <<>>
    /\ sPc = "done" => /\ fwd = <<>>
                       /\ sSeq >= src.n
                       /\ Expected = src.n \/ Expected = 0

\* The inductive invariant of the upload, for any faults and any user.
UploadCounts ==
    /\ UploadTypeOK
    /\ Protocol!Counts
    /\ NoReplyBehind(back)
    /\ rPc \notin {"off", "wait"} => sess \in Session
    /\ rPc # "off" => AnswersOnly /\ ClientSide
-----------------------------------------------------------------------------
(* Steps of the upload as steps of the chunk protocol *)

\* Whatever the handler says before it returns, to the chunk protocol the receiver leaves.
LEMMA ReturningLeaves ==
    ASSUME UploadCounts, rPc # "off",
           NEW msgs \in Seq(UploadMsg), \A i \in 1..Len(msgs) : ~IsReply(msgs[i]),
           ServerReturns(msgs)
    PROVE  /\ Protocol!LeaveRecv
           /\ back' \in Seq(UploadMsg) /\ NoReplyBehind(back')
           /\ \A i \in 1..Len(back') : \/ i \in 1..Len(back) /\ back'[i] = back[i]
                                       \/ \E j \in 1..Len(msgs) : back'[i] = msgs[j]
<1>1. back \in Seq(UploadMsg) /\ NoReplyBehind(back)
  BY DEF UploadCounts, UploadTypeOK
<1>2. PICK r \in {msgs, <<>>} : back' \in LoseSuffix(back \o r)
  <2>1. CASE link = "up"
    BY <2>1 DEF ServerReturns, Reply
  <2>2. CASE link # "up"
    <3>1. back \o <<>> = back
      BY <1>1
    <3>2. QED
      BY <2>2, <3>1 DEF ServerReturns, Reply
  <2>3. QED
    BY <2>1, <2>2
<1>3. r \in Seq(UploadMsg) /\ \A i \in 1..Len(r) : ~IsReply(r[i])
  <2>1. <<>> \in Seq(UploadMsg) /\ \A i \in 1..Len(<<>>) : FALSE
    OBVIOUS
  <2>2. CASE r = msgs
    BY <2>2
  <2>3. CASE r = <<>>
    BY <2>1, <2>3
  <2>4. QED
    BY <1>2, <2>2, <2>3
<1>4. /\ back' \in Seq(UploadMsg) /\ NoReplyBehind(back')
      /\ RepliesIn(back') \in LoseSuffix(RepliesIn(back))
      /\ \A i \in 1..Len(back') : \/ i \in 1..Len(back) /\ back'[i] = back[i]
                                  \/ \E j \in 1..Len(r) : back'[i] = r[j]
  BY <1>1, <1>2, <1>3, RepliesInLost
<1>5. Protocol!LeaveRecv
  BY <1>4 DEF ServerReturns, RcvGone, Protocol!LeaveRecv, Protocol!RcvGone, sndVars,
              Protocol!sndVars, LoseSuffix, Protocol!LoseSuffix
<1>6. \A i \in 1..Len(back') : \/ i \in 1..Len(back) /\ back'[i] = back[i]
                               \/ \E j \in 1..Len(msgs) : back'[i] = msgs[j]
  BY <1>3, <1>4
<1>7. QED
  BY <1>4, <1>5, <1>6

\* The last words of handle_upload.
LEMMA LastWords ==
    /\ <<>> \in Seq(UploadMsg)
    /\ \A m \in {[type |-> "error"], [type |-> "fin"]} :
          <<m>> \in Seq(UploadMsg) /\ \A i \in 1..Len(<<m>>) : ~IsReply(<<m>>[i]) /\ <<m>>[i] = m
    /\ \A k \in 0..MaxChunks :
          LET ms == <<[type |-> "res", seq |-> k], [type |-> "error"]>> IN
          ms \in Seq(UploadMsg) /\ \A i \in 1..Len(ms) : ~IsReply(ms[i])
<1>1. /\ [type |-> "error"] \in UploadMsg /\ [type |-> "fin"] \in UploadMsg
      /\ \A k \in 0..MaxChunks : [type |-> "res", seq |-> k] \in UploadMsg
  BY DEF UploadMsg
<1>2. /\ ~IsReply([type |-> "error"]) /\ ~IsReply([type |-> "fin"])
      /\ \A k : ~IsReply([type |-> "res", seq |-> k])
  BY DEF IsReply
<1>3. \A m : Len(<<m>>) = 1 /\ \A i \in 1..Len(<<m>>) : <<m>>[i] = m
  OBVIOUS
<1>4. \A m, n : LET ms == <<m, n>> IN Len(ms) = 2 /\ \A i \in 1..Len(ms) : ms[i] = m \/ ms[i] = n
  OBVIOUS
<1>5. QED
  BY <1>1, <1>2, <1>3, <1>4

\* The sessions handle_upload can find are sessions.
LEMMA FoundIsSession ==
    ASSUME UploadTypeOK, NEW s \in FindSession
    PROVE  s \in Session /\ SessionSeq(s) \in 0..MaxChunks
<1>1. s \in Session
  <2>1. CASE sess # NoSess
    BY <2>1 DEF UploadTypeOK, FindSession
  <2>2. CASE sess = NoSess
    <3>1. PICK k \in BOOLEAN : s = [state |-> "idle", last |-> 0, kept |-> k]
      BY <2>2 DEF FindSession
    <3>2. QED
      BY <3>1, TransferAssumption DEF Session
  <2>3. QED
    BY <2>1, <2>2
<1>2. QED
  BY <1>1, TransferAssumption DEF Session, SessionSeq

\* A chunk that reaches a server whose connection is up is answered to a client that
\* waits for the answer, with nothing else on the way.
LEMMA AnswerIsAlone ==
    ASSUME UploadCounts, rPc = "recv", fwd # <<>>, link = "up"
    PROVE  back = <<>> /\ sPc = "await"
<1>1. sPc \in {"off", "wait", "ready", "await", "done", "fail"}
  BY DEF UploadCounts, UploadTypeOK
<1>2. sPc \notin {"off", "fail", "done"}
  BY DEF UploadCounts, ClientSide
<1>3. sPc \notin {"wait", "ready"}
  BY DEF UploadCounts, Protocol!Counts, Protocol!PeerCounts
<1>4. sPc = "await"
  BY <1>1, <1>2, <1>3
<1>5. fwd \in Seq(FwdMsg) /\ Len(fwd) # 0
  BY DEF UploadCounts, UploadTypeOK
<1>6. Len(fwd) + Len(RepliesIn(back)) <= 1
  BY <1>4 DEF UploadCounts, Protocol!Counts, Protocol!PeerCounts
<1>7. ASSUME back # <<>> PROVE FALSE
  <2>1. IsReply(back[1]) /\ Len(back) = 1
    BY <1>4, <1>7 DEF UploadCounts, AnswersOnly
  <2>2. RepliesIn(back) = <<back[1]>>
    BY <1>7, <2>1, RepliesInTail DEF UploadCounts, UploadTypeOK
  <2>3. Len(<<back[1]>>) = 1
    OBVIOUS
  <2>4. QED
    BY <1>5, <1>6, <2>2, <2>3
<1>8. QED
  BY <1>4, <1>7

\* The answer sent to a chunk is the reply of the chunk protocol.
LEMMA AnswerMaps ==
    ASSUME UploadCounts, rPc = "recv", fwd # <<>>, NEW t \in {"ok", "again"},
           back' = Sent(back, [type |-> t])
    PROVE  /\ RepliesIn(back)' = Protocol!Sent(RepliesIn(back), [type |-> t])
           /\ back' \in Seq(UploadMsg) /\ NoReplyBehind(back')
           /\ \/ back' = back /\ link = "down"
              \/ back' = <<[type |-> t]>> /\ link = "up" /\ sPc = "await" /\ back = <<>>
<1> DEFINE m == [type |-> t]
<1>1. m \in UploadMsg /\ IsReply(m)
  BY DEF UploadMsg, BackMsg, IsReply
<1>a. back' = Sent(back, m)
  OBVIOUS
<1> HIDE DEF m
<1>2. CASE link = "up"
  <2>1. back = <<>> /\ sPc = "await"
    BY <1>2, AnswerIsAlone
  <2>2. back' = <<m>>
    BY <1>2, <2>1, <1>a DEF Sent
  <2>3. Head(<<m>>) = m /\ Len(<<m>>) = 1 /\ <<m>> # <<>> /\ Append(<<>>, m) = <<m>>
    OBVIOUS
  <2>4. RepliesIn(<<m>>) = <<m>> /\ RepliesIn(<<>>) = <<>>
    BY <1>1, <2>3 DEF RepliesIn
  <2>5. <<m>> \in Seq(UploadMsg) /\ NoReplyBehind(<<m>>)
    BY <1>1, <2>3 DEF NoReplyBehind
  <2>6. QED
    BY <1>2, <2>1, <2>2, <2>3, <2>4, <2>5 DEF Protocol!Sent, m
<1>3. CASE link # "up"
  <2>1. back' = back /\ link = "down"
    BY <1>3, <1>a DEF Sent, UploadCounts, UploadTypeOK
  <2>2. QED
    BY <1>3, <2>1 DEF Protocol!Sent, UploadCounts, UploadTypeOK
<1>4. QED
  BY <1>2, <1>3

\* file_recv takes the same steps in an upload as on its own.
LEMMA RecvStepMaps ==
    ASSUME UploadCounts, RecvStep
    PROVE  Protocol!RecvStep
<1> USE DEF netVars, sndVars, rcvVars, Protocol!netVars, Protocol!sndVars, Protocol!rcvVars,
            Protocol!RecvStep
<1>1. CASE RecvCorrupt
  <2>1. RepliesIn(back)' = Protocol!Sent(RepliesIn(back), [type |-> "again"])
    BY <1>1, AnswerMaps DEF RecvCorrupt
  <2>2. QED
    BY <1>1, <2>1 DEF RecvCorrupt, Protocol!RecvCorrupt
<1>2. CASE RecvGood
  <2>1. CASE ResumeSeq(Head(fwd)) = Head(fwd).seq
    <3>1. RepliesIn(back)' = Protocol!Sent(RepliesIn(back), [type |-> "ok"])
      BY <1>2, <2>1, AnswerMaps DEF RecvGood
    <3>2. QED
      BY <1>2, <2>1, <3>1 DEF RecvGood, Protocol!RecvGood, ResumeSeq, Protocol!ResumeSeq,
                              ResumePos, Protocol!ResumePos
  <2>2. CASE ResumeSeq(Head(fwd)) # Head(fwd).seq
    BY <1>2, <2>2 DEF RecvGood, Protocol!RecvGood, ResumeSeq, Protocol!ResumeSeq,
                      ResumePos, Protocol!ResumePos, RecvReturn, Protocol!RecvReturn
  <2>3. QED
    BY <2>1, <2>2
<1>3. CASE RecvReplyFails
  BY <1>3 DEF RecvReplyFails, Protocol!RecvReplyFails, ResumeSeq, Protocol!ResumeSeq,
              ResumePos, Protocol!ResumePos, RecvReturn, Protocol!RecvReturn
<1>4. CASE RecvEnd
  BY <1>4 DEF RecvEnd, Protocol!RecvEnd, RecvReturn, Protocol!RecvReturn
<1>5. CASE WriteChunk
  BY <1>5 DEF WriteChunk, Protocol!WriteChunk, WriteAt, Protocol!WriteAt, StaleBehind,
              Protocol!StaleBehind, RecvPc, Protocol!RecvPc, Idx, Protocol!Idx
<1>6. QED
  BY <1>1, <1>2, <1>3, <1>4, <1>5 DEF RecvStep

\* So does file_send: an ERROR or UPLOAD_FIN in place of a reply is, to the chunk
\* protocol, a connection that is gone.
LEMMA SendStepMaps ==
    ASSUME UploadCounts, SendStep
    PROVE  Protocol!SendStep
<1> USE DEF netVars, sndVars, rcvVars, Protocol!netVars, Protocol!sndVars, Protocol!rcvVars,
            Protocol!SendStep
<1>1. CASE SendChunk
  BY <1>1 DEF SendChunk, Protocol!SendChunk, Sent, Protocol!Sent, ChunkMsg, Protocol!ChunkMsg,
              ChunkOf, Protocol!ChunkOf
<1>2. CASE ReadFails
  BY <1>2 DEF ReadFails, Protocol!ReadFails
<1>3. CASE SendFails
  BY <1>3 DEF SendFails, Protocol!SendFails
<1>4. CASE RecvReply
  <2>1. /\ back # <<>> /\ sPc = "await" /\ Head(back) = back[1] /\ back[1] \in UploadMsg
        /\ RepliesIn(back)' = <<>>
        /\ RepliesIn(back) = IF IsReply(back[1]) THEN <<back[1]>> ELSE <<>>
    BY <1>4, RepliesInTail DEF RecvReply, UploadCounts, UploadTypeOK
  <2>2. CASE IsReply(back[1])
    <3>1. /\ RepliesIn(back) = <<back[1]>> /\ <<back[1]>> # <<>>
          /\ Head(<<back[1]>>) = back[1] /\ Tail(<<back[1]>>) = <<>>
      BY <2>1, <2>2
    <3>2. Protocol!RecvReply
      BY <1>4, <2>1, <3>1 DEF RecvReply, Protocol!RecvReply, FileSend, Protocol!FileSend,
                              SendPc, Protocol!SendPc
    <3>3. QED
      BY <3>2
  <2>3. CASE ~IsReply(back[1])
    <3>1. rPc = "off"
      BY <2>1, <2>3 DEF UploadCounts, AnswersOnly
    <3>2. link = "down" /\ RepliesIn(back) = <<>>
      BY <2>1, <2>3, <3>1 DEF UploadCounts, Protocol!Counts, Protocol!RecvCounts
    <3>3. sPc' = "fail" /\ sSeq' = sSeq
      BY <1>4, <2>1, <2>3 DEF RecvReply, IsReply, UploadMsg, BackMsg
    <3>4. Protocol!ReplyLost
      BY <1>4, <2>1, <3>2, <3>3 DEF RecvReply, Protocol!ReplyLost
    <3>5. QED
      BY <3>4
  <2>4. QED
    BY <2>2, <2>3
<1>5. CASE ReplyLost
  BY <1>5 DEF ReplyLost, Protocol!ReplyLost, RepliesIn
<1>6. QED
  BY <1>1, <1>2, <1>3, <1>4, <1>5 DEF SendStep

\* The server's handler begins: UPLOAD_RES is no reply to a chunk.
LEMMA AcceptMaps ==
    ASSUME UploadCounts, ServerAccept
    PROVE  /\ Protocol!StartRecv
           /\ back' \in Seq(UploadMsg) /\ NoReplyBehind(back')
           /\ \/ back' = <<>>
              \/ \E s \in FindSession : back' = <<[type |-> "res", seq |-> SessionSeq(s)]>> /\ link = "up"
           /\ back = <<>> /\ sess' \in Session
<1>1. PICK s \in FindSession : /\ sess' = [s EXCEPT !.state = "running"]
                               /\ back' = Reply(<<[type |-> "res", seq |-> SessionSeq(s)]>>)
  BY DEF ServerAccept
<1> DEFINE m == [type |-> "res", seq |-> SessionSeq(s)]
<1>2. s \in Session /\ m \in UploadMsg /\ ~IsReply(m)
  BY FoundIsSession DEF UploadCounts, UploadMsg, IsReply
<1>3. sess' \in Session
  BY <1>1, <1>2 DEF Session
<1>4. back = <<>>
  BY DEF UploadCounts, AnswersOnly, ServerAccept
<1> HIDE DEF m
<1>5. <<>> \o <<m>> = <<m>> /\ Head(<<m>>) = m /\ Len(<<m>>) = 1 /\ <<m>> \in Seq(UploadMsg)
  BY <1>2
<1>6. back' = <<>> \/ (back' = <<m>> /\ link = "up")
  BY <1>1, <1>4, <1>5 DEF Reply, m
<1>7. RepliesIn(back) = <<>> /\ RepliesIn(back') = <<>>
  BY <1>2, <1>4, <1>5, <1>6 DEF RepliesIn
<1>8. back' \in Seq(UploadMsg) /\ NoReplyBehind(back')
  <2>1. <<>> \in Seq(UploadMsg) /\ Len(<<>>) = 0
    OBVIOUS
  <2>2. CASE back' = <<>>
    BY <2>1, <2>2 DEF NoReplyBehind
  <2>3. CASE back' = <<m>>
    BY <1>5, <2>3 DEF NoReplyBehind
  <2>4. QED
    BY <1>6, <2>2, <2>3
<1>9. Protocol!StartRecv
  BY <1>7 DEF ServerAccept, Protocol!StartRecv, FileRecv, Protocol!FileRecv, RecvPc,
              Protocol!RecvPc, sndVars, Protocol!sndVars, Protocol!netVars
<1>10. QED
  BY <1>3, <1>4, <1>6, <1>8, <1>9 DEF m

\* A client that ends closes its socket: the sender leaves.
LEMMA ExitMaps ==
    ASSUME sPc # "off", ClientExit
    PROVE  Protocol!LeaveSend
BY DEF ClientExit, SndGone, Protocol!LeaveSend, Protocol!SndGone, RepliesIn, rcvVars,
       Protocol!rcvVars, LoseSuffix, Protocol!LoseSuffix

\* A breaking connection keeps a reply or loses it.
LEMMA CutMaps ==
    ASSUME UploadCounts, Cut
    PROVE  /\ Protocol!Cut
           /\ back' \in Seq(UploadMsg) /\ NoReplyBehind(back')
           /\ \A i \in 1..Len(back') : i \in 1..Len(back) /\ back'[i] = back[i]
<1>1. back \in Seq(UploadMsg) /\ NoReplyBehind(back)
  BY DEF UploadCounts, UploadTypeOK
<1>2. back' \in LoseSuffix(back)
  BY DEF Cut
<1>3. /\ back' \in Seq(UploadMsg) /\ NoReplyBehind(back')
      /\ RepliesIn(back') \in LoseSuffix(RepliesIn(back))
      /\ \A i \in 1..Len(back') : i \in 1..Len(back) /\ back'[i] = back[i]
  BY <1>1, <1>2, RepliesInCut
<1>4. Protocol!Cut
  BY <1>3 DEF Cut, Protocol!Cut, sndVars, Protocol!sndVars, rcvVars, Protocol!rcvVars,
              LoseSuffix, Protocol!LoseSuffix
<1>5. QED
  BY <1>3, <1>4

\* The handler's ways to return.
ServerEnds ==
    \/ ServerRefuse \/ ServerNoRequest \/ ServerMkdirFails \/ ServerOpenFails
    \/ ServerInterrupted \/ ServerFinish
    \/ rPc # "off" /\ ServerCrash

\* However the handler ends, the receiver leaves.
LEMMA EndsMap ==
    ASSUME UploadCounts, ServerEnds
    PROVE  /\ rPc # "off" /\ rPc' = "off"
           /\ Protocol!LeaveRecv
           /\ back' \in Seq(UploadMsg) /\ NoReplyBehind(back')
           /\ sess' \in Session \cup {NoSess}
           /\ UNCHANGED <<src, dst, sndVars>>
<1>1. rPc # "off"
  BY DEF ServerEnds, ServerRefuse, ServerNoRequest, ServerMkdirFails, ServerOpenFails,
         ServerInterrupted, ServerFinish
<1>2. PICK msgs \in Seq(UploadMsg) : /\ \A i \in 1..Len(msgs) : ~IsReply(msgs[i])
                                     /\ ServerReturns(msgs)
  <2>1. CASE ServerReturns(<<>>)
    <3>1. <<>> \in Seq(UploadMsg) /\ \A i \in 1..Len(<<>>) : ~IsReply(<<>>[i])
      OBVIOUS
    <3>2. QED
      BY <2>1, <3>1
  <2>2. CASE \E m \in {[type |-> "error"], [type |-> "fin"]} : ServerReturns(<<m>>)
    BY <2>2, LastWords
  <2>3. CASE ServerOpenFails
    <3>1. PICK s \in FindSession : ServerReturns(<<[type |-> "res", seq |-> SessionSeq(s)],
                                                   [type |-> "error"]>>)
      BY <2>3 DEF ServerOpenFails
    <3>2. SessionSeq(s) \in 0..MaxChunks
      BY FoundIsSession DEF UploadCounts
    <3>3. QED
      BY <3>1, <3>2, LastWords
  <2>4. QED
    BY <2>1, <2>2, <2>3 DEF ServerEnds, ServerRefuse, ServerNoRequest, ServerMkdirFails,
                            ServerInterrupted, ServerFinish, ServerCrash
<1>3. /\ Protocol!LeaveRecv
      /\ back' \in Seq(UploadMsg) /\ NoReplyBehind(back')
  BY <1>1, <1>2, ReturningLeaves
<1>4. rPc' = "off" /\ UNCHANGED <<src, dst, sndVars>>
  BY <1>2 DEF ServerReturns, RcvGone
<1>5. sess' \in Session \cup {NoSess}
  <2>1. CASE UNCHANGED sess \/ sess' = NoSess
    BY <2>1 DEF UploadCounts, UploadTypeOK
  <2>2. CASE ServerMkdirFails
    BY <2>2, FoundIsSession DEF ServerMkdirFails, Left, UploadCounts
  <2>3. CASE ServerOpenFails
    <3>1. PICK s \in FindSession : sess' = Left([s EXCEPT !.state = "interrupted", !.last = 0])
      BY <2>3 DEF ServerOpenFails
    <3>2. [s EXCEPT !.state = "interrupted", !.last = 0] \in Session
      <4>1. s \in Session
        BY FoundIsSession DEF UploadCounts
      <4>2. 0 \in 0..MaxChunks
        BY TransferAssumption
      <4>3. QED
        BY <4>1, <4>2 DEF Session
    <3>3. QED
      BY <3>1, <3>2 DEF Left
  <2>4. CASE ServerInterrupted
    <3>1. sess \in Session /\ rSeq \in 0..MaxChunks
      BY <2>4 DEF ServerInterrupted, UploadCounts, UploadTypeOK
    <3>2. [sess EXCEPT !.state = "interrupted", !.last = rSeq] \in Session
      BY <3>1 DEF Session
    <3>3. QED
      BY <2>4, <3>2 DEF ServerInterrupted, Left
  <2>5. QED
    BY <2>1, <2>2, <2>3, <2>4 DEF ServerEnds, ServerRefuse, ServerNoRequest, ServerFinish,
                                  ServerCrash
<1>6. QED
  BY <1>1, <1>3, <1>4, <1>5
-----------------------------------------------------------------------------
\* Steps of an upload that are steps of the chunk protocol whatever the user does.
ProtocolStep ==
    \/ ClientStart \/ ClientGiveUp \/ ClientFin \/ ClientKilled
    \/ SendStep /\ UNCHANGED sess
    \/ RecvStep /\ UNCHANGED sess
    \/ ServerAccept
    \/ ServerEnds
    \/ NetworkStep

\* A step of an upload is a step of the chunk protocol, the start of file_send, or a
\* step of the user; a server that dies between attempts only loses its sessions.
LEMMA UploadSteps ==
    ASSUME [UploadNext]_uploadVars
    PROVE  \/ ProtocolStep
           \/ ClientRes
           \/ Edit
           \/ Remove
           \/ UNCHANGED vars /\ sess' \in {sess, NoSess} /\ (sess' = sess \/ rPc = "off")
BY DEF UploadNext, uploadVars, ClientStep, ServerStep, ServerCrash, ProtocolStep, ServerEnds

\* The chunk protocol's part of it.
LEMMA ProtocolSteps ==
    ASSUME UploadCounts, ProtocolStep
    PROVE  Protocol!Next
<1> USE DEF netVars, sndVars, rcvVars, Protocol!netVars, Protocol!sndVars, Protocol!rcvVars,
            Protocol!Next
<1>1. CASE ClientStart
  BY <1>1 DEF ClientStart, Connect, Protocol!Connect, RepliesIn
<1>2. CASE ClientGiveUp \/ ClientFin
  BY <1>2, ExitMaps DEF ClientGiveUp, ClientFin
<1>3. CASE ClientKilled
  BY <1>3 DEF ClientKilled, LeaveSend, SndGone, Protocol!LeaveSend, Protocol!SndGone,
              RepliesIn, LoseSuffix, Protocol!LoseSuffix
<1>4. CASE SendStep
  BY <1>4, SendStepMaps
<1>5. CASE RecvStep
  BY <1>5, RecvStepMaps
<1>6. CASE ServerAccept
  BY <1>6, AcceptMaps
<1>7. CASE ServerEnds
  BY <1>7, EndsMap
<1>8. CASE Cut
  BY <1>8, CutMaps
<1>9. CASE Corrupt
  BY <1>9 DEF Corrupt, Protocol!Corrupt
<1>10. QED
  BY <1>1, <1>2, <1>3, <1>4, <1>5, <1>6, <1>7, <1>8, <1>9 DEF ProtocolStep, NetworkStep

\* The assumption of the chunk protocol on its constants.
LEMMA ProtocolAssumption == Protocol!TransferAssumption
BY TransferAssumption DEF Protocol!Chunks, Chunks, Protocol!Idx, Idx

\* The state but for the server's messages and the session is typed as in the protocol.
TypedAsProtocol == Protocol!TypeOK /\ back \in Seq(UploadMsg) /\ sess \in Session \cup {NoSess}

\* That is all a step has to keep for the state to stay typed.
LEMMA UploadTypesPrime == TypedAsProtocol' => UploadTypeOK'
BY DEF TypedAsProtocol, UploadTypeOK, Protocol!TypeOK, Protocol!Chunks, Chunks, Protocol!Idx, Idx,
       Protocol!FwdMsg, FwdMsg

\* Every step but the start of file_send and the user's keeps the counters in step.
LEMMA ProtocolCounts ==
    ASSUME UploadCounts, ProtocolStep
    PROVE  Protocol!Counts'
<1>1. Protocol!Counts /\ [Protocol!Next]_(Protocol!vars)
  BY ProtocolSteps DEF UploadCounts
<1>2. QED
  BY <1>1, ProtocolAssumption, Protocol!CountsInductive

\* file_send starts where UPLOAD_RES says, which may be beyond the end of the file.
LEMMA ResCounts ==
    ASSUME UploadCounts, ClientRes
    PROVE  UploadCounts'
<1>1. /\ back \in Seq(UploadMsg) /\ NoReplyBehind(back) /\ back # <<>> /\ sPc = "wait"
      /\ back' = Tail(back)
  BY DEF UploadCounts, UploadTypeOK, ClientRes
<1>2. /\ Head(back) = back[1] /\ back[1] \in UploadMsg /\ back[1].type = "res"
      /\ back' \in Seq(UploadMsg) /\ NoReplyBehind(back') /\ RepliesIn(back') = <<>>
      /\ RepliesIn(back) = <<>>
  BY <1>1, RepliesInTail DEF ClientRes, IsReply
<1>3. back[1].seq \in 0..MaxChunks
  BY <1>2 DEF UploadMsg, BackMsg
<1> DEFINE k == ResumeFrom(back[1].seq)
<1>4. k \in 0..MaxChunks
  BY <1>3, UploadAssumption, TransferAssumption DEF ResumeFrom
<1>5. /\ sSeq' = k /\ sPc' = IF k < src.n THEN "ready" ELSE "done"
      /\ UNCHANGED <<src, dst, link, fwd, rPc, rSeq, rPos, rErr, held, sess>>
  BY <1>2 DEF ClientRes, FileSend, SendPc, rcvVars
<1> HIDE DEF k
<1>6. Protocol!TypeOK /\ Protocol!TypeOK'
  <2>1. Protocol!TypeOK
    BY DEF UploadCounts, Protocol!Counts
  <2>2. RepliesIn(back)' \in Seq(Protocol!BackMsg)
    BY <1>2
  <2>3. QED
    BY <1>4, <1>5, <2>1, <2>2 DEF Protocol!TypeOK, Protocol!Idx
<1>7. src.n \in Nat /\ rSeq \in Nat
  BY <1>6, TransferAssumption DEF Protocol!TypeOK
<1>8. Protocol!RecvCounts' /\ Protocol!WireCounts'
  BY <1>5 DEF UploadCounts, Protocol!Counts, Protocol!RecvCounts, Protocol!WireCounts,
              Protocol!Agrees, Protocol!Expected
<1>9. Protocol!SendCounts'
  BY <1>5 DEF Protocol!SendCounts
<1>10. ASSUME rPc # "off"
       PROVE  /\ fwd = <<>> /\ Expected = 0 /\ Protocol!Expected = 0
              /\ back' = <<>> /\ rPc # "wait"
  <2>1. fwd = <<>> /\ Protocol!Expected = 0
    BY <1>1, <1>10 DEF UploadCounts, Protocol!Counts, Protocol!PeerCounts
  <2>2. Len(back) = 1 /\ rPc # "wait"
    BY <1>1, <1>10 DEF UploadCounts, AnswersOnly
  <2>3. QED
    BY <1>1, <2>1, <2>2, RepliesInTail DEF Expected, Protocol!Expected
<1>11. (rPc # "off" => Protocol!PeerCounts)'
  BY <1>2, <1>5, <1>10 DEF Protocol!PeerCounts, Protocol!Agrees, Protocol!Expected
<1>12. (rPc # "off" => AnswersOnly /\ ClientSide)'
  BY <1>4, <1>5, <1>7, <1>10 DEF AnswersOnly, ClientSide, Expected
<1>13. UploadTypeOK'
  BY <1>2, <1>5, <1>6, UploadTypesPrime DEF TypedAsProtocol, UploadCounts, UploadTypeOK
<1>14. QED
  BY <1>2, <1>5, <1>6, <1>8, <1>9, <1>11, <1>12, <1>13 DEF UploadCounts, Protocol!Counts

\* What the client does after a chunk or an answer keeps the two sides in agreement.
LEMMA SendSides ==
    ASSUME UploadCounts, Protocol!Counts', SendStep, UNCHANGED sess
    PROVE  /\ back' \in Seq(UploadMsg) /\ NoReplyBehind(back')
           /\ rPc' = rPc
           /\ rPc # "off" => (AnswersOnly /\ ClientSide)'
<1>1. back \in Seq(UploadMsg) /\ NoReplyBehind(back) /\ (rPc # "off" => AnswersOnly /\ ClientSide)
  BY DEF UploadCounts, UploadTypeOK
<1>2. rPc # "off" => Protocol!PeerCounts
  BY DEF UploadCounts, Protocol!Counts
<1> USE DEF netVars, sndVars, rcvVars
<1>3. CASE SendChunk
  BY <1>1, <1>2, <1>3 DEF SendChunk, AnswersOnly, ClientSide
<1>4. CASE ReadFails
  BY <1>1, <1>2, <1>4 DEF ReadFails, AnswersOnly, ClientSide, Protocol!PeerCounts
<1>5. CASE SendFails
  BY <1>1, <1>2, <1>5 DEF SendFails, AnswersOnly, ClientSide
<1>6. CASE ReplyLost
  BY <1>1, <1>2, <1>6 DEF ReplyLost, AnswersOnly, ClientSide
<1>7. CASE RecvReply
  <2>1. /\ back # <<>> /\ sPc = "await" /\ back' = Tail(back)
        /\ UNCHANGED <<src, link, fwd, rPc, rSeq>>
    BY <1>7 DEF RecvReply
  <2>2. /\ Head(back) = back[1]
        /\ back' \in Seq(UploadMsg) /\ NoReplyBehind(back')
        /\ Len(back) = 1 => back' = <<>>
        /\ RepliesIn(back) = IF IsReply(back[1]) THEN <<back[1]>> ELSE <<>>
    BY <1>1, <2>1, RepliesInTail
  <2>3. ASSUME rPc # "off" PROVE (AnswersOnly /\ ClientSide)'
    <3>1. Len(back) = 1 /\ IsReply(back[1]) /\ rPc # "wait"
      BY <1>1, <2>1, <2>3 DEF AnswersOnly
    <3>2. RepliesIn(back) = <<back[1]>> /\ back' = <<>>
      BY <2>2, <3>1
    <3>3. Len(<<back[1]>>) = 1 /\ <<back[1]>> # <<>> /\ <<back[1]>>[1] = back[1]
      OBVIOUS
    <3>4. /\ Len(fwd) + 1 <= 1
          /\ back[1].type = "ok" => Expected = sSeq + 1
      BY <1>2, <2>1, <2>3, <3>2, <3>3
         DEF Protocol!PeerCounts, Protocol!Expected, Expected
    <3>5. /\ fwd \in Seq(FwdMsg) /\ sSeq \in Nat /\ src.n \in Nat /\ rSeq \in Nat /\ sSeq < src.n
      BY <2>1, TransferAssumption
         DEF UploadCounts, UploadTypeOK, Protocol!Counts, Protocol!SendCounts
    <3>6. fwd = <<>>
      BY <3>4, <3>5
    <3>7. /\ sPc' \in {"ready", "done", "fail"}
          /\ sPc' = "done" => /\ sSeq' = sSeq + 1 /\ sSeq + 1 >= src.n
                              /\ back[1].type = "ok"
          /\ sPc' # "fail"
      BY <1>7, <2>2, <3>1, <3>5 DEF RecvReply, FileSend, SendPc, IsReply
    <3>8. sPc' = "done" => sSeq' >= src.n /\ Expected' = src.n
      BY <2>1, <3>4, <3>5, <3>7 DEF Expected
    <3>9. QED
      BY <2>1, <3>1, <3>2, <3>6, <3>7, <3>8 DEF AnswersOnly, ClientSide
  <2>4. QED
    BY <2>1, <2>2, <2>3
<1>8. QED
  BY <1>3, <1>4, <1>5, <1>6, <1>7 DEF SendStep

\* So does what the server does with a chunk.
LEMMA RecvSides ==
    ASSUME UploadCounts, Protocol!Counts', RecvStep, UNCHANGED sess
    PROVE  /\ back' \in Seq(UploadMsg) /\ NoReplyBehind(back')
           /\ rPc \notin {"off", "wait"}
           /\ rPc' # "off" /\ (AnswersOnly /\ ClientSide)'
<1>1. /\ back \in Seq(UploadMsg) /\ NoReplyBehind(back) /\ fwd \in Seq(FwdMsg)
      /\ rSeq \in Nat /\ src.n \in Nat /\ link \in {"up", "down"}
  BY TransferAssumption DEF UploadCounts, UploadTypeOK
<1>2. /\ rPc \notin {"off", "wait"} /\ rPc' \notin {"off", "wait"}
      /\ UNCHANGED <<src, link, sPc, sSeq>>
  <2>1. CASE RecvGood
    BY <2>1 DEF RecvGood, RecvReturn, sndVars, netVars
  <2>2. CASE WriteChunk
    BY <2>2 DEF WriteChunk, RecvPc, sndVars, netVars
  <2>3. CASE RecvCorrupt
    BY <2>3 DEF RecvCorrupt, sndVars, rcvVars
  <2>4. CASE RecvReplyFails
    BY <2>4 DEF RecvReplyFails, RecvReturn, sndVars
  <2>5. CASE RecvEnd
    BY <2>5 DEF RecvEnd, RecvReturn, sndVars, netVars
  <2>6. QED
    BY <2>1, <2>2, <2>3, <2>4, <2>5 DEF RecvStep
<1>3. AnswersOnly /\ ClientSide
  BY <1>2 DEF UploadCounts
<1>4. /\ back' \in Seq(UploadMsg) /\ NoReplyBehind(back')
      /\ \/ back' = back
         \/ \E t \in {"ok", "again"} : back' = <<[type |-> t]>> /\ sPc = "await"
  <2>1. CASE back' = back
    BY <1>1, <2>1
  <2>2. CASE rPc = "recv" /\ fwd # <<>> /\ \E t \in {"ok", "again"} : back' = Sent(back, [type |-> t])
    BY <2>2, AnswerMaps
  <2>3. QED
    BY <2>1, <2>2 DEF RecvStep, RecvCorrupt, RecvGood, RecvReplyFails, RecvEnd, WriteChunk, netVars
<1>5. AnswersOnly'
  <2>1. \A t \in {"ok", "again"} : /\ Len(<<[type |-> t]>>) = 1
                                   /\ IsReply(<<[type |-> t]>>[1])
    BY DEF IsReply
  <2>2. QED
    BY <1>2, <1>3, <1>4, <2>1 DEF AnswersOnly
<1>6. fwd = <<>> => fwd' = <<>> /\ Expected' = Expected
  BY <1>1 DEF RecvStep, RecvCorrupt, RecvGood, RecvReplyFails, RecvEnd, WriteChunk, netVars,
              RecvReturn, RecvPc, Expected
<1>7. ClientSide'
  BY <1>2, <1>3, <1>6 DEF ClientSide
<1>8. QED
  BY <1>2, <1>4, <1>5, <1>7

\* Every step of an upload keeps the invariant, whatever fails and whatever the user does.
LEMMA UploadCountsInductive ==
    ASSUME UploadCounts, [UploadNext]_uploadVars
    PROVE  UploadCounts'
<1>1. CASE ProtocolStep
  <2>1. Protocol!Counts'
    BY <1>1, ProtocolCounts
  <2>2. SUFFICES /\ back' \in Seq(UploadMsg) /\ NoReplyBehind(back')
                 /\ sess' \in Session \cup {NoSess}
                 /\ (rPc \notin {"off", "wait"} => sess \in Session)'
                 /\ (rPc # "off" => AnswersOnly /\ ClientSide)'
    BY <2>1, UploadTypesPrime DEF UploadCounts, TypedAsProtocol, Protocol!Counts
  <2>3. /\ back \in Seq(UploadMsg) /\ NoReplyBehind(back) /\ sess \in Session \cup {NoSess}
        /\ rPc \notin {"off", "wait"} => sess \in Session
        /\ rPc # "off" => AnswersOnly /\ ClientSide
    BY DEF UploadCounts, UploadTypeOK
  <2>4. <<>> \in Seq(UploadMsg) /\ NoReplyBehind(<<>>)
    BY DEF NoReplyBehind
  <2> USE DEF netVars, sndVars, rcvVars
  <2>5. CASE ClientStart
    BY <2>3, <2>4, <2>5 DEF ClientStart, Connect, AnswersOnly, ClientSide
  <2>6. CASE ClientGiveUp \/ ClientFin \/ ClientKilled
    <3>1. /\ back' = <<>> /\ sPc' = "off" /\ link' = "down"
          /\ UNCHANGED <<rPc, sess>>
      BY <2>6 DEF ClientGiveUp, ClientFin, ClientKilled, ClientExit, LeaveSend, SndGone
    <3>2. QED
      BY <2>3, <2>4, <3>1 DEF AnswersOnly, ClientSide
  <2>7. CASE SendStep /\ UNCHANGED sess
    BY <2>1, <2>3, <2>7, SendSides
  <2>8. CASE RecvStep /\ UNCHANGED sess
    BY <2>1, <2>3, <2>8, RecvSides
  <2>9. CASE ServerAccept
    <3>1. /\ back' \in Seq(UploadMsg) /\ NoReplyBehind(back') /\ sess' \in Session
          /\ \/ back' = <<>>
             \/ \E s \in FindSession : back' = <<[type |-> "res", seq |-> SessionSeq(s)]>> /\ link = "up"
      BY <2>9, AcceptMaps
    <3>2. /\ rPc = "wait" /\ rPc' \notin {"off", "wait"} /\ UNCHANGED <<link, sPc>>
      BY <2>9 DEF ServerAccept, FileRecv, RecvPc
    <3>3. sPc \in {"off", "wait"} /\ (link = "up" => sPc = "wait") /\ (sPc = "off" => link = "down")
      BY <2>3, <3>2 DEF ClientSide
    <3>4. AnswersOnly'
      <4>1. \A k : /\ Len(<<[type |-> "res", seq |-> k]>>) = 1
                   /\ <<[type |-> "res", seq |-> k]>>[1].type = "res"
        OBVIOUS
      <4>2. QED
        BY <3>1, <3>2, <3>3, <4>1 DEF AnswersOnly
    <3>5. ClientSide'
      BY <3>2, <3>3 DEF ClientSide
    <3>6. QED
      BY <3>1, <3>4, <3>5
  <2>10. CASE ServerEnds
    BY <2>10, EndsMap
  <2>11. CASE Cut /\ UNCHANGED sess
    <3>1. /\ back' \in Seq(UploadMsg) /\ NoReplyBehind(back')
          /\ \A i \in 1..Len(back') : i \in 1..Len(back) /\ back'[i] = back[i]
      BY <2>11, CutMaps
    <3>2. /\ link' = "down" /\ UNCHANGED <<src, sPc, sSeq, rPc, rSeq>>
          /\ fwd = <<>> => fwd' = <<>>
      BY <2>11, LoseSuffixPrefix DEF Cut, UploadCounts, UploadTypeOK
    <3>3. AnswersOnly => AnswersOnly'
      <4>1. SUFFICES ASSUME AnswersOnly, back' # <<>> PROVE AnswersOnly'
        BY DEF AnswersOnly
      <4>2. Len(back') \in Nat /\ Len(back') >= 1 /\ Len(back') \in 1..Len(back)
        BY <3>1, <4>1
      <4>3. back # <<>> /\ back'[1] = back[1]
        BY <2>3, <3>1, <4>2
      <4>4. Len(back) = 1
        BY <4>1, <4>3 DEF AnswersOnly
      <4>5. QED
        BY <3>2, <4>1, <4>2, <4>3, <4>4 DEF AnswersOnly
    <3>4. ClientSide => ClientSide'
      BY <3>2 DEF ClientSide, Expected
    <3>5. QED
      BY <2>3, <2>11, <3>1, <3>2, <3>3, <3>4
  <2>12. CASE Corrupt /\ UNCHANGED sess
    BY <2>3, <2>12 DEF Corrupt, AnswersOnly, ClientSide, Expected
  <2>13. QED
    BY <1>1, <2>5, <2>6, <2>7, <2>8, <2>9, <2>10, <2>11, <2>12 DEF ProtocolStep, NetworkStep
<1>2. CASE ClientRes
  BY <1>2, ResCounts
<1>3. CASE Edit \/ Remove
  <2>1. /\ src' \in Sources /\ dst' \in [Idx -> Chunks \cup {Hole, Torn}]
        /\ UNCHANGED <<link, fwd, back, sPc, sSeq, rPc, rSeq, rPos, rErr, held, sess>>
        /\ src' = src \/ (sPc = "off" /\ rPc = "off")
    BY <1>3 DEF Edit, Remove, UploadCounts, UploadTypeOK, EmptyFile, netVars, sndVars, rcvVars
  <2>2. UploadTypeOK'
    BY <2>1 DEF UploadCounts, UploadTypeOK
  <2>3. Protocol!TypeOK'
    BY <2>1 DEF UploadCounts, Protocol!Counts, Protocol!TypeOK, Protocol!Idx, Idx, Protocol!Chunks,
                Chunks
  <2>4. rSeq \in Nat /\ rPos \in Nat /\ src'.n \in Nat
    BY <2>1, TransferAssumption DEF UploadCounts, UploadTypeOK
  <2>5. Protocol!RecvCounts' /\ Protocol!WireCounts' /\ Protocol!SendCounts'
    BY <2>1, <2>4 DEF UploadCounts, Protocol!Counts, Protocol!RecvCounts, Protocol!WireCounts,
                Protocol!SendCounts, Protocol!Agrees, Protocol!Expected
  <2>6. (rPc # "off" => Protocol!PeerCounts)'
    BY <2>1 DEF UploadCounts, Protocol!Counts, Protocol!PeerCounts, Protocol!Agrees,
                Protocol!Expected
  <2>7. (rPc # "off" => AnswersOnly /\ ClientSide)'
    BY <2>1 DEF UploadCounts, AnswersOnly, ClientSide, Expected
  <2>8. QED
    BY <2>1, <2>2, <2>3, <2>5, <2>6, <2>7 DEF UploadCounts, Protocol!Counts, NoReplyBehind
<1>4. CASE UNCHANGED vars /\ sess' \in {sess, NoSess} /\ (sess' = sess \/ rPc = "off")
  BY <1>4 DEF vars, netVars, sndVars, rcvVars, UploadCounts, UploadTypeOK, Protocol!Counts,
              Protocol!TypeOK, Protocol!RecvCounts, Protocol!WireCounts, Protocol!SendCounts,
              Protocol!PeerCounts, Protocol!Agrees, Protocol!Expected, NoReplyBehind,
              AnswersOnly, ClientSide, Expected
<1>5. QED
  BY <1>1, <1>2, <1>3, <1>4, UploadSteps

\* The invariant holds in every behaviour of an upload.
THEOREM UploadInvariant == UploadSpec => []UploadCounts
<1>1. UploadInit => UploadCounts
  <2>1. SUFFICES ASSUME UploadInit PROVE UploadCounts
    OBVIOUS
  <2>2. back = <<>> /\ RepliesIn(back) = <<>> /\ rPc = "off"
    BY <2>1 DEF UploadInit, Init, RepliesIn
  <2>3. UploadTypeOK
    BY <2>1, <2>2, TransferAssumption DEF UploadInit, Init, UploadTypeOK, EmptyFile, Idx
  <2>4. Protocol!TypeOK
    <3>1. <<>> \in Seq(Protocol!BackMsg) /\ <<>> \in Seq(Protocol!FwdMsg)
      OBVIOUS
    <3>2. QED
      BY <2>2, <2>3, <3>1
         DEF UploadTypeOK, Protocol!TypeOK, Idx, Protocol!Idx, Chunks, Protocol!Chunks, FwdMsg,
             Protocol!FwdMsg
  <2>5. Protocol!Counts
    BY <2>1, <2>2, <2>4, TransferAssumption
       DEF UploadInit, Init, Protocol!Counts, Protocol!RecvCounts, Protocol!WireCounts,
           Protocol!SendCounts
  <2>6. NoReplyBehind(back)
    BY <2>2 DEF NoReplyBehind
  <2>7. QED
    BY <2>2, <2>3, <2>5, <2>6 DEF UploadCounts
<1>2. UploadCounts /\ [UploadNext]_uploadVars => UploadCounts'
  BY UploadCountsInductive
<1>3. QED
  BY <1>1, <1>2, PTL DEF UploadSpec

\* Type correctness of the upload.
THEOREM UploadTypeCorrect == UploadSpec => []UploadTypeOK
<1>1. UploadCounts => UploadTypeOK
  BY DEF UploadCounts
<1>2. QED
  BY <1>1, UploadInvariant, PTL

\* The sequence check of file_recv never fails in an upload: not after a restart of
\* either side, nor when the session's resume point is for another version of the file,
\* nor when the server's copy was removed or its disk is full.
THEOREM UploadNeverOutOfStep == UploadSpec => []NoSeqMismatch
<1>1. UploadCounts => NoSeqMismatch
  BY DEF UploadCounts, Protocol!Counts, Protocol!RecvCounts, NoSeqMismatch
<1>2. QED
  BY <1>1, UploadInvariant, PTL

\* Client and server wait for each other on a live connection only if the client could
\* not read its file or started at or beyond its end.
THEOREM StallsOnlyFromClient == UploadSpec => []MutualWaitOnlyFromClient
<1>1. UploadCounts => MutualWaitOnlyFromClient
  <2>1. SUFFICES ASSUME UploadCounts, MutualWait, sPc = "done"
                 PROVE  rSeq = 0 /\ sSeq > 0 /\ sSeq >= src.n
    BY DEF MutualWaitOnlyFromClient, MutualWait
  <2>2. rPc = "recv" /\ rSeq \in Nat /\ sSeq \in Nat /\ src.n \in Nat
    BY <2>1, TransferAssumption DEF MutualWait, UploadCounts, UploadTypeOK
  <2>3. rSeq < src.n
    BY <2>1, <2>2 DEF UploadCounts, Protocol!Counts, Protocol!RecvCounts
  <2>4. sSeq >= src.n /\ (rSeq = src.n \/ rSeq = 0)
    BY <2>1, <2>2 DEF UploadCounts, ClientSide, Expected
  <2>5. QED
    BY <2>2, <2>3, <2>4
<1>2. QED
  BY <1>1, UploadInvariant, PTL
-----------------------------------------------------------------------------
(* A file that is neither edited nor removed, on a disk that takes every write *)

\* An attempt may start at chunk k.
SafeStart(k) == k <= src.n /\ Protocol!Intact(dst, src, k)

\* The resume points there are, in the session and on their way to the client, are
\* places to start at.
ResumePointsSafe ==
    /\ sess # NoSess /\ sess.state = "interrupted" => SafeStart(sess.last)
    /\ \A i \in 1..Len(back) : back[i].type = "res" => SafeStart(back[i].seq)

\* The inductive invariant for such a file.
UploadData == Protocol!DataInStep /\ ResumePointsSafe

\* A step that starts a transfer starts it where the receiver holds everything before:
\* the byte the client keeps of the resume point is never beyond it.
LEMMA AllStepsMap ==
    ASSUME ~Editable, ~Removable, UploadCounts, ResumePointsSafe, [UploadNext]_uploadVars
    PROVE  [Protocol!Next]_(Protocol!vars)
<1>1. CASE ProtocolStep
  BY <1>1, ProtocolSteps
<1>2. CASE ClientRes
  <2>1. /\ back \in Seq(UploadMsg) /\ NoReplyBehind(back) /\ back # <<>> /\ sPc = "wait"
        /\ back' = Tail(back)
    BY <1>2 DEF UploadCounts, UploadTypeOK, ClientRes
  <2>2. /\ Head(back) = back[1] /\ back[1] \in UploadMsg /\ back[1].type = "res"
        /\ RepliesIn(back') = <<>> /\ RepliesIn(back) = <<>> /\ 1 \in 1..Len(back)
    BY <1>2, <2>1, RepliesInTail DEF ClientRes, IsReply
  <2>3. back[1].seq \in 0..MaxChunks /\ src.n \in Nat
    BY <2>2, TransferAssumption DEF UploadMsg, BackMsg, UploadCounts, UploadTypeOK
  <2> DEFINE k == ResumeFrom(back[1].seq)
  <2>4. k \in Nat /\ k <= back[1].seq
    BY <2>3, UploadAssumption, TransferAssumption DEF ResumeFrom
  <2>5. FileSend(k) /\ UNCHANGED <<src, dst, link, fwd, rcvVars>>
    BY <1>2, <2>2 DEF ClientRes
  <2> HIDE DEF k
  <2>6. back[1].seq <= src.n /\ Protocol!Intact(dst, src, back[1].seq)
    BY <2>2 DEF ResumePointsSafe, SafeStart
  <2>7. k \in 0..src.n /\ Protocol!Intact(dst, src, k)
    <3>1. k \in 0..src.n
      BY <2>3, <2>4, <2>6
    <3>2. \A i \in Protocol!Idx : i < k => i < back[1].seq
      BY <2>3, <2>4, TransferAssumption DEF Protocol!Idx
    <3>3. QED
      BY <2>6, <3>1, <3>2 DEF Protocol!Intact
  <2>8. Protocol!StartSend(k)
    BY <2>1, <2>2, <2>5 DEF Protocol!StartSend, FileSend, Protocol!FileSend, SendPc,
       Protocol!SendPc, Protocol!netVars, rcvVars, Protocol!rcvVars
  <2>9. QED
    BY <2>7, <2>8 DEF Protocol!ResumeSend, Protocol!Next
<1>3. CASE Edit \/ Remove
  BY <1>3 DEF Edit, Remove
<1>4. CASE UNCHANGED vars
  BY <1>4 DEF vars, netVars, sndVars, rcvVars, Protocol!vars, Protocol!netVars,
              Protocol!sndVars, Protocol!rcvVars
<1>5. QED
  BY <1>1, <1>2, <1>3, <1>4, UploadSteps

\* What the server may add to the messages on their way: a reply to a chunk, an ERROR,
\* UPLOAD_RES with the resume point of the session it found, and UPLOAD_FIN when
\* file_recv has the whole file.
MayBeSent(m) ==
    \/ m.type \in {"ok", "again", "error"}
    \/ m.type = "fin" /\ rPc = "done"
    \/ \E s \in FindSession : m = [type |-> "res", seq |-> SessionSeq(s)]

\* Nothing else is ever added.
LEMMA MessagesFrom ==
    ASSUME UploadCounts, [UploadNext]_uploadVars, NEW i \in 1..Len(back')
    PROVE  (\E j \in 1..Len(back) : back'[i] = back[j]) \/ MayBeSent(back'[i])
<1>1. back \in Seq(UploadMsg) /\ NoReplyBehind(back)
  BY DEF UploadCounts, UploadTypeOK
<1>2. CASE back' = back
  BY <1>2
<1>3. CASE back' = <<>>
  BY <1>3
<1>4. CASE back # <<>> /\ back' = Tail(back)
  BY <1>1, <1>4, RepliesInTail
<1>5. CASE Cut
  BY <1>5, CutMaps
<1>6. CASE RecvStep
  <2>1. CASE rPc = "recv" /\ fwd # <<>> /\ \E t \in {"ok", "again"} : back' = Sent(back, [type |-> t])
    <3>1. PICK t \in {"ok", "again"} : back' = Sent(back, [type |-> t])
      BY <2>1
    <3>2. back' = back \/ back' = <<[type |-> t]>>
      BY <2>1, <3>1, AnswerMaps
    <3>3. back' = <<[type |-> t]>> => back'[i].type = t
      OBVIOUS
    <3>4. QED
      BY <1>2, <3>2, <3>3 DEF MayBeSent
  <2>2. QED
    BY <1>2, <1>6, <2>1
       DEF RecvStep, RecvCorrupt, RecvGood, RecvReplyFails, RecvEnd, WriteChunk, netVars
<1>7. CASE ServerAccept
  <2>1. SUFFICES ASSUME NEW s \in FindSession,
                        back' = <<[type |-> "res", seq |-> SessionSeq(s)]>>
                 PROVE  MayBeSent(back'[i])
    BY <1>3, <1>7, AcceptMaps
  <2>2. back'[i] = [type |-> "res", seq |-> SessionSeq(s)]
    BY <2>1
  <2>3. QED
    BY <2>2 DEF MayBeSent
<1>8. CASE ServerEnds
  <2>1. rPc # "off"
    BY <1>8, EndsMap
  <2>2. PICK msgs \in Seq(UploadMsg) : /\ ServerReturns(msgs)
                                       /\ \A j \in 1..Len(msgs) : ~IsReply(msgs[j]) /\ MayBeSent(msgs[j])
    <3>1. CASE ServerReturns(<<>>)
      <4>1. <<>> \in Seq(UploadMsg) /\ \A j \in 1..Len(<<>>) : FALSE
        OBVIOUS
      <4>2. QED
        BY <3>1, <4>1
    <3>2. CASE ServerReturns(<<[type |-> "error"]>>)
      <4>1. MayBeSent([type |-> "error"])
        BY DEF MayBeSent
      <4>2. QED
        BY <3>2, <4>1, LastWords
    <3>3. CASE ServerFinish
      <4>1. rPc = "done"
        BY <3>3 DEF ServerFinish, UploadCounts, Protocol!Counts, Protocol!RecvCounts
      <4>2. MayBeSent([type |-> "fin"])
        BY <4>1 DEF MayBeSent
      <4>3. QED
        BY <3>3, <4>2, LastWords DEF ServerFinish
    <3>4. CASE ServerOpenFails
      <4>1. PICK s \in FindSession : ServerReturns(<<[type |-> "res", seq |-> SessionSeq(s)],
                                                     [type |-> "error"]>>)
        BY <3>4 DEF ServerOpenFails
      <4> DEFINE m == [type |-> "res", seq |-> SessionSeq(s)]
                 n == [type |-> "error"]
      <4>2. MayBeSent(m) /\ MayBeSent(n)
        BY DEF MayBeSent
      <4>3. SessionSeq(s) \in 0..MaxChunks
        BY FoundIsSession DEF UploadCounts
      <4>4. <<m, n>> \in Seq(UploadMsg) /\ \A j \in 1..Len(<<m, n>>) : ~IsReply(<<m, n>>[j])
        BY <4>3, LastWords
      <4>5. ServerReturns(<<m, n>>)
        BY <4>1
      <4> HIDE DEF m, n
      <4>6. \A j \in 1..Len(<<m, n>>) : <<m, n>>[j] = m \/ <<m, n>>[j] = n
        OBVIOUS
      <4>7. QED
        BY <4>2, <4>4, <4>5, <4>6
    <3>5. QED
      BY <1>8, <3>1, <3>2, <3>3, <3>4
         DEF ServerEnds, ServerRefuse, ServerNoRequest, ServerMkdirFails, ServerInterrupted, ServerCrash
  <2>3. \/ i \in 1..Len(back) /\ back'[i] = back[i]
        \/ \E j \in 1..Len(msgs) : back'[i] = msgs[j]
    BY <2>1, <2>2, ReturningLeaves
  <2>4. QED
    BY <2>2, <2>3
<1>9. QED
  <2>1. CASE ClientStart \/ ClientGiveUp \/ ClientFin \/ ClientKilled
    BY <1>3, <2>1 DEF ClientStart, Connect, ClientGiveUp, ClientFin, ClientExit, ClientKilled, LeaveSend
  <2>2. CASE SendStep
    BY <1>2, <1>4, <2>2 DEF SendStep, SendChunk, ReadFails, SendFails, RecvReply, ReplyLost, netVars
  <2>3. CASE ClientRes
    BY <1>4, <2>3 DEF ClientRes
  <2>4. CASE Corrupt \/ Edit \/ Remove \/ UNCHANGED vars
    BY <1>2, <2>4 DEF Corrupt, Edit, Remove, vars, netVars
  <2>5. QED
    BY <1>5, <1>6, <1>7, <1>8, <2>1, <2>2, <2>3, <2>4, UploadSteps DEF ProtocolStep, NetworkStep

\* A session that handle_upload finds is the one left behind, or a new one.
LEMMA FoundIsOld ==
    ASSUME NEW s \in FindSession
    PROVE  (s = sess /\ sess # NoSess) \/ s.state = "idle"
<1>1. CASE sess # NoSess
  BY <1>1 DEF FindSession
<1>2. CASE sess = NoSess
  <2>1. PICK k : s = [state |-> "idle", last |-> 0, kept |-> k]
    BY <1>2 DEF FindSession
  <2>2. QED
    BY <2>1
<1>3. QED
  BY <1>1, <1>2

\* A session marked interrupted was so before, starts over, or says what file_recv has
\* counted.
LEMMA InterruptedFrom ==
    ASSUME UploadCounts, [UploadNext]_uploadVars, sess' # NoSess, sess'.state = "interrupted"
    PROVE  \/ sess' = sess
           \/ sess'.last = 0
           \/ sess'.last = rSeq
<1>1. sess \in Session \cup {NoSess}
  BY DEF UploadCounts, UploadTypeOK
<1>2. CASE UNCHANGED sess \/ sess' = NoSess
  BY <1>2
<1>3. CASE ServerMkdirFails
  <2>1. PICK s \in FindSession : sess' = Left(s)
    BY <1>3 DEF ServerMkdirFails
  <2>2. sess' = s
    BY <2>1 DEF Left
  <2>3. QED
    BY <2>2, FoundIsOld
<1>4. CASE ServerAccept
  <2>1. PICK s \in FindSession : sess' = [s EXCEPT !.state = "running"]
    BY <1>4 DEF ServerAccept
  <2>2. s \in Session
    BY FoundIsSession DEF UploadCounts
  <2>3. sess'.state = "running"
    BY <2>1, <2>2 DEF Session
  <2>4. QED
    BY <2>3
<1>5. CASE ServerOpenFails
  <2>1. PICK s \in FindSession : sess' = Left([s EXCEPT !.state = "interrupted", !.last = 0])
    BY <1>5 DEF ServerOpenFails
  <2>2. s \in Session
    BY FoundIsSession DEF UploadCounts
  <2>3. sess' = [s EXCEPT !.state = "interrupted", !.last = 0]
    BY <2>1 DEF Left
  <2>4. QED
    BY <2>2, <2>3 DEF Session
<1>6. CASE ServerInterrupted
  <2>1. sess \in Session
    BY <1>6 DEF ServerInterrupted, UploadCounts
  <2>2. sess' = [sess EXCEPT !.state = "interrupted", !.last = rSeq]
    BY <1>6 DEF ServerInterrupted, Left
  <2>3. QED
    BY <2>1, <2>2 DEF Session
<1>7. QED
  BY <1>2, <1>3, <1>4, <1>5, <1>6
     DEF UploadNext, uploadVars, ClientStart, ClientStep, ClientRes, ClientGiveUp, ClientFin,
         ClientExit, ClientKilled, ServerStep, ServerRefuse, ServerNoRequest, ServerFinish,
         ServerCrash, NetworkStep, Edit, Remove

\* The start of the file is a place to start at, and so is the resume point that
\* handle_upload sends.
LEMMA FoundIsSafe ==
    ASSUME UploadCounts, ResumePointsSafe, NEW s \in FindSession
    PROVE  SafeStart(0) /\ SafeStart(SessionSeq(s))
<1>1. SafeStart(0)
  BY TransferAssumption DEF SafeStart, Protocol!Intact, Protocol!Idx, UploadCounts, UploadTypeOK
<1>2. CASE s.state = "interrupted"
  BY <1>1, <1>2, FoundIsOld DEF ResumePointsSafe, SessionSeq
<1>3. CASE s.state # "interrupted"
  BY <1>1, <1>3 DEF SessionSeq
<1>4. QED
  BY <1>1, <1>2, <1>3

\* A place to start at remains one.
LEMMA SafeStays ==
    ASSUME ~DiskFaults, UploadCounts, Protocol!DataInStep, [Protocol!Next]_(Protocol!vars),
           NEW k, SafeStart(k)
    PROVE  k <= src'.n /\ Protocol!Intact(dst', src', k)
<1>1. Protocol!Counts
  BY DEF UploadCounts
<1>2. Protocol!Intact(dst', src', k)
  BY <1>1, ProtocolAssumption, Protocol!StoredStays DEF SafeStart
<1>3. src' = src
  BY ProtocolAssumption, Protocol!OnlyWritesChange
<1>4. QED
  BY <1>2, <1>3 DEF SafeStart

\* Every step keeps the data in step with the counters and the resume points safe.
LEMMA UploadDataInductive ==
    ASSUME ~Editable, ~Removable, ~DiskFaults, UploadCounts, UploadCounts', UploadData,
           [UploadNext]_uploadVars
    PROVE  UploadData'
<1>1. Protocol!Counts /\ Protocol!Counts' /\ Protocol!DataInStep /\ ResumePointsSafe
  BY DEF UploadCounts, UploadData
<1>2. [Protocol!Next]_(Protocol!vars)
  BY <1>1, AllStepsMap
<1>3. Protocol!DataInStep'
  BY <1>1, <1>2, ProtocolAssumption, Protocol!DataInductive
<1>4. \A k : SafeStart(k) => k <= src'.n /\ Protocol!Intact(dst', src', k)
  BY <1>1, <1>2, SafeStays
<1>5. ASSUME sess' # NoSess, sess'.state = "interrupted"
      PROVE  sess'.last <= src'.n /\ Protocol!Intact(dst', src', sess'.last)
  <2>1. SafeStart(rSeq)
    BY <1>1 DEF SafeStart, Protocol!Counts, Protocol!RecvCounts, Protocol!DataInStep,
                Protocol!RecvData
  <2>2. SafeStart(0)
    BY TransferAssumption DEF SafeStart, Protocol!Intact, Protocol!Idx, UploadCounts, UploadTypeOK
  <2>3. sess' = sess => SafeStart(sess.last)
    BY <1>1, <1>5 DEF ResumePointsSafe
  <2>4. SafeStart(sess'.last)
    BY <1>5, <2>1, <2>2, <2>3, InterruptedFrom
  <2>5. QED
    BY <1>4, <2>4
<1>6. ASSUME NEW i \in 1..Len(back'), back'[i].type = "res"
      PROVE  back'[i].seq <= src'.n /\ Protocol!Intact(dst', src', back'[i].seq)
  <2>1. SafeStart(back'[i].seq)
    <3>1. CASE \E j \in 1..Len(back) : back'[i] = back[j]
      BY <1>1, <1>6, <3>1 DEF ResumePointsSafe
    <3>2. CASE MayBeSent(back'[i])
      <4>1. PICK s \in FindSession : back'[i] = [type |-> "res", seq |-> SessionSeq(s)]
        BY <1>6, <3>2 DEF MayBeSent
      <4>2. back'[i].seq = SessionSeq(s)
        BY <4>1
      <4>3. QED
        BY <1>1, <4>2, FoundIsSafe
    <3>3. QED
      BY <3>1, <3>2, MessagesFrom
  <2>2. QED
    BY <1>4, <2>1
<1>7. ResumePointsSafe'
  BY <1>5, <1>6 DEF ResumePointsSafe, SafeStart, Protocol!Intact
<1>8. QED
  BY <1>3, <1>7 DEF UploadData

\* The data stays in step with the counters, and the resume points safe, in every upload
\* of a file that is left alone.
THEOREM UploadDataInvariant ==
    ASSUME ~Editable, ~Removable, ~DiskFaults
    PROVE  UploadSpec => []UploadData
<1>1. UploadInit => UploadData
  <2>1. SUFFICES ASSUME UploadInit PROVE UploadData
    OBVIOUS
  <2>2. Protocol!DataInStep
    BY <2>1, TransferAssumption
       DEF UploadInit, Init, Protocol!DataInStep, Protocol!DiskData, Protocol!RecvData,
           Protocol!WireData, EmptyFile, Idx, Protocol!Intact, Protocol!Idx
  <2>3. ResumePointsSafe
    BY <2>1 DEF UploadInit, Init, ResumePointsSafe
  <2>4. QED
    BY <2>2, <2>3 DEF UploadData
<1>2. UploadCounts /\ UploadCounts' /\ UploadData /\ [UploadNext]_uploadVars => UploadData'
  BY UploadDataInductive
<1>3. QED
  BY <1>1, <1>2, UploadInvariant, PTL DEF UploadSpec

\* The resume point of an interrupted session is never beyond what the server has on
\* disk.
THEOREM SessionResumesSafely ==
    ASSUME ~Editable, ~Removable, ~DiskFaults
    PROVE  UploadSpec => []ResumeWithinStored
<1>1. UploadData => ResumeWithinStored
  BY DEF UploadData, ResumePointsSafe, SafeStart, ResumeWithinStored, Intact, Protocol!Intact,
         ChunkOf, Protocol!ChunkOf, Idx, Protocol!Idx
<1>2. QED
  BY <1>1, UploadDataInvariant, PTL

\* UPLOAD_FIN is sent only when the server's copy is the file.
LEMMA FinMeansStored ==
    ASSUME UploadCounts, UploadData, [UploadNext]_uploadVars, ~FinSent, FinSent'
    PROVE  Intact(dst, src, src.n)
<1>1. PICK i \in 1..Len(back') : back'[i].type = "fin"
  BY DEF FinSent
<1>2. MayBeSent(back'[i])
  BY <1>1, MessagesFrom DEF FinSent
<1>3. rPc = "done"
  <2>1. \A k : [type |-> "res", seq |-> k].type # "fin"
    OBVIOUS
  <2>2. ~\E s \in FindSession : back'[i] = [type |-> "res", seq |-> SessionSeq(s)]
    BY <1>1, <2>1
  <2>3. QED
    BY <1>1, <1>2, <2>2 DEF MayBeSent
<1>4. rSeq = src.n
  BY <1>3 DEF UploadCounts, Protocol!Counts, Protocol!RecvCounts
<1>5. Protocol!Intact(dst, src, src.n)
  BY <1>4 DEF UploadData, Protocol!DataInStep, Protocol!RecvData
<1>6. QED
  BY <1>5 DEF Intact, Protocol!Intact, ChunkOf, Protocol!ChunkOf, Idx, Protocol!Idx

\* The server reports a successful upload only for a complete copy.
THEOREM FinIsComplete ==
    ASSUME ~Editable, ~Removable, ~DiskFaults
    PROVE  UploadSpec => FinOnlyWhenStored
<1>1. UploadCounts /\ UploadData /\ [UploadNext]_uploadVars
          => [~FinSent /\ FinSent' => Intact(dst, src, src.n)]_uploadVars
  BY FinMeansStored
<1>2. QED
  BY <1>1, UploadInvariant, UploadDataInvariant, PTL DEF UploadSpec, FinOnlyWhenStored
-----------------------------------------------------------------------------
(* The refinement: Protocol and Chunked are the chunk protocol under the same mapping. *)

\* A step of the one is a step of the other.
LEMMA SameSteps == [Protocol!Next]_(Protocol!vars) => [Chunked!Next]_(Chunked!vars)
<1> SUFFICES ASSUME [Protocol!Next]_(Protocol!vars)
             PROVE  [Chunked!Next]_(Chunked!vars)
  OBVIOUS
<1> USE DEF Protocol!netVars, Protocol!sndVars, Protocol!rcvVars,
            Chunked!netVars, Chunked!sndVars, Chunked!rcvVars
<1>1. CASE Protocol!Connect
  BY <1>1 DEF Protocol!Connect, Chunked!Connect, Chunked!Next
<1>2. CASE Protocol!ResumeSend
  <2>1. PICK k \in 0..src.n : Protocol!Intact(dst, src, k) /\ Protocol!StartSend(k)
    BY <1>2 DEF Protocol!ResumeSend
  <2>2. Chunked!Intact(dst, src, k)
    BY <2>1 DEF Protocol!Intact, Chunked!Intact, Protocol!ChunkOf, Chunked!ChunkOf, Protocol!Idx,
                Chunked!Idx
  <2>3. Chunked!StartSend(k)
    BY <2>1 DEF Protocol!StartSend, Chunked!StartSend, Protocol!FileSend, Chunked!FileSend,
                Protocol!SendPc, Chunked!SendPc
  <2>4. QED
    BY <2>2, <2>3 DEF Chunked!ResumeSend, Chunked!Next
<1>3. CASE Protocol!StartRecv
  BY <1>3 DEF Protocol!StartRecv, Chunked!StartRecv, Protocol!FileRecv, Chunked!FileRecv,
              Protocol!RecvPc, Chunked!RecvPc, Chunked!Next
<1>4. CASE Protocol!SendStep
  <2>1. CASE Protocol!SendChunk
    BY <2>1 DEF Protocol!SendChunk, Chunked!SendChunk, Protocol!Sent, Chunked!Sent,
                Protocol!ChunkMsg, Chunked!ChunkMsg, Protocol!ChunkOf, Chunked!ChunkOf,
                Chunked!Next, Chunked!SendStep
  <2>2. CASE Protocol!ReadFails
    BY <2>2 DEF Protocol!ReadFails, Chunked!ReadFails, Chunked!Next, Chunked!SendStep
  <2>3. CASE Protocol!SendFails
    BY <2>3 DEF Protocol!SendFails, Chunked!SendFails, Chunked!Next, Chunked!SendStep
  <2>4. CASE Protocol!RecvReply
    BY <2>4 DEF Protocol!RecvReply, Chunked!RecvReply, Protocol!FileSend, Chunked!FileSend,
                Protocol!SendPc, Chunked!SendPc, Chunked!Next, Chunked!SendStep
  <2>5. CASE Protocol!ReplyLost
    BY <2>5 DEF Protocol!ReplyLost, Chunked!ReplyLost, Chunked!Next, Chunked!SendStep
  <2>6. QED
    BY <1>4, <2>1, <2>2, <2>3, <2>4, <2>5 DEF Protocol!SendStep
<1>5. CASE Protocol!RecvStep
  <2>1. CASE Protocol!RecvCorrupt
    BY <2>1 DEF Protocol!RecvCorrupt, Chunked!RecvCorrupt, Protocol!Sent, Chunked!Sent,
                Chunked!Next, Chunked!RecvStep
  <2>2. CASE Protocol!RecvGood
    BY <2>2 DEF Protocol!RecvGood, Chunked!RecvGood, Protocol!Sent, Chunked!Sent,
                Protocol!ResumeSeq, Chunked!ResumeSeq, Protocol!ResumePos, Chunked!ResumePos,
                Protocol!RecvReturn, Chunked!RecvReturn, Chunked!Next, Chunked!RecvStep
  <2>3. CASE Protocol!RecvReplyFails
    BY <2>3 DEF Protocol!RecvReplyFails, Chunked!RecvReplyFails,
                Protocol!ResumeSeq, Chunked!ResumeSeq, Protocol!ResumePos, Chunked!ResumePos,
                Protocol!RecvReturn, Chunked!RecvReturn, Chunked!Next, Chunked!RecvStep
  <2>4. CASE Protocol!RecvEnd
    BY <2>4 DEF Protocol!RecvEnd, Chunked!RecvEnd, Protocol!RecvReturn, Chunked!RecvReturn,
                Chunked!Next, Chunked!RecvStep
  <2>5. CASE Protocol!WriteChunk
    BY <2>5 DEF Protocol!WriteChunk, Chunked!WriteChunk, Protocol!WriteAt, Chunked!WriteAt,
                Protocol!StaleBehind, Chunked!StaleBehind, Protocol!Idx, Chunked!Idx,
                Protocol!RecvPc, Chunked!RecvPc, Chunked!Next, Chunked!RecvStep
  <2>6. QED
    BY <1>5, <2>1, <2>2, <2>3, <2>4, <2>5 DEF Protocol!RecvStep
<1>6. CASE Protocol!Cut
  BY <1>6 DEF Protocol!Cut, Chunked!Cut, Protocol!LoseSuffix, Chunked!LoseSuffix, Chunked!Next
<1>7. CASE Protocol!Corrupt
  BY <1>7 DEF Protocol!Corrupt, Chunked!Corrupt, Chunked!Next
<1>8. CASE Protocol!LeaveSend
  BY <1>8 DEF Protocol!LeaveSend, Chunked!LeaveSend, Protocol!SndGone, Chunked!SndGone,
              Protocol!LoseSuffix, Chunked!LoseSuffix, Chunked!Next
<1>9. CASE Protocol!LeaveRecv
  BY <1>9 DEF Protocol!LeaveRecv, Chunked!LeaveRecv, Protocol!RcvGone, Chunked!RcvGone,
              Protocol!LoseSuffix, Chunked!LoseSuffix, Chunked!Next
<1>10. CASE UNCHANGED Protocol!vars
  BY <1>10 DEF Protocol!vars, Chunked!vars
<1>11. QED
  BY <1>1, <1>2, <1>3, <1>4, <1>5, <1>6, <1>7, <1>8, <1>9, <1>10 DEF Protocol!Next

\* An upload of a file that is left alone is a run of the chunk protocol, through every
\* interrupted and resumed attempt.
THEOREM ImplementsChunks ==
    ASSUME ~Editable, ~Removable, ~DiskFaults
    PROVE  UploadSpec => UploadsByChunks
<1>1. UploadInit => Chunked!Init
  BY DEF UploadInit, Init, Chunked!Init, RepliesIn, EmptyFile, Chunked!EmptyFile, Idx, Chunked!Idx
<1>2. UploadCounts /\ UploadData /\ [UploadNext]_uploadVars => [Chunked!Next]_(Chunked!vars)
  BY AllStepsMap, SameSteps DEF UploadData
<1>3. QED
  BY <1>1, <1>2, UploadInvariant, UploadDataInvariant, PTL
     DEF UploadSpec, UploadsByChunks, Chunked!Spec

\* So an upload, resumed as often as it takes, only ever appends the next chunk of the
\* file to the server's copy, and file_recv succeeds only on a complete one.
THEOREM UploadCopiesInOrder ==
    ASSUME ~Editable, ~Removable, ~DiskFaults
    PROVE  UploadSpec => CopiesInOrder
<1>1. UploadSpec => Protocol!Spec
  <2>1. UploadInit => Protocol!Init
    BY DEF UploadInit, Init, Protocol!Init, RepliesIn, EmptyFile, Protocol!EmptyFile, Idx,
           Protocol!Idx
  <2>2. UploadCounts /\ UploadData /\ [UploadNext]_uploadVars => [Protocol!Next]_(Protocol!vars)
    BY AllStepsMap DEF UploadData
  <2>3. QED
    BY <2>1, <2>2, UploadInvariant, UploadDataInvariant, PTL DEF UploadSpec, Protocol!Spec
<1>2. Protocol!Spec => Protocol!CopiesInOrder
  BY ProtocolAssumption, Protocol!ImplementsCopy
<1>3. Protocol!CopiesInOrder => CopiesInOrder
  <2>1. Protocol!Copy!Init => Copy!Init
    BY DEF Protocol!Copy!Init, Copy!Init, Idx, Protocol!Idx, ChunkOf, Protocol!ChunkOf
  <2>2. [Protocol!Copy!Next]_(Protocol!Copy!vars) => [Copy!Next]_(Copy!vars)
    BY DEF Protocol!Copy!Next, Copy!Next, Protocol!Copy!vars, Copy!vars, Protocol!Copy!Deliver,
           Copy!Deliver, Protocol!Copy!HasBefore, Copy!HasBefore, Protocol!Copy!Complete,
           Copy!Complete, ChunkOf, Protocol!ChunkOf
  <2>3. QED
    BY <2>1, <2>2, PTL DEF Protocol!CopiesInOrder, CopiesInOrder, Protocol!Copy!Spec, Copy!Spec
<1>4. QED
  BY <1>1, <1>2, <1>3, PTL
=============================================================================
