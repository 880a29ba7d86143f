--------------------------- MODULE DownloadProofs ---------------------------
(***************************************************************************)
(* Proofs about the download: what holds however the server's file is      *)
(* replaced between attempts, and, for a file that is left alone, that a   *)
(* download is a run of the chunk protocol.  The theorems of               *)
(* TransferProofs are used through the refinement mapping.                 *)
(***************************************************************************)
EXTENDS Download, TransferProofs

Protocol == INSTANCE TransferProofs WITH
    fwd <- ChunksIn(fwd), back <- RepliesIn(back), rErr <- ChunkErr

ReplyMsg == BackMsg \cup [type : {"bye"}]

\* DOWNLOAD_RES is the first message of the server, a chunk or an ERROR the last one.
ServerWords(q) ==
    \A i \in 1..Len(q) : /\ q[i].type \in {"chunk", "error"} => i = Len(q)
                         /\ q[i].type = "res" => i = 1

\* What the server can be doing.  On a live connection, a server that waits for a reply
\* has its chunk or the reply in flight; one that could not read its file has none, and
\* the client is not past the chunk that is missing.
ServerSide ==
    /\ sPc = "off" => link = "down"
    /\ sPc = "wait" => fwd = <<>> /\ rPc \in {"off", "wait"}
    /\ sPc = "await" /\ link = "up" => ChunksIn(fwd) # <<>> \/ RepliesIn(back) # <<>>
    /\ sPc = "done" => ChunksIn(fwd) = <<>>
    /\ sPc = "fail" => /\ sSeq < src.n
                       /\ link = "up" => ChunksIn(fwd) = <<>> /\ Protocol!Agrees(sSeq)
    /\ sPc \notin {"off", "wait"} => sess \in Session

\* What the client can be doing.
ClientSide ==
    /\ rPc = "off" => fwd = <<>>
    /\ rPc = "fail" => link = "down"
    /\ \A i \in 1..Len(fwd) : /\ fwd[i].type = "res" => rPc = "wait"
                              /\ fwd[i].type = "error" => sPc = "off"

\* The server never takes DOWNLOAD_FIN for a reply to a chunk: the client says it after
\* the last chunk only, and the reply to that one is still in front of it.
ByeIsLast ==
    \A i \in 1..Len(back) : back[i].type = "bye" =>
        /\ i = Len(back) /\ rPc = "off"
        /\ \/ sPc = "done"
           \/ sPc = "await" /\ back[1].type = "ok" /\ sSeq + 1 >= src.n

\* The inductive invariant of the download, for any faults and any user.
DownloadCounts ==
    /\ DownloadTypeOK
    /\ Protocol!Counts
    /\ NoReplyBehind(back)
    /\ ServerWords(fwd)
    /\ ServerSide
    /\ ClientSide
    /\ ByeIsLast
-----------------------------------------------------------------------------
(* Messages from the server to the client *)

\* The first message in flight decides what is behind it: nothing behind a chunk or an
\* ERROR; behind DOWNLOAD_RES, the chunk if there is one.
LEMMA FirstWord ==
    ASSUME NEW q \in Seq(DownloadMsg), q # <<>>, ServerWords(q)
    PROVE  /\ Head(q) = q[1] /\ q[1] \in DownloadMsg
           /\ Tail(q) \in Seq(DownloadMsg) /\ ServerWords(Tail(q))
           /\ q[1].type # "res" => Len(q) = 1 /\ Tail(q) = <<>>
           /\ q[1].type = "chunk" => ChunksIn(q) = q
           /\ q[1].type = "error" => ChunksIn(q) = <<>>
           /\ q[1].type = "res" => ChunksIn(Tail(q)) = ChunksIn(q)
           /\ \A i \in 1..Len(Tail(q)) : /\ Tail(q)[i].type # "res"
                                         /\ i + 1 \in 1..Len(q) /\ Tail(q)[i] = q[i + 1]
<1>1. /\ Tail(q) \in Seq(DownloadMsg) /\ Head(q) = q[1] /\ q[1] \in DownloadMsg
      /\ Len(Tail(q)) = Len(q) - 1 /\ Len(q) \in Nat /\ Len(q) >= 1
  OBVIOUS
<1>2. \A i \in 1..Len(Tail(q)) : i + 1 \in 1..Len(q) /\ Tail(q)[i] = q[i + 1]
  BY <1>1
<1>3. ServerWords(Tail(q)) /\ \A i \in 1..Len(Tail(q)) : Tail(q)[i].type # "res"
  <2>1. SUFFICES ASSUME NEW i \in 1..Len(Tail(q))
                 PROVE  /\ Tail(q)[i].type \in {"chunk", "error"} => i = Len(Tail(q))
                        /\ Tail(q)[i].type # "res"
    BY DEF ServerWords
  <2>2. i + 1 \in 1..Len(q) /\ Tail(q)[i] = q[i + 1] /\ i \in Nat /\ i >= 1
    BY <1>1, <1>2
  <2>3. /\ q[i + 1].type \in {"chunk", "error"} => i + 1 = Len(q)
        /\ q[i + 1].type = "res" => i + 1 = 1
    BY <2>2 DEF ServerWords
  <2>4. QED
    BY <1>1, <2>2, <2>3
<1>4. q[1].type \in {"chunk", "error", "res"}
  BY <1>1 DEF DownloadMsg, FwdMsg
<1>5. q[1].type # "res" => Len(q) = 1
  <2>1. 1 \in 1..Len(q)
    BY <1>1
  <2>2. QED
    BY <1>4, <2>1 DEF ServerWords
<1>6. Len(q) = 1 => Tail(q) = <<>> /\ q = <<q[1]>>
  <2>1. SUFFICES ASSUME Len(q) = 1 PROVE Tail(q) = <<>> /\ q = <<q[1]>>
    OBVIOUS
  <2>2. Tail(q) = <<>>
    BY <1>1, <2>1, TakeOnly
  <2>3. q = <<q[1]>>
    BY <1>1, <2>1
  <2>4. QED
    BY <2>2, <2>3
<1>7. q[1].type = "chunk" => ChunksIn(q) = q
  <2>1. SUFFICES ASSUME q[1].type = "chunk" PROVE ChunksIn(q) = q
    OBVIOUS
  <2>2. Len(q) = 1 /\ q = <<q[1]>>
    BY <1>5, <1>6, <2>1
  <2>3. ChunksIn(q) = <<q[1]>>
    BY <2>1, <2>2 DEF ChunksIn, IsChunk
  <2>4. QED
    BY <2>2, <2>3
<1>8. q[1].type = "error" => ChunksIn(q) = <<>>
  BY <1>5 DEF ChunksIn, IsChunk
<1>9. q[1].type = "res" => ChunksIn(Tail(q)) = ChunksIn(q)
  <2>1. CASE Len(q) = 1
    BY <1>6, <2>1 DEF ChunksIn, IsChunk
  <2>2. CASE Len(q) # 1
    <3>0. Len(Tail(q)) \in Nat /\ Len(Tail(q)) >= 1 /\ Len(Tail(q)) + 1 = Len(q)
      BY <1>1, <2>2
    <3>a. Tail(q) # <<>>
      <4> DEFINE t == Tail(q)
      <4>1. Len(t) >= 1 /\ t \in Seq(DownloadMsg)
        BY <1>1, <3>0
      <4> HIDE DEF t
      <4>2. t # <<>>
        BY <4>1
      <4>3. QED
        BY <4>2 DEF t
    <3>b. Len(Tail(q)) \in 1..Len(Tail(q))
      <4> DEFINE k == Len(Tail(q))
      <4>1. k \in Nat /\ k >= 1
        BY <3>0
      <4> HIDE DEF k
      <4>2. k \in 1..k
        BY <4>1
      <4>3. QED
        BY <4>2 DEF k
    <3>1. /\ Tail(q) # <<>> /\ Len(Tail(q)) \in 1..Len(Tail(q)) /\ Len(Tail(q)) + 1 = Len(q)
      BY <3>0, <3>a, <3>b
    <3>2. Tail(q)[Len(Tail(q))] = q[Len(q)]
      BY <1>2, <3>1
    <3>3. QED
      BY <3>1, <3>2 DEF ChunksIn
  <2>3. QED
    BY <2>1, <2>2
<1>10. QED
  BY <1>1, <1>2, <1>3, <1>5, <1>6, <1>7, <1>8, <1>9

\* The chunk in flight is a chunk of the protocol.
LEMMA ChunksInType ==
    ASSUME NEW q \in Seq(DownloadMsg)
    PROVE  /\ ChunksIn(q) \in Seq(FwdMsg) /\ Len(ChunksIn(q)) <= 1
           /\ ChunksIn(q) # <<>> => q # <<>> /\ ChunksIn(q)[1] = q[Len(q)] /\ IsChunk(q[Len(q)])
           /\ q = <<>> => ChunksIn(q) = <<>>
<1>1. CASE q # <<>> /\ IsChunk(q[Len(q)])
  <2>1. q[Len(q)] \in FwdMsg
    BY <1>1 DEF DownloadMsg, FwdMsg, IsChunk
  <2>2. ChunksIn(q) = <<q[Len(q)]>>
    BY <1>1 DEF ChunksIn
  <2>3. QED
    BY <1>1, <2>1, <2>2
<1>2. CASE ~(q # <<>> /\ IsChunk(q[Len(q)]))
  BY <1>2 DEF ChunksIn
<1>3. QED
  BY <1>1, <1>2

\* Without a chunk in flight and before an ERROR there is at most DOWNLOAD_RES, and a
\* message may follow.
LEMMA MayFollow ==
    ASSUME NEW q \in Seq(DownloadMsg), ServerWords(q), ChunksIn(q) = <<>>,
           \A i \in 1..Len(q) : q[i].type # "error", NEW m \in DownloadMsg, m.type # "res"
    PROVE  /\ Append(q, m) \in Seq(DownloadMsg) /\ ServerWords(Append(q, m))
           /\ ChunksIn(Append(q, m)) = IF IsChunk(m) THEN <<m>> ELSE <<>>
           /\ Append(q, m) # <<>>
           /\ \A i \in 1..Len(Append(q, m)) :
                 \/ i \in 1..Len(q) /\ Append(q, m)[i] = q[i] /\ q[i].type = "res"
                 \/ Append(q, m)[i] = m
<1> DEFINE a == Append(q, m)
<1>1. a \in Seq(DownloadMsg) /\ Len(a) = Len(q) + 1 /\ a[Len(a)] = m /\ a # <<>> /\ Len(q) \in Nat
  OBVIOUS
<1>2. \A i \in 1..Len(q) : a[i] = q[i]
  OBVIOUS
<1> HIDE DEF a
<1>3. \A i \in 1..Len(q) : q[i].type = "res"
  <2>1. SUFFICES ASSUME NEW i \in 1..Len(q) PROVE q[i].type # "chunk"
    <3>1. \A i \in 1..Len(q) : q[i] \in DownloadMsg
      OBVIOUS
    <3>2. \A i \in 1..Len(q) : q[i].type \in {"chunk", "error", "res"}
      BY <3>1 DEF DownloadMsg, FwdMsg
    <3>3. QED
      BY <3>2
  <2>2. q # <<>> /\ Len(q) \in 1..Len(q)
    BY <1>1
  <2>3. ~IsChunk(q[Len(q)])
    <3>1. \A x : <<x>> # <<>>
      OBVIOUS
    <3>2. QED
      BY <2>2, <3>1 DEF ChunksIn
  <2>4. QED
    BY <2>3 DEF ServerWords, IsChunk
<1>4. \A i \in 1..Len(a) : (i \in 1..Len(q) /\ a[i] = q[i] /\ q[i].type = "res") \/ (i = Len(a) /\ a[i] = m)
  BY <1>1, <1>2, <1>3
<1>5. ServerWords(a)
  <2>1. SUFFICES ASSUME NEW i \in 1..Len(a)
                 PROVE  /\ a[i].type \in {"chunk", "error"} => i = Len(a)
                        /\ a[i].type = "res" => i = 1
    BY DEF ServerWords
  <2>2. \A j \in 1..Len(q) : j = 1
    BY <1>3 DEF ServerWords
  <2>3. QED
    BY <1>4, <2>2
<1>6. ChunksIn(a) = IF IsChunk(m) THEN <<m>> ELSE <<>>
  BY <1>1 DEF ChunksIn
<1>7. QED
  BY <1>1, <1>4, <1>5, <1>6 DEF a

\* What a broken connection leaves of the server's messages keeps the chunk or loses it.
LEMMA ChunksInCut ==
    ASSUME NEW q \in Seq(DownloadMsg), NEW last \in LoseSuffix(q), ServerWords(q)
    PROVE  /\ last \in Seq(DownloadMsg) /\ ServerWords(last)
           /\ ChunksIn(last) \in LoseSuffix(ChunksIn(q))
           /\ ChunksIn(last) \in {<<>>, ChunksIn(q)}
           /\ \A i \in 1..Len(last) : i \in 1..Len(q) /\ last[i] = q[i]
<1>1. PICK k \in 0..Len(q) : last = SubSeq(q, 1, k)
  BY DEF LoseSuffix
<1>2. last \in Seq(DownloadMsg) /\ Len(last) = k /\ \A i \in 1..k : last[i] = q[i]
  BY <1>1
<1>3. \A i \in 1..Len(last) : i \in 1..Len(q) /\ last[i] = q[i]
  BY <1>2
<1>4. ServerWords(last)
  <2>1. SUFFICES ASSUME NEW i \in 1..Len(last)
                 PROVE  /\ last[i].type \in {"chunk", "error"} => i = Len(last)
                        /\ last[i].type = "res" => i = 1
    BY DEF ServerWords
  <2>2. i \in 1..Len(q) /\ last[i] = q[i] /\ i <= k
    BY <1>2, <1>3
  <2>3. /\ q[i].type \in {"chunk", "error"} => i = Len(q)
        /\ q[i].type = "res" => i = 1
    BY <2>2 DEF ServerWords
  <2>4. QED
    BY <1>2, <2>2, <2>3
<1>5. ChunksIn(last) \in {<<>>, ChunksIn(q)}
  <2>1. SUFFICES ASSUME last # <<>>, IsChunk(last[Len(last)])
                 PROVE  ChunksIn(last) = ChunksIn(q)
    BY DEF ChunksIn
  <2>2. k \in 1..Len(last) /\ k \in 1..Len(q) /\ last[k] = q[k]
    BY <1>2, <1>3, <2>1
  <2>3. k = Len(q)
    BY <1>2, <2>1, <2>2 DEF ServerWords, IsChunk
  <2>4. q # <<>> /\ Len(last) = Len(q) /\ last[Len(last)] = q[Len(q)]
    BY <1>2, <2>2, <2>3
  <2>5. QED
    BY <2>1, <2>4 DEF ChunksIn
<1>6. ChunksIn(last) \in LoseSuffix(ChunksIn(q))
  <2>1. <<>> \in LoseSuffix(ChunksIn(q)) /\ ChunksIn(q) \in LoseSuffix(ChunksIn(q))
    BY ChunksInType, LoseAllOrNone
  <2>2. QED
    BY <1>5, <2>1
<1>7. QED
  BY <1>2, <1>3, <1>4, <1>5, <1>6
-----------------------------------------------------------------------------
(* Steps of the download as steps of the chunk protocol *)

\* The assumption of the chunk protocol on its constants.
LEMMA ProtocolAssumption == Protocol!TransferAssumption
BY TransferAssumption DEF Protocol!Chunks, Chunks, Protocol!Idx, Idx

\* The types the proofs use.
LEMMA DownloadTypes ==
    ASSUME DownloadCounts
    PROVE  /\ back \in Seq(ReplyMsg) /\ NoReplyBehind(back)
           /\ fwd \in Seq(DownloadMsg) /\ ServerWords(fwd)
           /\ link \in {"up", "down"} /\ src \in Sources
           /\ sPc \in {"off", "wait", "ready", "await", "done", "fail"}
           /\ rPc \in {"off", "wait", "recv", "write", "done", "fail"}
           /\ src.n \in Nat /\ src.n <= MaxChunks /\ MaxChunks \in Nat
           /\ sSeq \in Nat /\ sSeq <= MaxChunks /\ rSeq \in Nat /\ rSeq <= MaxChunks
           /\ Protocol!Expected \in Nat
           /\ rPc # "off" => Protocol!PeerCounts
           /\ rPc = "off" => link = "down"
           /\ sPc \in {"ready", "await"} => sSeq < src.n
BY TransferAssumption
   DEF DownloadCounts, DownloadTypeOK, ReplyMsg, Protocol!Counts, Protocol!RecvCounts,
       Protocol!SendCounts, Protocol!Expected

\* While the client lives it has not said DOWNLOAD_FIN: all there is in flight from it is
\* the reply to a chunk.
LEMMA OnlyReplies ==
    ASSUME DownloadCounts, rPc # "off"
    PROVE  /\ RepliesIn(back) = <<>> => back = <<>>
           /\ back # <<>> => /\ Len(back) = 1 /\ IsReply(back[1])
                             /\ RepliesIn(back) = <<back[1]>>
           /\ \A i \in 1..Len(back) : back[i].type # "bye"
<1>1. back \in Seq(ReplyMsg) /\ NoReplyBehind(back) /\ Len(back) \in Nat
  BY DownloadTypes
<1>2. \A i \in 1..Len(back) : back[i].type # "bye"
  BY DEF DownloadCounts, ByeIsLast
<1>3. \A i \in 1..Len(back) : IsReply(back[i])
  <2>1. \A i \in 1..Len(back) : back[i] \in ReplyMsg
    BY <1>1
  <2>2. QED
    BY <1>2, <2>1 DEF ReplyMsg, BackMsg, IsReply
<1>4. ASSUME back # <<>> PROVE Len(back) = 1 /\ IsReply(back[1]) /\ RepliesIn(back) = <<back[1]>>
  <2>1. 1 \in 1..Len(back) /\ Len(back) >= 1
    BY <1>1, <1>4
  <2>2. ~(2 \in 2..Len(back))
    <3>1. \A n \in Nat : 2 \in 2..n => 2 \in 1..n
      OBVIOUS
    <3>2. QED
      BY <1>1, <1>3, <3>1 DEF NoReplyBehind
  <2>3. Len(back) = 1
    <3>1. \A n \in Nat : n >= 1 /\ ~(2 \in 2..n) => n = 1
      OBVIOUS
    <3>2. QED
      BY <1>1, <2>1, <2>2, <3>1
  <2>4. RepliesIn(back) = <<back[1]>>
    BY <1>1, <1>3, <1>4, <2>1 DEF RepliesIn
  <2>5. QED
    BY <1>3, <2>1, <2>3, <2>4
<1>5. \A x : <<x>> # <<>>
  OBVIOUS
<1>6. QED
  BY <1>2, <1>4, <1>5

\* A chunk that reaches a client whose connection is up is answered to a server that waits
\* for the answer, with nothing else on the way.
LEMMA AnswerIsAlone ==
    ASSUME DownloadCounts, rPc = "recv", fwd # <<>>, Head(fwd).type = "chunk", link = "up"
    PROVE  back = <<>> /\ sPc = "await"
<1>1. ChunksIn(fwd) = fwd /\ Protocol!PeerCounts
  BY DownloadTypes, FirstWord
<1>2. sPc \notin {"wait", "ready"}
  BY <1>1 DEF Protocol!PeerCounts
<1>3. sPc \notin {"off", "done", "fail"}
  BY <1>1 DEF DownloadCounts, ServerSide
<1>4. sPc = "await"
  BY <1>2, <1>3, DownloadTypes
<1>5. Len(fwd) + Len(RepliesIn(back)) <= 1 /\ Len(fwd) \in Nat /\ Len(fwd) # 0
  BY <1>1, <1>4, DownloadTypes DEF Protocol!PeerCounts
<1>6. ASSUME back # <<>> PROVE FALSE
  <2>1. RepliesIn(back) = <<back[1]>>
    BY <1>6, OnlyReplies
  <2>2. Len(<<back[1]>>) = 1
    OBVIOUS
  <2>3. QED
    BY <1>5, <2>1, <2>2
<1>7. QED
  BY <1>4, <1>6

\* The answer sent to a chunk is the reply of the chunk protocol.
LEMMA AnswerMaps ==
    ASSUME DownloadCounts, rPc = "recv", fwd # <<>>, Head(fwd).type = "chunk",
           NEW t \in {"ok", "again"}, back' = Sent(back, [type |-> t])
    PROVE  /\ RepliesIn(back)' = Protocol!Sent(RepliesIn(back), [type |-> t])
           /\ back' \in Seq(ReplyMsg) /\ NoReplyBehind(back')
           /\ \/ back' = back /\ link = "down"
              \/ back' = <<[type |-> t]>> /\ link = "up"
           /\ link = "up" => RepliesIn(back') # <<>>
<1> DEFINE m == [type |-> t]
<1>1. m \in ReplyMsg /\ IsReply(m)
  BY DEF ReplyMsg, BackMsg, IsReply
<1>2. back' = Sent(back, m)
  OBVIOUS
<1> HIDE DEF m
<1>3. CASE link = "up"
  <2>1. back = <<>>
    BY <1>3, AnswerIsAlone
  <2>2. back' = <<m>>
    BY <1>2, <1>3, <2>1 DEF Sent
  <2>3. Head(<<m>>) = m /\ Len(<<m>>) = 1 /\ <<m>> # <<>> /\ Append(<<>>, m) = <<m>>
    OBVIOUS
  <2>4. RepliesIn(<<m>>) = <<m>> /\ RepliesIn(<<>>) = <<>>
    BY <1>1, <2>3 DEF RepliesIn
  <2>5. <<m>> \in Seq(ReplyMsg) /\ NoReplyBehind(<<m>>)
    BY <1>1, <2>3 DEF NoReplyBehind
  <2>6. QED
    BY <1>3, <2>1, <2>2, <2>3, <2>4, <2>5 DEF Protocol!Sent, m
<1>4. CASE link # "up"
  <2>1. back' = back /\ link = "down"
    BY <1>2, <1>4, DownloadTypes DEF Sent
  <2>2. QED
    BY <1>4, <2>1, DownloadTypes DEF Protocol!Sent
<1>5. QED
  BY <1>3, <1>4

\* file_recv takes the same steps in a download as on its own.
LEMMA RecvStepMaps ==
    ASSUME DownloadCounts, RecvStep
    PROVE  Protocol!RecvStep
<1> USE DEF netVars, sndVars, rcvVars, Protocol!netVars, Protocol!sndVars, Protocol!rcvVars,
            Protocol!RecvStep
<1>1. ASSUME fwd # <<>>, Head(fwd).type = "chunk", fwd' = Tail(fwd)
      PROVE  ChunksIn(fwd) = fwd /\ ChunksIn(fwd)' = Tail(fwd)
  <2>1. ChunksIn(fwd) = fwd /\ Tail(fwd) = <<>>
    BY <1>1, DownloadTypes, FirstWord
  <2>2. ChunksIn(<<>>) = <<>>
    BY DEF ChunksIn
  <2>3. QED
    BY <1>1, <2>1, <2>2
<1>2. CASE RecvCorrupt
  <2>1. RepliesIn(back)' = Protocol!Sent(RepliesIn(back), [type |-> "again"])
    BY <1>2, AnswerMaps DEF RecvCorrupt
  <2>2. QED
    BY <1>1, <1>2, <2>1 DEF RecvCorrupt, Protocol!RecvCorrupt, ChunkErr
<1>3. CASE RecvGood
  <2>0. ChunksIn(fwd) = fwd /\ ChunksIn(fwd)' = Tail(fwd)
    BY <1>1, <1>3 DEF RecvGood
  <2>1. CASE ResumeSeq(Head(fwd)) = Head(fwd).seq
    <3>1. RepliesIn(back)' = Protocol!Sent(RepliesIn(back), [type |-> "ok"])
      BY <1>3, <2>1, AnswerMaps DEF RecvGood
    <3>2. QED
      BY <1>3, <2>0, <2>1, <3>1
         DEF RecvGood, Protocol!RecvGood, ResumeSeq, Protocol!ResumeSeq, ResumePos,
             Protocol!ResumePos, ChunkErr
  <2>2. CASE ResumeSeq(Head(fwd)) # Head(fwd).seq
    BY <1>3, <2>0, <2>2
       DEF RecvGood, Protocol!RecvGood, ResumeSeq, Protocol!ResumeSeq, ResumePos,
           Protocol!ResumePos, RecvReturn, Protocol!RecvReturn, ChunkErr
  <2>3. QED
    BY <2>1, <2>2
<1>4. CASE RecvReplyFails
  <2>1. ChunksIn(fwd) = fwd /\ ChunksIn(fwd)' = Tail(fwd)
    BY <1>1, <1>4 DEF RecvReplyFails
  <2>2. QED
    BY <1>4, <2>1 DEF RecvReplyFails, Protocol!RecvReplyFails, ResumeSeq, Protocol!ResumeSeq,
                ResumePos, Protocol!ResumePos, RecvReturn, Protocol!RecvReturn, ChunkErr
<1>5. CASE RecvEnd
  <2>1. ChunksIn(fwd) = <<>> /\ ChunksIn(fwd)' = ChunksIn(fwd)
    BY <1>5 DEF RecvEnd, ChunksIn
  <2>2. QED
    BY <1>5, <2>1 DEF RecvEnd, Protocol!RecvEnd, RecvReturn, Protocol!RecvReturn, ChunkErr
<1>6. CASE WriteChunk
  BY <1>6 DEF WriteChunk, Protocol!WriteChunk, WriteAt, Protocol!WriteAt, StaleBehind,
              Protocol!StaleBehind, RecvPc, Protocol!RecvPc, Idx, Protocol!Idx, ChunkErr
<1>7. QED
  BY <1>2, <1>3, <1>4, <1>5, <1>6 DEF RecvStep

\* An ERROR in place of a chunk: the server has gone.
LEMMA OtherMaps ==
    ASSUME DownloadCounts, RecvOther
    PROVE  Protocol!RecvEnd /\ link = "down" /\ fwd' = <<>>
<1>1. /\ Head(fwd) = fwd[1] /\ fwd[1] \in DownloadMsg /\ 1 \in 1..Len(fwd)
      /\ fwd[1].type = "error" => ChunksIn(fwd) = <<>>
      /\ fwd[1].type # "res" => Tail(fwd) = <<>>
  <2>1. fwd # <<>>
    BY DEF RecvOther
  <2>2. 1 \in 1..Len(fwd)
    BY <2>1, DownloadTypes
  <2>3. QED
    BY <2>1, <2>2, DownloadTypes, FirstWord
<1>2. fwd[1].type = "error"
  BY <1>1 DEF RecvOther, DownloadMsg, FwdMsg, DownloadCounts, ClientSide
<1>3. link = "down"
  BY <1>1, <1>2 DEF DownloadCounts, ClientSide, ServerSide
<1>4. ChunksIn(fwd) = <<>> /\ fwd' = <<>> /\ ChunksIn(fwd') = <<>>
  BY <1>1, <1>2 DEF RecvOther, ChunksIn
<1>5. Protocol!RecvEnd
  BY <1>3, <1>4 DEF RecvOther, RecvReturn, Protocol!RecvEnd, Protocol!RecvReturn, ChunkErr,
     Protocol!netVars, sndVars, Protocol!sndVars
<1>6. QED
  BY <1>3, <1>4, <1>5

\* The client's file_recv begins: DOWNLOAD_RES is no chunk.
LEMMA ResMaps ==
    ASSUME DownloadCounts, ClientRes
    PROVE  /\ Protocol!StartRecv
           /\ fwd' \in Seq(DownloadMsg) /\ ServerWords(fwd')
           /\ ChunksIn(fwd') = ChunksIn(fwd)
           /\ \A i \in 1..Len(fwd') : /\ fwd'[i].type # "res"
                                      /\ \E j \in 1..Len(fwd) : fwd'[i] = fwd[j]
<1>1. fwd # <<>> /\ Head(fwd).type = "res" /\ fwd' = Tail(fwd)
  BY DEF ClientRes
<1>2. /\ fwd' \in Seq(DownloadMsg) /\ ServerWords(fwd')
      /\ ChunksIn(fwd') = ChunksIn(fwd)
      /\ \A i \in 1..Len(fwd') : /\ fwd'[i].type # "res"
                                 /\ i + 1 \in 1..Len(fwd) /\ fwd'[i] = fwd[i + 1]
  BY <1>1, DownloadTypes, FirstWord
<1>3. Protocol!StartRecv
  BY <1>2 DEF ClientRes, Protocol!StartRecv, FileRecv, Protocol!FileRecv, RecvPc,
              Protocol!RecvPc, sndVars, Protocol!sndVars, Protocol!netVars, ChunkErr
<1>4. QED
  BY <1>2, <1>3

\* A chunk is sent only when none is in flight.
LEMMA SendChunkMaps ==
    ASSUME DownloadCounts, SendChunk
    PROVE  /\ Protocol!SendChunk
           /\ fwd' \in Seq(DownloadMsg) /\ ServerWords(fwd')
           /\ link = "up" => ChunksIn(fwd') # <<>>
           /\ \/ fwd' = fwd
              \/ /\ link = "up"
                 /\ \A i \in 1..Len(fwd') : \/ i \in 1..Len(fwd) /\ fwd'[i] = fwd[i]
                                            \/ fwd'[i] = ChunkMsg(src, sSeq)
<1> DEFINE m == ChunkMsg(src, sSeq)
<1>1. sSeq \in Idx
  BY DownloadTypes DEF SendChunk, Idx
<1>2. m \in DownloadMsg /\ m.type = "chunk" /\ IsChunk(m)
  BY <1>1, ChunkOfType, DownloadTypes DEF ChunkMsg, DownloadMsg, FwdMsg, IsChunk
<1>3. m = Protocol!ChunkMsg(src, sSeq)
  BY DEF ChunkMsg, Protocol!ChunkMsg, ChunkOf, Protocol!ChunkOf
<1>4. fwd' = Sent(fwd, m)
  BY DEF SendChunk
<1>m. \A i : fwd'[i] = m => fwd'[i] = ChunkMsg(src, sSeq)
  OBVIOUS
<1> HIDE DEF m
<1>5. SUFFICES /\ ChunksIn(fwd') = Protocol!Sent(ChunksIn(fwd), m)
               /\ fwd' \in Seq(DownloadMsg) /\ ServerWords(fwd')
               /\ link = "up" => ChunksIn(fwd') # <<>>
               /\ \/ fwd' = fwd
                  \/ /\ link = "up"
                     /\ \A i \in 1..Len(fwd') : (i \in 1..Len(fwd) /\ fwd'[i] = fwd[i]) \/ fwd'[i] = m
  BY <1>3, <1>m DEF SendChunk, Protocol!SendChunk, rcvVars, Protocol!rcvVars, ChunkErr
<1>6. CASE link = "up"
  <2>1. rPc # "off"
    BY <1>6, DownloadTypes
  <2>2. ChunksIn(fwd) = <<>>
    BY <2>1, DownloadTypes DEF SendChunk, Protocol!PeerCounts
  <2>3. \A i \in 1..Len(fwd) : fwd[i].type # "error"
    BY DEF SendChunk, DownloadCounts, ClientSide
  <2>4. fwd' = Append(fwd, m)
    BY <1>4, <1>6 DEF Sent
  <2>5. /\ fwd' \in Seq(DownloadMsg) /\ ServerWords(fwd')
        /\ ChunksIn(fwd') = <<m>>
        /\ \A i \in 1..Len(fwd') : (i \in 1..Len(fwd) /\ fwd'[i] = fwd[i]) \/ fwd'[i] = m
    BY <1>2, <2>2, <2>3, <2>4, DownloadTypes, MayFollow
  <2>6. Append(<<>>, m) = <<m>> /\ <<m>> # <<>>
    OBVIOUS
  <2>7. QED
    BY <1>6, <2>2, <2>5, <2>6 DEF Protocol!Sent
<1>7. CASE link # "up"
  BY <1>4, <1>7, DownloadTypes DEF Sent, Protocol!Sent
<1>8. QED
  BY <1>6, <1>7

\* The server waits for a reply and takes one: DOWNLOAD_FIN is never in its place.
LEMMA ReplyIsTaken ==
    ASSUME DownloadCounts, RecvReply
    PROVE  /\ Protocol!RecvReply
           /\ Head(back) = back[1] /\ IsReply(back[1]) /\ RepliesIn(back) = <<back[1]>>
           /\ back' \in Seq(ReplyMsg) /\ NoReplyBehind(back') /\ RepliesIn(back') = <<>>
           /\ Len(back) = 1 => back' = <<>>
           /\ \A i \in 1..Len(back') : i + 1 \in 1..Len(back) /\ back'[i] = back[i + 1]
<1>1. back # <<>> /\ sPc = "await" /\ back' = Tail(back)
  BY DEF RecvReply
<1>2. /\ Head(back) = back[1] /\ back[1] \in ReplyMsg
      /\ back' \in Seq(ReplyMsg) /\ NoReplyBehind(back') /\ RepliesIn(back') = <<>>
      /\ RepliesIn(back) = IF IsReply(back[1]) THEN <<back[1]>> ELSE <<>>
      /\ Len(back) = 1 => back' = <<>>
      /\ \A i \in 1..Len(back') : i + 1 \in 1..Len(back) /\ back'[i] = back[i + 1]
  BY <1>1, DownloadTypes, RepliesInTail
<1>3. 1 \in 1..Len(back)
  BY <1>1, DownloadTypes
<1>4. back[1].type # "bye"
  BY <1>1, <1>3 DEF DownloadCounts, ByeIsLast
<1>5. IsReply(back[1])
  BY <1>2, <1>4 DEF ReplyMsg, BackMsg, IsReply
<1>6. /\ RepliesIn(back) = <<back[1]>> /\ <<back[1]>> # <<>>
      /\ Head(<<back[1]>>) = back[1] /\ Tail(<<back[1]>>) = <<>>
  BY <1>2, <1>5
<1>7. Protocol!RecvReply
  BY <1>1, <1>2, <1>6 DEF RecvReply, Protocol!RecvReply, FileSend, Protocol!FileSend,
                          SendPc, Protocol!SendPc, rcvVars, Protocol!rcvVars, ChunkErr
<1>8. QED
  BY <1>2, <1>5, <1>6, <1>7

\* file_send takes the same steps in a download as on its own.
LEMMA SendStepMaps ==
    ASSUME DownloadCounts, SendStep
    PROVE  Protocol!SendStep
<1> USE DEF netVars, sndVars, rcvVars, Protocol!netVars, Protocol!sndVars, Protocol!rcvVars,
            Protocol!SendStep, ChunkErr
<1>1. CASE SendChunk
  BY <1>1, SendChunkMaps
<1>2. CASE ReadFails
  BY <1>2 DEF ReadFails, Protocol!ReadFails
<1>3. CASE SendFails
  BY <1>3 DEF SendFails, Protocol!SendFails
<1>4. CASE RecvReply
  BY <1>4, ReplyIsTaken
<1>5. CASE ReplyLost
  BY <1>5 DEF ReplyLost, Protocol!ReplyLost, RepliesIn
<1>6. QED
  BY <1>1, <1>2, <1>3, <1>4, <1>5 DEF SendStep

\* A client that ends closes its socket: the receiver leaves.
LEMMA ClientLeaves ==
    ASSUME DownloadCounts, rPc # "off", NEW msgs \in {<<>>, <<[type |-> "bye"]>>}, ClientExit(msgs)
    PROVE  /\ Protocol!LeaveRecv
           /\ back' \in Seq(ReplyMsg) /\ NoReplyBehind(back')
           /\ \A i \in 1..Len(back') :
                 \/ i \in 1..Len(back) /\ back'[i] = back[i]
                 \/ /\ i = Len(back) + 1 /\ i = Len(back')
                    /\ link = "up" /\ msgs # <<>>
<1> DEFINE bye == <<[type |-> "bye"]>>
<1>1. back \in Seq(ReplyMsg) /\ NoReplyBehind(back) /\ Len(back) \in Nat
  BY DownloadTypes
<1>a. Len(bye) = 1
  OBVIOUS
<1>2. bye \in Seq(ReplyMsg) /\ \A i \in 1..Len(bye) : ~IsReply(bye[i])
  BY DEF ReplyMsg, IsReply
<1>3. msgs \in {<<>>, bye} /\ bye # <<>>
  OBVIOUS
<1> HIDE DEF bye
<1>4. /\ back' \in Seq(ReplyMsg) /\ NoReplyBehind(back')
      /\ RepliesIn(back') \in LoseSuffix(RepliesIn(back))
      /\ \A i \in 1..Len(back') : \/ i \in 1..Len(back) /\ back'[i] = back[i]
                                  \/ i = Len(back) + 1 /\ link = "up" /\ msgs # <<>>
  <2>1. CASE link = "up" /\ msgs = bye
    <3>1. back' \in LoseSuffix(back \o bye)
      BY <2>1 DEF ClientExit
    <3>2. /\ back' \in Seq(ReplyMsg) /\ NoReplyBehind(back')
          /\ RepliesIn(back') \in LoseSuffix(RepliesIn(back))
          /\ \A i \in 1..Len(back') : \/ i \in 1..Len(back) /\ back'[i] = back[i]
                                      \/ \E j \in 1..Len(bye) : i = Len(back) + j /\ back'[i] = bye[j]
      BY <1>1, <1>2, <3>1, RepliesInLost
    <3>3. \A j \in 1..Len(bye) : j = 1
      BY <1>a
    <3>4. QED
      BY <1>3, <2>1, <3>2, <3>3
  <2>2. CASE link # "up" \/ msgs = <<>>
    <3>1. back \o <<>> = back
      BY <1>1
    <3>2. back' \in LoseSuffix(back)
      BY <2>2, <3>1 DEF ClientExit
    <3>3. QED
      BY <1>1, <3>2, RepliesInCut
  <2>3. QED
    BY <1>3, <2>1, <2>2
<1>5. \A i \in 1..Len(back') : i = Len(back) + 1 => i = Len(back')
  <2>1. SUFFICES ASSUME NEW i \in 1..Len(back'), i = Len(back) + 1 PROVE i = Len(back')
    OBVIOUS
  <2>2. Len(back') \in Nat /\ Len(back') \in 1..Len(back')
    BY <1>4, <2>1
  <2>3. Len(back') <= Len(back) \/ Len(back') = Len(back) + 1
    BY <1>1, <1>4, <2>2
  <2>4. QED
    BY <1>1, <2>1, <2>2, <2>3
<1>6. Protocol!LeaveRecv
  BY <1>4 DEF ClientExit, RcvGone, Protocol!LeaveRecv, Protocol!RcvGone, sndVars,
              Protocol!sndVars, LoseSuffix, Protocol!LoseSuffix, ChunksIn, ChunkErr
<1>7. QED
  BY <1>4, <1>5, <1>6

\* Whatever the handler says before it returns, to the chunk protocol the sender leaves.
\* An ERROR on a live connection has no chunk in front of it.
LEMMA ServerLeaves ==
    ASSUME DownloadCounts, sPc # "off", NEW msgs \in {<<>>, <<[type |-> "error"]>>},
           msgs # <<>> /\ link = "up" => ChunksIn(fwd) = <<>>, ServerReturns(msgs)
    PROVE  /\ Protocol!LeaveSend
           /\ fwd' \in Seq(DownloadMsg) /\ ServerWords(fwd')
           /\ \A i \in 1..Len(fwd') : \/ i \in 1..Len(fwd) /\ fwd'[i] = fwd[i]
                                      \/ fwd'[i].type = "error" /\ link = "up"
<1> DEFINE m == [type |-> "error"]
<1>1. m \in DownloadMsg /\ m.type = "error" /\ ~IsChunk(m)
  BY DEF DownloadMsg, IsChunk
<1>2. fwd \in Seq(DownloadMsg) /\ ServerWords(fwd) /\ \A i \in 1..Len(fwd) : fwd[i].type # "error"
  BY DownloadTypes DEF DownloadCounts, ClientSide
<1>3. msgs \in {<<>>, <<m>>} /\ <<m>> # <<>>
  OBVIOUS
<1> HIDE DEF m
<1>4. /\ fwd' \in Seq(DownloadMsg) /\ ServerWords(fwd')
      /\ ChunksIn(fwd') \in LoseSuffix(ChunksIn(fwd))
      /\ \A i \in 1..Len(fwd') : \/ i \in 1..Len(fwd) /\ fwd'[i] = fwd[i]
                                 \/ fwd'[i].type = "error" /\ link = "up"
  <2>1. CASE link = "up" /\ msgs = <<m>>
    <3> DEFINE a == Append(fwd, m)
    <3>1. fwd \o <<m>> = a
      BY <1>2
    <3>2. fwd' \in LoseSuffix(a)
      BY <2>1, <3>1 DEF ServerReturns
    <3>3. ChunksIn(fwd) = <<>>
      BY <1>3, <2>1
    <3>4. /\ a \in Seq(DownloadMsg) /\ ServerWords(a) /\ ChunksIn(a) = <<>>
          /\ \A i \in 1..Len(a) : (i \in 1..Len(fwd) /\ a[i] = fwd[i]) \/ a[i] = m
      BY <1>1, <1>2, <3>3, MayFollow
    <3> HIDE DEF a
    <3>5. /\ fwd' \in Seq(DownloadMsg) /\ ServerWords(fwd')
          /\ ChunksIn(fwd') = <<>>
          /\ \A i \in 1..Len(fwd') : i \in 1..Len(a) /\ fwd'[i] = a[i]
      BY <3>2, <3>4, ChunksInCut
    <3>6. <<>> \in LoseSuffix(ChunksIn(fwd))
      BY <1>2, ChunksInType, LoseAllOrNone
    <3>7. QED
      BY <1>1, <2>1, <3>4, <3>5, <3>6
  <2>2. CASE link # "up" \/ msgs = <<>>
    <3>1. fwd \o <<>> = fwd
      BY <1>2
    <3>2. fwd' \in LoseSuffix(fwd)
      BY <2>2, <3>1 DEF ServerReturns
    <3>3. QED
      BY <1>2, <3>2, ChunksInCut
  <2>3. QED
    BY <1>3, <2>1, <2>2
<1>5. Protocol!LeaveSend
  BY <1>4 DEF ServerReturns, SndGone, Protocol!LeaveSend, Protocol!SndGone, rcvVars,
              Protocol!rcvVars, LoseSuffix, Protocol!LoseSuffix, RepliesIn, ChunkErr
<1>6. QED
  BY <1>4, <1>5

\* A breaking connection keeps a chunk or a reply, or loses it.
LEMMA CutMaps ==
    ASSUME DownloadCounts, Cut
    PROVE  /\ Protocol!Cut
           /\ back' \in Seq(ReplyMsg) /\ NoReplyBehind(back')
           /\ \A i \in 1..Len(back') : i \in 1..Len(back) /\ back'[i] = back[i]
           /\ fwd' \in Seq(DownloadMsg) /\ ServerWords(fwd')
           /\ ChunksIn(fwd') \in {<<>>, ChunksIn(fwd)}
           /\ \A i \in 1..Len(fwd') : i \in 1..Len(fwd) /\ fwd'[i] = fwd[i]
<1>1. back' \in LoseSuffix(back) /\ fwd' \in LoseSuffix(fwd)
  BY DEF Cut
<1>2. /\ back' \in Seq(ReplyMsg) /\ NoReplyBehind(back')
      /\ RepliesIn(back') \in LoseSuffix(RepliesIn(back))
      /\ \A i \in 1..Len(back') : i \in 1..Len(back) /\ back'[i] = back[i]
  BY <1>1, DownloadTypes, RepliesInCut
<1>3. /\ fwd' \in Seq(DownloadMsg) /\ ServerWords(fwd')
      /\ ChunksIn(fwd') \in LoseSuffix(ChunksIn(fwd))
      /\ ChunksIn(fwd') \in {<<>>, ChunksIn(fwd)}
      /\ \A i \in 1..Len(fwd') : i \in 1..Len(fwd) /\ fwd'[i] = fwd[i]
  BY <1>1, DownloadTypes, ChunksInCut
<1>4. Protocol!Cut
  BY <1>2, <1>3 DEF Cut, Protocol!Cut, sndVars, Protocol!sndVars, rcvVars, Protocol!rcvVars,
                    LoseSuffix, Protocol!LoseSuffix, ChunkErr
<1>5. QED
  BY <1>2, <1>3, <1>4

\* A damaged chunk is still the chunk in flight.
LEMMA CorruptMaps ==
    ASSUME DownloadCounts, Corrupt
    PROVE  /\ Protocol!Corrupt
           /\ fwd' \in Seq(DownloadMsg) /\ ServerWords(fwd')
           /\ ChunksIn(fwd') # <<>> /\ ChunksIn(fwd) # <<>>
           /\ \A i \in 1..Len(fwd') : fwd'[i].type = "chunk"
<1>1. fwd # <<>> /\ Head(fwd) = fwd[1] /\ fwd[1].type = "chunk" /\ Len(fwd) = 1 /\ ChunksIn(fwd) = fwd
      /\ fwd[1] \in DownloadMsg
  BY DownloadTypes, FirstWord DEF Corrupt
<1> DEFINE m == [fwd[1] EXCEPT !.ok = FALSE]
<1>2. m \in DownloadMsg /\ m.type = "chunk" /\ IsChunk(m)
  <2>1. fwd[1] \in FwdMsg
    BY <1>1 DEF DownloadMsg
  <2>2. m \in FwdMsg
    BY <2>1 DEF FwdMsg
  <2>3. QED
    BY <2>2 DEF FwdMsg, DownloadMsg, IsChunk
<1>3. fwd' = [fwd EXCEPT ![1] = m]
  BY DEF Corrupt
<1> HIDE DEF m
<1>4. fwd' \in Seq(DownloadMsg) /\ Len(fwd') = 1 /\ fwd'[1] = m
  BY <1>1, <1>2, <1>3, DownloadTypes
<1>5. ServerWords(fwd') /\ fwd' # <<>> /\ \A i \in 1..Len(fwd') : fwd'[i].type = "chunk"
  BY <1>2, <1>4 DEF ServerWords
<1>6. ChunksIn(fwd') = fwd'
  BY <1>2, <1>4, <1>5, FirstWord
<1>7. Protocol!Corrupt
  BY <1>1, <1>6 DEF Corrupt, Protocol!Corrupt, sndVars, Protocol!sndVars, rcvVars,
                    Protocol!rcvVars, ChunkErr
<1>8. QED
  BY <1>1, <1>4, <1>5, <1>6, <1>7

\* The handler's ways to return.
ServerEnds ==
    \/ ServerRefuse \/ ServerNoRequest \/ ServerInterrupted \/ ServerFinish
    \/ sPc # "off" /\ ServerCrash

\* However the handler ends, the sender leaves.
LEMMA EndsMap ==
    ASSUME DownloadCounts, ServerEnds
    PROVE  /\ Protocol!LeaveSend
           /\ fwd' \in Seq(DownloadMsg) /\ ServerWords(fwd')
           /\ \A i \in 1..Len(fwd') : \/ i \in 1..Len(fwd) /\ fwd'[i] = fwd[i]
                                      \/ fwd'[i].type = "error" /\ link = "up"
           /\ sess' \in Session \cup {NoSess}
           /\ sPc' = "off" /\ link' = "down" /\ back' = <<>> /\ rPc' = rPc
<1>1. sPc # "off"
  BY DEF ServerEnds, ServerRefuse, ServerNoRequest, ServerInterrupted, ServerFinish
<1>2. ChunksIn(<<>>) = <<>>
  BY DEF ChunksIn
<1>3. PICK msgs \in {<<>>, <<[type |-> "error"]>>} :
         ServerReturns(msgs) /\ (msgs # <<>> /\ link = "up" => ChunksIn(fwd) = <<>>)
  <2>1. CASE ServerReturns(<<>>)
    BY <2>1
  <2>2. CASE ServerReturns(<<[type |-> "error"]>>) /\ (sPc = "wait" \/ sPc = "fail")
    <3>1. link = "up" => ChunksIn(fwd) = <<>>
      BY <1>2, <2>2 DEF DownloadCounts, ServerSide
    <3>2. QED
      BY <2>2, <3>1
  <2>3. QED
    BY <2>1, <2>2 DEF ServerEnds, ServerRefuse, ServerNoRequest, ServerInterrupted, ServerFinish,
                      ServerCrash
<1>4. /\ Protocol!LeaveSend
      /\ fwd' \in Seq(DownloadMsg) /\ ServerWords(fwd')
      /\ \A i \in 1..Len(fwd') : \/ i \in 1..Len(fwd) /\ fwd'[i] = fwd[i]
                                 \/ fwd'[i].type = "error" /\ link = "up"
  BY <1>1, <1>3, ServerLeaves
<1>5. sPc' = "off" /\ link' = "down" /\ back' = <<>> /\ rPc' = rPc
  BY <1>3 DEF ServerReturns, SndGone, rcvVars
<1>6. sess' \in Session \cup {NoSess}
  <2>1. CASE UNCHANGED sess \/ sess' = NoSess
    BY <2>1 DEF DownloadCounts, DownloadTypeOK
  <2>2. CASE ServerInterrupted
    <3>1. PICK last \in {sSeq - 1, sSeq + 1} :
             sess' = Left([sess EXCEPT !.state = "interrupted", !.last = last])
      BY <2>2 DEF ServerInterrupted
    <3>2. sess \in Session /\ sSeq < src.n
      BY <2>2 DEF ServerInterrupted, DownloadCounts, ServerSide
    <3>3. last \in -1..MaxChunks
      BY <3>2, DownloadTypes
    <3>4. [sess EXCEPT !.state = "interrupted", !.last = last] \in Session
      BY <3>2, <3>3 DEF Session
    <3>5. QED
      BY <3>1, <3>4 DEF Left
  <2>3. QED
    BY <2>1, <2>2 DEF ServerEnds, ServerRefuse, ServerNoRequest, ServerFinish, ServerCrash
<1>7. QED
  BY <1>4, <1>5, <1>6
-----------------------------------------------------------------------------
\* Steps of a download that are steps of the chunk protocol whatever the user does.
ProtocolStep ==
    \/ ClientStart \/ ClientRes \/ ClientGiveUp \/ ClientFin \/ ClientKilled \/ RecvOther
    \/ RecvStep /\ UNCHANGED sess
    \/ SendStep /\ UNCHANGED sess
    \/ ServerEnds
    \/ NetworkStep

\* A step of a download is a step of the chunk protocol, the start of file_send, or a
\* step of the user; a server that dies between attempts only loses its sessions.
LEMMA DownloadSteps ==
    ASSUME [DownloadNext]_downloadVars
    PROVE  \/ ProtocolStep
           \/ ServerAccept
           \/ Replace
           \/ UNCHANGED vars /\ sess' \in {sess, NoSess} /\ (sess' = sess \/ sPc = "off")
BY DEF DownloadNext, downloadVars, ClientStep, ServerStep, ServerCrash, ProtocolStep, ServerEnds

\* The client ends, by itself or killed.
LEMMA ClientEnds ==
    ASSUME DownloadCounts, ClientGiveUp \/ ClientFin \/ ClientKilled
    PROVE  \E msgs \in {<<>>, <<[type |-> "bye"]>>} :
              ClientExit(msgs) /\ rPc # "off" /\ (msgs # <<>> => rPc \in {"done", "fail"})
<1>1. CASE ClientGiveUp \/ ClientFin
  BY <1>1 DEF ClientGiveUp, ClientFin
<1>2. CASE ClientKilled
  <2>1. back \o <<>> = back
    BY DownloadTypes
  <2>2. ClientExit(<<>>) /\ rPc # "off"
    BY <1>2, <2>1 DEF ClientKilled, LeaveRecv, ClientExit
  <2>3. QED
    BY <2>2
<1>3. QED
  BY <1>1, <1>2

\* The chunk protocol's part of it.
LEMMA ProtocolSteps ==
    ASSUME DownloadCounts, ProtocolStep
    PROVE  Protocol!Next
<1> USE DEF Protocol!Next
<1>1. CASE ClientStart
  BY <1>1 DEF ClientStart, Connect, Protocol!Connect, RepliesIn, ChunksIn, ChunkErr
<1>2. CASE ClientGiveUp \/ ClientFin \/ ClientKilled
  BY <1>2, ClientEnds, ClientLeaves
<1>3. CASE ClientRes
  BY <1>3, ResMaps
<1>4. CASE RecvOther
  BY <1>4, OtherMaps DEF Protocol!RecvStep
<1>5. CASE RecvStep
  BY <1>5, RecvStepMaps
<1>6. CASE SendStep
  BY <1>6, SendStepMaps
<1>7. CASE ServerEnds
  BY <1>7, EndsMap
<1>8. CASE Cut
  BY <1>8, CutMaps
<1>9. CASE Corrupt
  BY <1>9, CorruptMaps
<1>10. QED
  BY <1>1, <1>2, <1>3, <1>4, <1>5, <1>6, <1>7, <1>8, <1>9 DEF ProtocolStep, NetworkStep

\* Every step but the start of file_send and the user's keeps the counters in step.
LEMMA ProtocolCounts ==
    ASSUME DownloadCounts, ProtocolStep
    PROVE  Protocol!Counts'
<1>1. Protocol!Counts /\ [Protocol!Next]_(Protocol!vars)
  BY ProtocolSteps DEF DownloadCounts
<1>2. QED
  BY <1>1, ProtocolAssumption, Protocol!CountsInductive
-----------------------------------------------------------------------------
(* What the invariant says beside the counters *)

DownloadShape ==
    /\ fwd \in Seq(DownloadMsg) /\ ServerWords(fwd)
    /\ back \in Seq(ReplyMsg) /\ NoReplyBehind(back)
    /\ sess \in Session \cup {NoSess}
    /\ ServerSide
    /\ ClientSide
    /\ ByeIsLast

\* Together with the counters it is the invariant.
LEMMA ShapeAndCounts ==
    /\ DownloadCounts => DownloadShape
    /\ DownloadShape' /\ Protocol!Counts' => DownloadCounts'
<1>1. DownloadCounts => DownloadShape
  BY DEF DownloadCounts, DownloadTypeOK, DownloadShape, ReplyMsg
<1>2. DownloadShape' /\ Protocol!Counts' => DownloadCounts'
  <2>1. SUFFICES ASSUME DownloadShape', Protocol!Counts' PROVE DownloadTypeOK'
    BY DEF DownloadShape, DownloadCounts
  <2>2. rErr' \in {"none", "eof", "io", "seq", "msg"}
    BY <2>1 DEF Protocol!Counts, Protocol!TypeOK, ChunkErr
  <2>3. QED
    BY <2>1, <2>2 DEF DownloadShape, DownloadTypeOK, Protocol!Counts, Protocol!TypeOK, ReplyMsg,
                      Protocol!Chunks, Chunks, Protocol!Idx, Idx
<1>3. QED
  BY <1>1, <1>2

\* When the client has the whole file on a live connection, the server has sent its last
\* chunk, and has the reply to it or will find it.
LEMMA ByeAfterAll ==
    ASSUME DownloadCounts, rPc = "done", link = "up"
    PROVE  \/ sPc = "done"
           \/ sPc = "await" /\ back # <<>> /\ back[1].type = "ok" /\ sSeq + 1 >= src.n
<1>1. Protocol!PeerCounts /\ Protocol!Expected = src.n
  BY DownloadTypes DEF DownloadCounts, Protocol!Counts, Protocol!RecvCounts, Protocol!Expected
<1>2. sPc \notin {"off", "wait"}
  BY DEF DownloadCounts, ServerSide
<1>3. sPc # "ready"
  BY <1>1, DownloadTypes DEF Protocol!PeerCounts, Protocol!Agrees
<1>4. sPc # "fail"
  BY <1>1, DownloadTypes DEF DownloadCounts, ServerSide, Protocol!Agrees
<1>5. ASSUME sPc = "await" PROVE back # <<>> /\ back[1].type = "ok" /\ sSeq + 1 >= src.n
  <2>1. sSeq < src.n
    BY <1>5, DownloadTypes
  <2>2. ChunksIn(fwd) = <<>>
    <3>1. SUFFICES ASSUME ChunksIn(fwd) # <<>> PROVE FALSE
      OBVIOUS
    <3>2. ChunksIn(fwd)[1].seq = sSeq
      BY <1>1, <1>5, <3>1 DEF Protocol!PeerCounts
    <3>3. Protocol!Agrees(sSeq)
      BY <3>1, <3>2 DEF DownloadCounts, Protocol!Counts, Protocol!WireCounts
    <3>4. QED
      BY <1>1, <2>1, <3>3, DownloadTypes DEF Protocol!Agrees
  <2>3. RepliesIn(back) # <<>>
    BY <1>5, <2>2 DEF DownloadCounts, ServerSide
  <2>4. back # <<>> /\ RepliesIn(back) = <<back[1]>>
    BY <2>3, OnlyReplies DEF RepliesIn
  <2>5. <<back[1]>>[1] = back[1]
    OBVIOUS
  <2>6. IF back[1].type = "ok" THEN src.n = sSeq + 1 ELSE Protocol!Agrees(sSeq)
    BY <1>1, <1>5, <2>3, <2>4, <2>5 DEF Protocol!PeerCounts
  <2>7. QED
    BY <1>1, <2>1, <2>4, <2>6, DownloadTypes DEF Protocol!Agrees
<1>6. QED
  BY <1>2, <1>3, <1>4, <1>5, DownloadTypes

\* The client ends: what it says last it says after the whole file only.
LEMMA ClientEndShape ==
    ASSUME DownloadCounts, ClientGiveUp \/ ClientFin \/ ClientKilled
    PROVE  DownloadShape'
<1>1. PICK msgs \in {<<>>, <<[type |-> "bye"]>>} :
         ClientExit(msgs) /\ rPc # "off" /\ (msgs # <<>> => rPc \in {"done", "fail"})
  BY ClientEnds
<1>2. /\ rPc' = "off" /\ link' = "down" /\ fwd' = <<>>
      /\ UNCHANGED <<src, sPc, sSeq, sess>>
  BY <1>1 DEF ClientExit, RcvGone, sndVars
<1>3. /\ back' \in Seq(ReplyMsg) /\ NoReplyBehind(back')
      /\ \A i \in 1..Len(back') :
            \/ i \in 1..Len(back) /\ back'[i] = back[i]
            \/ i = Len(back) + 1 /\ i = Len(back') /\ link = "up" /\ msgs # <<>>
  BY <1>1, ClientLeaves
<1>4. ChunksIn(<<>>) = <<>> /\ <<>> \in Seq(DownloadMsg) /\ ServerWords(<<>>)
  BY DEF ChunksIn, ServerWords
<1>5. ServerSide' /\ ClientSide'
  BY <1>2, <1>4 DEF DownloadCounts, ServerSide, ClientSide
<1>6. ByeIsLast'
  <2>1. SUFFICES ASSUME NEW i \in 1..Len(back'), back'[i].type = "bye"
                 PROVE  /\ i = Len(back')
                        /\ \/ sPc = "done"
                           \/ sPc = "await" /\ back'[1].type = "ok" /\ sSeq + 1 >= src.n
    BY <1>2 DEF ByeIsLast
  <2>2. i = Len(back) + 1 /\ i = Len(back') /\ link = "up" /\ msgs # <<>>
    BY <1>1, <1>3, <2>1, OnlyReplies
  <2>3. rPc = "done"
    BY <1>1, <2>2 DEF DownloadCounts, ClientSide
  <2>4. \/ sPc = "done"
        \/ sPc = "await" /\ back # <<>> /\ back[1].type = "ok" /\ sSeq + 1 >= src.n
    BY <2>2, <2>3, ByeAfterAll
  <2>5. ASSUME back # <<>> PROVE back'[1] = back[1]
    <3>1. Len(back) \in Nat /\ Len(back) >= 1
      BY <2>5, DownloadTypes
    <3>2. 1 \in 1..Len(back') /\ 1 # Len(back) + 1
      BY <2>2, <3>1
    <3>3. QED
      BY <1>3, <3>2
  <2>6. QED
    BY <2>2, <2>4, <2>5
<1>7. sess' \in Session \cup {NoSess}
  BY <1>2 DEF DownloadCounts, DownloadTypeOK
<1>8. QED
  BY <1>2, <1>3, <1>4, <1>5, <1>6, <1>7 DEF DownloadShape

\* The client starts to receive, or gets an ERROR instead of a chunk.
LEMMA ClientGetsShape ==
    ASSUME DownloadCounts, ClientRes \/ RecvOther
    PROVE  DownloadShape'
<1>1. /\ UNCHANGED <<src, link, back, sPc, sSeq, sess>>
      /\ back \in Seq(ReplyMsg) /\ NoReplyBehind(back) /\ sess \in Session \cup {NoSess}
      /\ rPc # "off" /\ rPc' # "off"
  BY DownloadTypes
     DEF ClientRes, RecvOther, FileRecv, RecvPc, RecvReturn, sndVars, DownloadCounts, DownloadTypeOK
<1>2. ByeIsLast'
  BY <1>1, OnlyReplies DEF ByeIsLast
<1>3. CASE ClientRes
  <2>1. /\ fwd' \in Seq(DownloadMsg) /\ ServerWords(fwd') /\ ChunksIn(fwd') = ChunksIn(fwd)
        /\ \A i \in 1..Len(fwd') : /\ fwd'[i].type # "res"
                                   /\ \E j \in 1..Len(fwd) : fwd'[i] = fwd[j]
    BY <1>3, ResMaps
  <2>2. rPc' \in {"recv", "done"} /\ rSeq' = 0
    BY <1>3 DEF ClientRes, FileRecv, RecvPc
  <2>3. ClientSide'
    BY <1>1, <2>1, <2>2 DEF DownloadCounts, ClientSide
  <2>4. Protocol!Agrees(sSeq)'
    BY <2>2 DEF Protocol!Agrees, Protocol!Expected
  <2>5. sPc # "wait"
    BY <1>3 DEF ClientRes, DownloadCounts, ServerSide
  <2>6. ServerSide'
    BY <1>1, <2>1, <2>4, <2>5 DEF DownloadCounts, ServerSide
  <2>7. QED
    BY <1>1, <1>2, <2>1, <2>3, <2>6 DEF DownloadShape
<1>4. CASE RecvOther
  <2>1. link = "down" /\ fwd' = <<>>
    BY <1>4, OtherMaps
  <2>2. ChunksIn(<<>>) = <<>> /\ <<>> \in Seq(DownloadMsg) /\ ServerWords(<<>>)
    BY DEF ChunksIn, ServerWords
  <2>3. sPc # "wait"
    BY <1>4 DEF RecvOther, DownloadCounts, ServerSide
  <2>4. ServerSide' /\ ClientSide'
    BY <1>1, <2>1, <2>2, <2>3 DEF DownloadCounts, ServerSide, ClientSide
  <2>5. QED
    BY <1>1, <1>2, <2>1, <2>2, <2>4 DEF DownloadShape
<1>5. QED
  BY <1>3, <1>4

\* What the client does with a chunk.
LEMMA RecvShape ==
    ASSUME DownloadCounts, Protocol!Counts', RecvStep, UNCHANGED sess
    PROVE  DownloadShape'
<1>1. /\ UNCHANGED <<src, link, sPc, sSeq, sess>>
      /\ rPc \in {"recv", "write"} /\ rPc' \notin {"off", "wait"}
  <2>1. CASE RecvGood
    BY <2>1 DEF RecvGood, RecvReturn, sndVars, netVars
  <2>2. CASE WriteChunk
    BY <2>2 DEF WriteChunk, RecvPc, sndVars, netVars
  <2>3. CASE RecvCorrupt
    BY <2>3 DEF RecvCorrupt, sndVars, rcvVars
  <2>4. CASE RecvReplyFails
    BY <2>4 DEF RecvReplyFails, RecvReturn, sndVars
  <2>5. CASE RecvEnd
    BY <2>5 DEF RecvEnd, RecvReturn, sndVars, netVars
  <2>6. QED
    BY <2>1, <2>2, <2>3, <2>4, <2>5 DEF RecvStep
<1>2. sess' \in Session \cup {NoSess} /\ sPc # "wait"
  BY <1>1 DEF DownloadCounts, DownloadTypeOK, ServerSide
<1>3. ChunksIn(<<>>) = <<>> /\ <<>> \in Seq(DownloadMsg) /\ ServerWords(<<>>)
  BY DEF ChunksIn, ServerWords
<1>4. CASE fwd # <<>> /\ Head(fwd).type = "chunk" /\ fwd' = Tail(fwd) /\ rPc = "recv"
           /\ (\/ link = "down" /\ back' = back
               \/ rPc' # "fail" /\ \E t \in {"ok", "again"} : back' = Sent(back, [type |-> t]))
  <2>1. ChunksIn(fwd) # <<>> /\ fwd' = <<>>
    BY <1>4, DownloadTypes, FirstWord
  <2>2. /\ back' \in Seq(ReplyMsg) /\ NoReplyBehind(back')
        /\ link = "down" \/ RepliesIn(back') # <<>>
        /\ \A i \in 1..Len(back') : back'[i].type # "bye"
    <3>1. CASE back' = back
      BY <1>1, <1>4, <3>1, OnlyReplies, DownloadTypes, AnswerMaps
    <3>2. CASE back' # back
      <4>1. PICK t \in {"ok", "again"} : back' = Sent(back, [type |-> t])
        BY <1>4, <3>2
      <4>2. /\ back' \in Seq(ReplyMsg) /\ NoReplyBehind(back')
            /\ back' = <<[type |-> t]>>
            /\ link = "up" => RepliesIn(back') # <<>>
        BY <1>4, <3>2, <4>1, AnswerMaps
      <4>3. \A i \in 1..Len(<<[type |-> t]>>) : <<[type |-> t]>>[i].type # "bye"
        OBVIOUS
      <4>4. QED
        BY <4>2, <4>3, DownloadTypes
    <3>3. QED
      BY <3>1, <3>2
  <2>3. ServerSide'
    BY <1>1, <1>2, <1>3, <2>1, <2>2 DEF DownloadCounts, ServerSide
  <2>4. ClientSide'
    BY <1>1, <1>4, <2>1 DEF DownloadCounts, ClientSide
  <2>5. ByeIsLast'
    BY <2>2 DEF ByeIsLast
  <2>6. QED
    BY <1>2, <1>3, <2>1, <2>2, <2>3, <2>4, <2>5 DEF DownloadShape
<1>5. CASE UNCHANGED <<fwd, back>> /\ (rPc' = "fail" => link = "down")
           /\ (link = "down" \/ Protocol!Expected' = Protocol!Expected)
  <2>1. ServerSide'
    BY <1>1, <1>2, <1>5 DEF DownloadCounts, ServerSide, Protocol!Agrees
  <2>2. ClientSide'
    BY <1>1, <1>5 DEF DownloadCounts, ClientSide
  <2>3. ByeIsLast'
    BY <1>1, <1>5, OnlyReplies DEF ByeIsLast
  <2>4. QED
    BY <1>2, <1>5, <2>1, <2>2, <2>3, DownloadTypes DEF DownloadShape
<1>6. QED
  <2>1. CASE RecvCorrupt
    BY <1>4, <2>1 DEF RecvCorrupt, rcvVars
  <2>2. CASE RecvGood
    <3>1. rErr' # "seq"
      BY DEF Protocol!Counts, Protocol!RecvCounts, ChunkErr
    <3>2. QED
      BY <1>4, <2>2, <3>1 DEF RecvGood, RecvReturn
  <2>3. CASE RecvReplyFails
    BY <1>4, <2>3 DEF RecvReplyFails
  <2>4. CASE RecvEnd
    BY <1>5, <2>4 DEF RecvEnd, netVars
  <2>5. CASE WriteChunk
    <3>1. Protocol!Expected' = Protocol!Expected /\ rPc' # "fail"
      BY <2>5, DownloadTypes DEF WriteChunk, RecvPc, Protocol!Expected
    <3>2. QED
      BY <1>5, <2>5, <3>1 DEF WriteChunk, netVars
  <2>6. QED
    BY <2>1, <2>2, <2>3, <2>4, <2>5 DEF RecvStep

\* What the server does between a chunk and the next.
LEMMA SendShape ==
    ASSUME DownloadCounts, SendStep, UNCHANGED sess
    PROVE  DownloadShape'
<1>1. /\ back \in Seq(ReplyMsg) /\ NoReplyBehind(back) /\ fwd \in Seq(DownloadMsg) /\ ServerWords(fwd)
      /\ sPc \in {"ready", "await"} /\ sSeq < src.n /\ sess \in Session
      /\ sess' \in Session \cup {NoSess} /\ sess' \in Session
      /\ rPc # "off" => Protocol!PeerCounts
      /\ rPc = "off" => link = "down" /\ fwd = <<>>
  <2>1. sPc \in {"ready", "await"}
    BY DEF SendStep, SendChunk, ReadFails, SendFails, RecvReply, ReplyLost
  <2>2. QED
    BY <2>1, DownloadTypes DEF DownloadCounts, ServerSide, ClientSide
<1>2. UNCHANGED <<src, link, rPc, rSeq, sess>> /\ sPc' # "wait" /\ sPc' # "off"
  BY DEF SendStep, SendChunk, ReadFails, SendFails, RecvReply, ReplyLost, FileSend, SendPc, netVars,
         rcvVars
<1>3. \A i \in 1..Len(back) : back[i].type = "bye" => sPc = "await" /\ back[1].type = "ok"
  BY <1>1 DEF DownloadCounts, ByeIsLast
<1>4. \A i \in 1..Len(fwd) : /\ fwd[i].type = "res" => rPc = "wait"
                             /\ fwd[i].type # "error"
  BY <1>1 DEF DownloadCounts, ClientSide
<1>5. rPc = "fail" => link = "down"
  BY DEF DownloadCounts, ClientSide
<1>6. CASE SendChunk
  <2>1. /\ fwd' \in Seq(DownloadMsg) /\ ServerWords(fwd')
        /\ link = "up" => ChunksIn(fwd') # <<>>
        /\ \/ fwd' = fwd
           \/ /\ link = "up"
              /\ \A i \in 1..Len(fwd') : \/ i \in 1..Len(fwd) /\ fwd'[i] = fwd[i]
                                         \/ fwd'[i] = ChunkMsg(src, sSeq)
    BY <1>6, SendChunkMaps
  <2>2. sPc = "ready" /\ sPc' = "await" /\ back' = back
    BY <1>6 DEF SendChunk
  <2>3. ChunkMsg(src, sSeq).type = "chunk"
    BY DEF ChunkMsg
  <2>4. \A i \in 1..Len(fwd') : /\ fwd'[i].type = "res" => rPc = "wait"
                                /\ fwd'[i].type # "error"
    BY <1>4, <2>1, <2>3
  <2>5. ClientSide'
    BY <1>1, <1>2, <1>5, <2>1, <2>4 DEF ClientSide
  <2>6. ServerSide'
    BY <1>1, <1>2, <2>1, <2>2 DEF ServerSide
  <2>7. ByeIsLast'
    BY <1>3, <2>2 DEF ByeIsLast
  <2>8. QED
    BY <1>1, <2>1, <2>2, <2>5, <2>6, <2>7 DEF DownloadShape
<1>7. CASE ReadFails \/ SendFails \/ ReplyLost
  <2>1. /\ sPc' = "fail" /\ UNCHANGED <<fwd, back, sSeq>>
        /\ \A i \in 1..Len(back) : back[i].type # "bye"
        /\ link = "down" \/ sPc = "ready"
    BY <1>3, <1>7 DEF ReadFails, SendFails, ReplyLost, netVars
  <2>2. link = "up" => ChunksIn(fwd) = <<>> /\ Protocol!Agrees(sSeq)
    BY <1>1, <2>1 DEF Protocol!PeerCounts
  <2>3. Protocol!Agrees(sSeq)' <=> Protocol!Agrees(sSeq)
    BY <1>2, <2>1 DEF Protocol!Agrees, Protocol!Expected
  <2>4. ServerSide'
    BY <1>1, <1>2, <2>1, <2>2, <2>3 DEF ServerSide
  <2>5. ClientSide' /\ ByeIsLast'
    BY <1>1, <1>2, <1>4, <1>5, <2>1 DEF ClientSide, ByeIsLast
  <2>6. QED
    BY <1>1, <2>1, <2>4, <2>5 DEF DownloadShape
<1>8. CASE RecvReply
  <2>1. /\ Head(back) = back[1] /\ IsReply(back[1]) /\ RepliesIn(back) = <<back[1]>>
        /\ back' \in Seq(ReplyMsg) /\ NoReplyBehind(back')
        /\ \A i \in 1..Len(back') : i + 1 \in 1..Len(back) /\ back'[i] = back[i + 1]
    BY <1>8, ReplyIsTaken
  <2>2. sPc = "await" /\ fwd' = fwd /\ back # <<>> /\ back' = Tail(back)
    BY <1>8 DEF RecvReply
  <2>3. ChunksIn(fwd) = <<>>
    <3>1. CASE rPc = "off"
      BY <1>1, <3>1 DEF ChunksIn
    <3>2. CASE rPc # "off"
      <4>1. Len(ChunksIn(fwd)) + Len(<<back[1]>>) <= 1 /\ Len(<<back[1]>>) = 1
        BY <1>1, <2>1, <2>2, <3>2 DEF Protocol!PeerCounts
      <4>2. ChunksIn(fwd) \in Seq(FwdMsg)
        BY <1>1, ChunksInType
      <4>3. QED
        BY <4>1, <4>2
    <3>3. QED
      BY <3>1, <3>2
  <2>4. sPc' \in {"ready", "done"} /\ (back[1].type = "ok" => sPc' = SendPc(sSeq + 1))
    BY <1>8, <2>1 DEF RecvReply, FileSend, SendPc, IsReply
  <2>5. ServerSide'
    BY <1>1, <1>2, <2>2, <2>3, <2>4 DEF ServerSide
  <2>6. ClientSide'
    BY <1>1, <1>2, <1>4, <1>5, <2>2 DEF ClientSide
  <2>7. ByeIsLast'
    <3>1. SUFFICES ASSUME NEW i \in 1..Len(back'), back'[i].type = "bye"
                   PROVE  i = Len(back') /\ rPc = "off" /\ sPc' = "done"
      BY <1>2 DEF ByeIsLast
    <3>2. i + 1 \in 1..Len(back) /\ back[i + 1].type = "bye"
      BY <2>1, <3>1
    <3>3. i + 1 = Len(back) /\ rPc = "off" /\ back[1].type = "ok" /\ sSeq + 1 >= src.n
      BY <2>2, <3>2 DEF DownloadCounts, ByeIsLast
    <3>4. Len(back') = Len(back) - 1 /\ Len(back) \in Nat
      BY <1>1, <2>2
    <3>5. i = Len(back')
      BY <3>3, <3>4
    <3>6. sPc' = "done"
      BY <2>4, <3>3, DownloadTypes DEF SendPc
    <3>7. QED
      BY <3>3, <3>5, <3>6
  <2>8. QED
    BY <1>1, <2>1, <2>2, <2>5, <2>6, <2>7 DEF DownloadShape
<1>9. QED
  BY <1>6, <1>7, <1>8 DEF SendStep

\* A sequence without positions is empty.
LEMMA NoPosition ==
    ASSUME NEW S, NEW q \in Seq(S), \A i \in 1..Len(q) : FALSE
    PROVE  q = <<>>
<1>1. Len(q) \in Nat
  OBVIOUS
<1>2. ~(1 \in 1..Len(q))
  OBVIOUS
<1>3. Len(q) = 0
  BY <1>1, <1>2
<1>4. QED
  BY <1>3

\* The server's handler ends.
LEMMA ServerEndShape ==
    ASSUME DownloadCounts, ServerEnds
    PROVE  DownloadShape'
<1>1. /\ fwd' \in Seq(DownloadMsg) /\ ServerWords(fwd')
      /\ \A i \in 1..Len(fwd') : \/ i \in 1..Len(fwd) /\ fwd'[i] = fwd[i]
                                 \/ fwd'[i].type = "error" /\ link = "up"
      /\ sess' \in Session \cup {NoSess}
      /\ sPc' = "off" /\ link' = "down" /\ back' = <<>> /\ rPc' = rPc
  BY EndsMap
<1>2. rPc = "off" => fwd' = <<>>
  <2>1. SUFFICES ASSUME rPc = "off" PROVE fwd' = <<>>
    OBVIOUS
  <2>2. link = "down" /\ fwd = <<>>
    BY <2>1, DownloadTypes DEF DownloadCounts, ClientSide
  <2>3. \A i \in 1..Len(fwd') : FALSE
    BY <1>1, <2>2
  <2>4. QED
    BY <1>1, <2>3, NoPosition
<1>3. ClientSide'
  BY <1>1, <1>2 DEF DownloadCounts, ClientSide
<1>4. ServerSide' /\ ByeIsLast'
  BY <1>1 DEF ServerSide, ByeIsLast
<1>5. <<>> \in Seq(ReplyMsg) /\ NoReplyBehind(<<>>)
  BY DEF NoReplyBehind
<1>6. QED
  BY <1>1, <1>3, <1>4, <1>5 DEF DownloadShape

\* The connection breaks.
LEMMA CutShape ==
    ASSUME DownloadCounts, Cut, UNCHANGED sess
    PROVE  DownloadShape'
<1>1. /\ back' \in Seq(ReplyMsg) /\ NoReplyBehind(back')
      /\ \A i \in 1..Len(back') : i \in 1..Len(back) /\ back'[i] = back[i]
      /\ fwd' \in Seq(DownloadMsg) /\ ServerWords(fwd')
      /\ ChunksIn(fwd') \in {<<>>, ChunksIn(fwd)}
      /\ \A i \in 1..Len(fwd') : i \in 1..Len(fwd) /\ fwd'[i] = fwd[i]
  BY CutMaps
<1>2. link' = "down" /\ UNCHANGED <<src, sPc, sSeq, rPc, rSeq, sess>>
  BY DEF Cut, sndVars, rcvVars
<1>3. fwd = <<>> => fwd' = <<>>
  BY <1>1, NoPosition
<1>4. ServerSide' /\ ClientSide'
  BY <1>1, <1>2, <1>3 DEF DownloadCounts, ServerSide, ClientSide
<1>5. ByeIsLast'
  <2>1. SUFFICES ASSUME NEW i \in 1..Len(back'), back'[i].type = "bye"
                 PROVE  /\ i = Len(back') /\ rPc = "off"
                        /\ \/ sPc = "done"
                           \/ sPc = "await" /\ back'[1].type = "ok" /\ sSeq + 1 >= src.n
    BY <1>2 DEF ByeIsLast
  <2>2. Len(back') \in Nat /\ Len(back) \in Nat /\ 1 \in 1..Len(back') /\ Len(back') \in 1..Len(back')
    BY <1>1, <2>1, DownloadTypes
  <2>3. back'[1] = back[1] /\ i \in 1..Len(back) /\ back[i].type = "bye" /\ Len(back') \in 1..Len(back)
    BY <1>1, <2>1, <2>2
  <2>4. /\ i = Len(back) /\ rPc = "off"
        /\ \/ sPc = "done"
           \/ sPc = "await" /\ back[1].type = "ok" /\ sSeq + 1 >= src.n
    BY <2>3 DEF DownloadCounts, ByeIsLast
  <2>5. i = Len(back')
    BY <2>1, <2>2, <2>3, <2>4
  <2>6. QED
    BY <2>3, <2>4, <2>5
<1>6. QED
  BY <1>1, <1>2, <1>4, <1>5 DEF DownloadShape, DownloadCounts, DownloadTypeOK

\* The chunk in flight is damaged.
LEMMA CorruptShape ==
    ASSUME DownloadCounts, Corrupt, UNCHANGED sess
    PROVE  DownloadShape'
<1>1. /\ fwd' \in Seq(DownloadMsg) /\ ServerWords(fwd')
      /\ ChunksIn(fwd') # <<>> /\ ChunksIn(fwd) # <<>>
      /\ \A i \in 1..Len(fwd') : fwd'[i].type = "chunk"
  BY CorruptMaps
<1>2. fwd # <<>> /\ UNCHANGED <<src, link, back, sPc, sSeq, rPc, rSeq, sess>>
  BY DEF Corrupt, sndVars, rcvVars
<1>3. ServerSide' /\ ClientSide' /\ ByeIsLast'
  BY <1>1, <1>2 DEF DownloadCounts, ServerSide, ClientSide, ByeIsLast
<1>4. QED
  BY <1>1, <1>2, <1>3, DownloadTypes DEF DownloadShape, DownloadCounts, DownloadTypeOK

\* The number of whole chunks of a local file.
LEMMA WantedType ==
    ASSUME NEW f, NEW k \in Wanted(f)
    PROVE  /\ k \in 0..MaxChunks
           /\ k = 0 \/ \E j \in LastFilled(f) : k \in {j, j + 1}
<1>1. CASE f = EmptyFile
  BY <1>1, TransferAssumption DEF Wanted
<1>2. CASE f # EmptyFile
  <2>1. PICK j \in LastFilled(f) :
           k \in CASE f[j] = Torn -> {j, j + 1}
                   [] f[j] # Torn /\ f[j].short -> {j}
                   [] OTHER -> {j + 1}
    BY <1>2 DEF Wanted
  <2>2. k \in {j, j + 1}
    <3>1. CASE f[j] = Torn
      BY <2>1, <3>1
    <3>2. CASE f[j] # Torn /\ f[j].short
      BY <2>1, <3>2
    <3>3. CASE f[j] # Torn /\ ~f[j].short
      BY <2>1, <3>3
    <3>4. QED
      BY <3>1, <3>2, <3>3
  <2>3. j \in Idx
    BY DEF LastFilled
  <2>4. k \in 0..MaxChunks
    BY <2>2, <2>3, TransferAssumption DEF Idx
  <2>5. QED
    BY <2>2, <2>4
<1>3. QED
  BY <1>1, <1>2

\* file_send starts where the size of the client's file says, which may be beyond the end
\* of a file that has been replaced.
LEMMA AcceptCounts ==
    ASSUME DownloadCounts, ServerAccept
    PROVE  DownloadCounts'
<1>1. /\ sPc = "wait" /\ fwd = <<>> /\ rPc \in {"off", "wait"}
      /\ UNCHANGED <<src, dst, link, back, rPc, rSeq, rPos, rErr, held>>
  BY DEF ServerAccept, DownloadCounts, ServerSide, rcvVars
<1>2. PICK k \in 0..MaxChunks : FileSend(k) /\ ChunksIn(fwd) = <<>>
  <2>1. ChunksIn(fwd) = <<>>
    BY <1>1 DEF ChunksIn
  <2>2. \E k \in Wanted(dst) : FileSend(k)
    BY DEF ServerAccept, StartChunk
  <2>3. QED
    BY <2>1, <2>2, WantedType
<1>3. sSeq' = k /\ sPc' = IF k < src.n THEN "ready" ELSE "done"
  BY <1>2 DEF FileSend, SendPc
<1>4. sess' \in Session
  <2>1. PICK s \in FindSession : sess' = s
    BY DEF ServerAccept
  <2>2. CASE sess # NoSess
    BY <2>1, <2>2 DEF FindSession, DownloadCounts, DownloadTypeOK
  <2>3. CASE sess = NoSess
    <3>1. PICK b \in BOOLEAN : s = [state |-> "idle", last |-> 0, kept |-> b]
      BY <2>3 DEF FindSession
    <3>2. 0 \in -1..MaxChunks
      BY TransferAssumption
    <3>3. QED
      BY <2>1, <3>1, <3>2 DEF Session
  <2>4. QED
    BY <2>2, <2>3
<1> DEFINE m == [type |-> "res"]
<1>5. m \in DownloadMsg /\ ~IsChunk(m) /\ m.type = "res"
  BY DEF DownloadMsg, IsChunk
<1>6. \/ fwd' = <<>>
      \/ fwd' = <<m>> /\ link = "up"
  BY <1>1 DEF ServerAccept, Sent
<1> HIDE DEF m
<1>7. /\ fwd' \in Seq(DownloadMsg) /\ ServerWords(fwd') /\ ChunksIn(fwd') = <<>>
      /\ \A i \in 1..Len(fwd') : fwd'[i].type = "res"
  <2>1. CASE fwd' = <<>>
    BY <2>1 DEF ServerWords, ChunksIn
  <2>2. CASE fwd' = <<m>>
    <3>1. <<m>> \in Seq(DownloadMsg) /\ Len(<<m>>) = 1 /\ <<m>>[1] = m
      BY <1>5
    <3>2. QED
      BY <1>5, <2>2, <3>1 DEF ServerWords, ChunksIn
  <2>3. QED
    BY <1>6, <2>1, <2>2
<1>8. rPc = "off" => fwd' = <<>> /\ link = "down"
  BY <1>6, DownloadTypes
<1>9. ASSUME rPc # "off" PROVE RepliesIn(back) = <<>> /\ back = <<>> /\ Protocol!Expected = 0
  BY <1>1, <1>9, DownloadTypes, OnlyReplies DEF Protocol!PeerCounts
<1>10. Protocol!Counts'
  <2>1. Protocol!TypeOK'
    <3>1. <<>> \in Seq(Protocol!FwdMsg)
      OBVIOUS
    <3>2. QED
      BY <1>1, <1>2, <1>3, <1>7, <3>1
         DEF DownloadCounts, Protocol!Counts, Protocol!TypeOK, ChunkErr, Protocol!Idx
  <2>2. Protocol!RecvCounts' /\ Protocol!WireCounts'
    BY <1>1, <1>2, <1>7
       DEF DownloadCounts, Protocol!Counts, Protocol!RecvCounts, Protocol!WireCounts,
           Protocol!Agrees, Protocol!Expected, ChunkErr
  <2>3. Protocol!SendCounts'
    BY <1>1, <1>3 DEF Protocol!SendCounts
  <2>4. (rPc # "off" => Protocol!PeerCounts)'
    BY <1>1, <1>3, <1>7, <1>9 DEF Protocol!PeerCounts, Protocol!Agrees, Protocol!Expected
  <2>5. QED
    BY <2>1, <2>2, <2>3, <2>4 DEF Protocol!Counts
<1>11. ServerSide'
  BY <1>3, <1>4, <1>7 DEF ServerSide
<1>12. ClientSide'
  BY <1>1, <1>7, <1>8 DEF ClientSide
<1>13. ByeIsLast'
  BY <1>1 DEF DownloadCounts, ByeIsLast
<1>14. QED
  BY <1>1, <1>4, <1>7, <1>10, <1>11, <1>12, <1>13, DownloadTypes, ShapeAndCounts DEF DownloadShape

\* Every step of a download keeps the invariant, whatever fails and whatever the user does.
LEMMA DownloadCountsInductive ==
    ASSUME DownloadCounts, [DownloadNext]_downloadVars
    PROVE  DownloadCounts'
<1>1. CASE ProtocolStep
  <2>1. Protocol!Counts'
    BY <1>1, ProtocolCounts
  <2>2. CASE ClientStart
    <3>1. /\ fwd' = <<>> /\ back' = <<>> /\ sPc' = "wait" /\ rPc' = "wait" /\ link' = "up"
          /\ sess' = sess
      BY <2>2 DEF ClientStart, Connect
    <3>2. /\ <<>> \in Seq(DownloadMsg) /\ ServerWords(<<>>)
          /\ <<>> \in Seq(ReplyMsg) /\ NoReplyBehind(<<>>)
      BY DEF ServerWords, NoReplyBehind
    <3>3. ServerSide' /\ ClientSide' /\ ByeIsLast'
      BY <3>1 DEF ServerSide, ClientSide, ByeIsLast
    <3>4. DownloadShape'
      BY <3>1, <3>2, <3>3 DEF DownloadShape, DownloadCounts, DownloadTypeOK
    <3>5. QED
      BY <2>1, <3>4, ShapeAndCounts
  <2>3. CASE ~ClientStart
    <3>1. DownloadShape'
      BY <1>1, <2>1, <2>3, ClientEndShape, ClientGetsShape, RecvShape, SendShape, ServerEndShape,
         CutShape, CorruptShape DEF ProtocolStep, NetworkStep
    <3>2. QED
      BY <2>1, <3>1, ShapeAndCounts
  <2>4. QED
    BY <2>2, <2>3
<1>2. CASE ServerAccept
  BY <1>2, AcceptCounts
<1>3. CASE Replace
  <2>1. /\ src' \in Sources /\ sPc = "off" /\ rPc = "off"
        /\ UNCHANGED <<dst, link, fwd, back, sPc, sSeq, rPc, rSeq, rPos, rErr, held, sess>>
    BY <1>3 DEF Replace, netVars, sndVars, rcvVars
  <2>2. DownloadShape
    BY ShapeAndCounts
  <2>3. DownloadShape'
    BY <2>1, <2>2 DEF DownloadShape, ServerSide, ClientSide, ByeIsLast, ServerWords, NoReplyBehind
  <2>4. ChunksIn(fwd) = <<>> /\ rSeq \in Nat /\ rPos \in Nat /\ src'.n \in Nat
    BY <2>1, TransferAssumption
       DEF DownloadCounts, Protocol!Counts, Protocol!RecvCounts, DownloadTypeOK
  <2>5. Protocol!Counts'
    BY <2>1, <2>4 DEF DownloadCounts, Protocol!Counts, Protocol!TypeOK, Protocol!RecvCounts,
       Protocol!WireCounts, Protocol!SendCounts, Protocol!PeerCounts, ChunkErr, Protocol!Idx,
       Protocol!Chunks
  <2>6. QED
    BY <2>3, <2>5, ShapeAndCounts
<1>4. CASE UNCHANGED vars /\ sess' \in {sess, NoSess} /\ (sess' = sess \/ sPc = "off")
  <2>1. UNCHANGED <<src, dst, link, fwd, back, sPc, sSeq, rPc, rSeq, rPos, rErr, held>>
    BY <1>4 DEF vars, netVars, sndVars, rcvVars
  <2>2. DownloadShape
    BY ShapeAndCounts
  <2>3. DownloadShape'
    BY <1>4, <2>1, <2>2 DEF DownloadShape, ServerSide, ClientSide, ByeIsLast, ServerWords,
       NoReplyBehind, Protocol!Agrees, Protocol!Expected
  <2>4. Protocol!Counts'
    BY <2>1 DEF DownloadCounts, Protocol!Counts, Protocol!TypeOK, Protocol!RecvCounts,
       Protocol!WireCounts, Protocol!SendCounts, Protocol!PeerCounts, Protocol!Agrees,
       Protocol!Expected, ChunkErr
  <2>5. QED
    BY <2>3, <2>4, ShapeAndCounts
<1>5. QED
  BY <1>1, <1>2, <1>3, <1>4, DownloadSteps

\* The invariant holds in every behaviour of a download.
THEOREM DownloadInvariant == DownloadSpec => []DownloadCounts
<1>1. DownloadInit => DownloadCounts
  <2>1. SUFFICES ASSUME DownloadInit PROVE DownloadCounts
    OBVIOUS
  <2>2. /\ back = <<>> /\ fwd = <<>> /\ RepliesIn(back) = <<>> /\ ChunksIn(fwd) = <<>>
        /\ rPc = "off" /\ sPc = "off" /\ link = "down" /\ ChunkErr = "none" /\ rErr = "none"
    BY <2>1 DEF DownloadInit, Init, RepliesIn, ChunksIn, ChunkErr
  <2>3. DownloadTypeOK
    BY <2>1, <2>2, TransferAssumption DEF DownloadInit, Init, DownloadTypeOK, EmptyFile, Idx
  <2>4. Protocol!TypeOK
    <3>1. <<>> \in Seq(Protocol!BackMsg) /\ <<>> \in Seq(Protocol!FwdMsg)
      OBVIOUS
    <3>2. QED
      BY <2>2, <2>3, <3>1
         DEF DownloadTypeOK, Protocol!TypeOK, Idx, Protocol!Idx, Chunks, Protocol!Chunks
  <2>5. Protocol!Counts
    BY <2>1, <2>2, <2>4, TransferAssumption
       DEF DownloadInit, Init, Protocol!Counts, Protocol!RecvCounts, Protocol!WireCounts,
           Protocol!SendCounts
  <2>6. NoReplyBehind(back) /\ ServerWords(fwd) /\ ServerSide /\ ClientSide /\ ByeIsLast
    BY <2>2 DEF NoReplyBehind, ServerWords, ServerSide, ClientSide, ByeIsLast
  <2>7. QED
    BY <2>3, <2>5, <2>6 DEF DownloadCounts
<1>2. DownloadCounts /\ [DownloadNext]_downloadVars => DownloadCounts'
  BY DownloadCountsInductive
<1>3. QED
  BY <1>1, <1>2, PTL DEF DownloadSpec

\* Type correctness of the download.
THEOREM DownloadTypeCorrect == DownloadSpec => []DownloadTypeOK
<1>1. DownloadCounts => DownloadTypeOK
  BY DEF DownloadCounts
<1>2. QED
  BY <1>1, DownloadInvariant, PTL

\* The sequence check of file_recv never fails in a download: not when the server's file
\* has been replaced by a shorter or a longer one, nor when the client's disk is full.
THEOREM DownloadNeverOutOfStep == DownloadSpec => []NoSeqMismatch
<1>1. DownloadCounts => NoSeqMismatch
  BY DEF DownloadCounts, Protocol!Counts, Protocol!RecvCounts, NoSeqMismatch, ChunkErr
<1>2. QED
  BY <1>1, DownloadInvariant, PTL
-----------------------------------------------------------------------------
(* A disk that takes every write, and a server's file that may be replaced *)

\* The chunk that a chunk message carries is the one it is numbered as.
Numbered(m) == IsChunk(m) => m.chunk.idx = m.seq

\* The inductive invariant: what is in flight, held or stored carries its own number.
InPlace ==
    /\ ChunksInPlace
    /\ rPos = rSeq
    /\ rPc = "write" => held.idx = rSeq
    /\ \A i \in 1..Len(fwd) : Numbered(fwd[i])

\* Every message the server sends is numbered as it is, and stays so.
LEMMA NumberedStays ==
    ASSUME DownloadCounts, \A i \in 1..Len(fwd) : Numbered(fwd[i]), [DownloadNext]_downloadVars,
           NEW i \in 1..Len(fwd')
    PROVE  Numbered(fwd'[i])
<1>1. CASE \E j \in 1..Len(fwd) : fwd'[i] = fwd[j]
  BY <1>1
<1>2. CASE fwd' = <<>> \/ fwd' = fwd
  BY <1>1, <1>2
<1>3. CASE fwd'[i].type # "chunk"
  BY <1>3 DEF Numbered, IsChunk
<1>4. CASE RecvStep
  <2>1. CASE fwd # <<>> /\ Head(fwd).type = "chunk" /\ fwd' = Tail(fwd)
    BY <1>2, <2>1, DownloadTypes, FirstWord
  <2>2. QED
    BY <1>2, <1>4, <2>1
       DEF RecvStep, RecvCorrupt, RecvGood, RecvReplyFails, RecvEnd, WriteChunk, netVars
<1>5. CASE SendStep
  <2>1. CASE SendChunk
    <3>1. \/ fwd' = fwd
          \/ \A n \in 1..Len(fwd') : \/ n \in 1..Len(fwd) /\ fwd'[n] = fwd[n]
                                     \/ fwd'[n] = ChunkMsg(src, sSeq)
      BY <2>1, SendChunkMaps
    <3>2. Numbered(ChunkMsg(src, sSeq))
      BY DEF Numbered, ChunkMsg, ChunkOf
    <3>3. QED
      BY <1>1, <1>2, <3>1, <3>2
  <2>2. QED
    BY <1>2, <1>5, <2>1 DEF SendStep, ReadFails, SendFails, RecvReply, ReplyLost, netVars
<1>6. CASE ServerEnds
  BY <1>1, <1>3, <1>6, EndsMap
<1>7. CASE ServerAccept
  <2>1. fwd = <<>> /\ fwd' = Sent(fwd, [type |-> "res"])
    BY <1>7 DEF ServerAccept, DownloadCounts, ServerSide
  <2>2. CASE link = "up"
    <3>1. fwd' = <<[type |-> "res"]>>
      BY <2>1, <2>2 DEF Sent
    <3>2. fwd'[i] = [type |-> "res"]
      BY <3>1
    <3>3. QED
      BY <1>3, <3>2
  <2>3. CASE link # "up"
    BY <1>2, <2>1, <2>3 DEF Sent
  <2>4. QED
    BY <2>2, <2>3
<1>8. CASE Cut
  BY <1>1, <1>8, CutMaps
<1>9. CASE Corrupt
  <2>1. /\ fwd # <<>> /\ Len(fwd) = 1 /\ fwd[1] \in DownloadMsg /\ fwd[1].type = "chunk"
        /\ fwd' = [fwd EXCEPT ![1] = [fwd[1] EXCEPT !.ok = FALSE]]
    BY <1>9, DownloadTypes, FirstWord DEF Corrupt
  <2>2. fwd[1] \in FwdMsg
    BY <2>1 DEF DownloadMsg
  <2>3. Len(fwd') = 1 /\ fwd'[1] = [fwd[1] EXCEPT !.ok = FALSE]
    BY <2>1, DownloadTypes
  <2>4. fwd'[1].seq = fwd[1].seq /\ fwd'[1].chunk = fwd[1].chunk /\ Numbered(fwd[1])
    BY <2>1, <2>2, <2>3 DEF FwdMsg
  <2>5. i = 1
    BY <2>3
  <2>6. QED
    BY <2>1, <2>4, <2>5 DEF Numbered, IsChunk
<1>10. CASE ClientRes
  BY <1>1, <1>10, ResMaps
<1>11. CASE RecvOther
  BY <1>2, <1>11, OtherMaps
<1>12. CASE ClientStart \/ ClientGiveUp \/ ClientFin \/ ClientKilled
  BY <1>2, <1>12 DEF ClientStart, Connect, ClientGiveUp, ClientFin, ClientExit, ClientKilled, LeaveRecv
<1>13. CASE Replace \/ UNCHANGED vars
  BY <1>2, <1>13 DEF Replace, vars, netVars
<1>14. QED
  BY <1>4, <1>5, <1>6, <1>7, <1>8, <1>9, <1>10, <1>11, <1>12, <1>13, DownloadSteps
     DEF ProtocolStep, NetworkStep

\* The file's offset follows the count, and what is acknowledged has the count's number.
LEMMA OffsetFollows ==
    ASSUME DownloadCounts, ~DiskFaults, InPlace, RecvStep
    PROVE  rPos' = rSeq' /\ (rPc' = "write" => held'.idx = rSeq')
<1>1. rPos = rSeq
  BY DEF InPlace
<1>2. CASE RecvGood
  <2>1. Head(fwd) = fwd[1] /\ 1 \in 1..Len(fwd) /\ fwd[1].type = "chunk"
    <3>1. fwd # <<>> /\ Head(fwd).type = "chunk"
      BY <1>2 DEF RecvGood
    <3>2. QED
      BY <3>1, DownloadTypes
  <2>2. fwd[1].chunk.idx = fwd[1].seq
    BY <2>1 DEF InPlace, Numbered, IsChunk
  <2>3. QED
    BY <1>1, <1>2, <2>1, <2>2 DEF RecvGood, RecvReturn, ResumeSeq, ResumePos
<1>3. CASE RecvCorrupt \/ RecvReplyFails \/ RecvEnd
  BY <1>1, <1>3 DEF InPlace, RecvCorrupt, RecvReplyFails, RecvEnd, RecvReturn, ResumeSeq, ResumePos,
                    rcvVars
<1>4. CASE WriteChunk
  BY <1>1, <1>4 DEF WriteChunk, RecvPc
<1>5. QED
  BY <1>2, <1>3, <1>4 DEF RecvStep

\* Every step keeps chunks in their places.
LEMMA InPlaceInductive ==
    ASSUME DownloadCounts, ~DiskFaults, InPlace, [DownloadNext]_downloadVars
    PROVE  InPlace'
<1>1. \A i \in 1..Len(fwd') : Numbered(fwd'[i])
  BY NumberedStays DEF InPlace
<1>2. CASE RecvStep
  <2>1. rPos' = rSeq' /\ (rPc' = "write" => held'.idx = rSeq')
    BY <1>2, OffsetFollows
  <2>2. ChunksInPlace'
    <3>1. CASE WriteChunk
      <4>1. /\ dst' = WriteAt(dst, rPos, held) /\ held.idx = rPos
            /\ dst \in [Idx -> Chunks \cup {Hole, Torn}]
        BY <3>1 DEF WriteChunk, InPlace, DownloadCounts, DownloadTypeOK
      <4>2. \A i \in Idx : dst'[i] = dst[i] \/ (i = rPos /\ dst'[i] \in {Torn, held})
        BY <4>1 DEF WriteAt
      <4>3. QED
        BY <4>1, <4>2, TransferAssumption DEF InPlace, ChunksInPlace
    <3>2. CASE ~WriteChunk
      BY <1>2, <3>2 DEF RecvStep, RecvCorrupt, RecvGood, RecvReplyFails, RecvEnd, InPlace,
                        ChunksInPlace
    <3>3. QED
      BY <3>1, <3>2
  <2>3. QED
    BY <1>1, <2>1, <2>2 DEF InPlace
<1>3. CASE dst' = dst /\ (UNCHANGED <<rPc, rSeq, rPos, held>>
                          \/ (rPc' # "write" /\ rPos' = rSeq'))
  BY <1>1, <1>3 DEF InPlace, ChunksInPlace
<1>4. CASE ~RecvStep
  <2>1. CASE ClientStart \/ SendStep \/ NetworkStep \/ Replace \/ UNCHANGED vars \/ ServerAccept
    BY <1>3, <2>1 DEF ClientStart, Connect, InPlace, SendStep, SendChunk, ReadFails, SendFails,
       RecvReply, ReplyLost, NetworkStep, Cut, Corrupt, Replace, vars, rcvVars, netVars, ServerAccept
  <2>2. CASE ClientGiveUp \/ ClientFin \/ ClientKilled \/ ClientRes \/ RecvOther
    BY <1>3, <2>2 DEF ClientGiveUp, ClientFin, ClientExit, ClientKilled, LeaveRecv, RcvGone, ClientRes,
       FileRecv, RecvPc, RecvOther, RecvReturn, InPlace
  <2>3. CASE ServerEnds
    BY <1>3, <2>3 DEF ServerEnds, ServerRefuse, ServerNoRequest, ServerInterrupted, ServerFinish,
       ServerCrash, ServerReturns, rcvVars
  <2>4. QED
    BY <1>4, <2>1, <2>2, <2>3, DownloadSteps DEF ProtocolStep
<1>5. QED
  BY <1>2, <1>4

\* A chunk is stored at the offset it has in the file it comes from, whatever versions of
\* the file a partial copy was assembled from.
THEOREM StoredInPlace ==
    ASSUME ~DiskFaults
    PROVE  DownloadSpec => []ChunksInPlace
<1>1. DownloadInit => InPlace
  <2>1. SUFFICES ASSUME DownloadInit PROVE InPlace
    OBVIOUS
  <2>2. fwd = <<>> /\ rPos = rSeq /\ rPc = "off" /\ dst = EmptyFile
    BY <2>1 DEF DownloadInit, Init
  <2>3. QED
    BY <2>2, TransferAssumption DEF InPlace, ChunksInPlace, EmptyFile
<1>2. DownloadCounts /\ InPlace /\ [DownloadNext]_downloadVars => InPlace'
  BY InPlaceInductive
<1>3. InPlace => ChunksInPlace
  BY DEF InPlace
<1>4. QED
  BY <1>1, <1>2, <1>3, DownloadInvariant, PTL DEF DownloadSpec
-----------------------------------------------------------------------------
(* A file that is left alone, and writes that succeed *)

\* The local file has no gaps, so its size says how much of it is there.
NoHoles == \A i, j \in Idx : j < i /\ dst[i] # Hole => dst[j] # Hole

DownloadData == Protocol!DataInStep /\ NoHoles

\* The size of the client's file is a place to resume at.
LEMMA WantedIsStored ==
    ASSUME DownloadCounts, DownloadData, NEW k \in Wanted(dst)
    PROVE  k \in 0..src.n /\ Protocol!Intact(dst, src, k)
<1>1. k \in 0..MaxChunks /\ src.n \in Nat
  BY WantedType, TransferAssumption DEF DownloadCounts, DownloadTypeOK
<1>2. CASE k = 0
  BY <1>1, <1>2 DEF Protocol!Intact, Protocol!Idx
<1>3. CASE \E j \in LastFilled(dst) : k \in {j, j + 1}
  <2>1. PICK j \in Idx : k \in {j, j + 1} /\ dst[j] # Hole
    BY <1>3 DEF LastFilled
  <2>2. \A i \in Idx : dst[i] # Hole => dst[i] = ChunkOf(src, i) /\ i < src.n
    BY <1>1, TransferAssumption
       DEF DownloadData, Protocol!DataInStep, Protocol!DiskData, Protocol!Idx, Idx,
           Protocol!ChunkOf, ChunkOf
  <2>3. k \in 0..src.n
    BY <1>1, <2>1, <2>2, TransferAssumption DEF Idx
  <2>4. \A i \in Idx : i < k => i <= j
    BY <2>1, TransferAssumption DEF Idx
  <2>5. \A i \in Idx : i <= j => dst[i] # Hole
    BY <2>1, TransferAssumption DEF DownloadData, NoHoles, Idx
  <2>6. QED
    BY <2>2, <2>3, <2>4, <2>5
       DEF Protocol!Intact, Protocol!Idx, Idx, Protocol!ChunkOf, ChunkOf
<1>4. QED
  BY <1>2, <1>3, WantedType

\* Every step of the download of a file that is left alone is a step of the chunk
\* protocol: file_send starts where the client's file ends.
LEMMA AllStepsMap ==
    ASSUME ~Replaceable, DownloadCounts, DownloadData, [DownloadNext]_downloadVars
    PROVE  [Protocol!Next]_(Protocol!vars)
<1>1. CASE ProtocolStep
  BY <1>1, ProtocolSteps
<1>2. CASE ServerAccept
  <2>1. /\ sPc = "wait" /\ fwd = <<>>
        /\ UNCHANGED <<src, dst, link, back, rPc, rSeq, rPos, rErr, held>>
    BY <1>2 DEF ServerAccept, DownloadCounts, ServerSide, rcvVars
  <2>2. PICK k \in Wanted(dst) : FileSend(k)
    BY <1>2 DEF ServerAccept, StartChunk
  <2>3. k \in 0..src.n /\ Protocol!Intact(dst, src, k)
    BY WantedIsStored
  <2> DEFINE m == [type |-> "res"]
  <2>4. ~IsChunk(m) /\ <<m>>[Len(<<m>>)] = m
    BY DEF IsChunk
  <2>5. fwd' = <<>> \/ fwd' = <<m>>
    BY <1>2, <2>1 DEF ServerAccept, Sent
  <2> HIDE DEF m
  <2>6. ChunksIn(fwd) = <<>> /\ ChunksIn(fwd') = <<>>
    BY <2>1, <2>4, <2>5 DEF ChunksIn
  <2>7. Protocol!StartSend(k)
    BY <2>1, <2>2, <2>6
       DEF Protocol!StartSend, FileSend, Protocol!FileSend, SendPc, Protocol!SendPc,
           Protocol!netVars, Protocol!rcvVars, RepliesIn, ChunkErr
  <2>8. QED
    BY <2>3, <2>7 DEF Protocol!ResumeSend, Protocol!Next
<1>3. CASE Replace
  BY <1>3 DEF Replace
<1>4. CASE UNCHANGED vars
  BY <1>4 DEF vars, netVars, sndVars, rcvVars, Protocol!vars, Protocol!netVars,
              Protocol!sndVars, Protocol!rcvVars, ChunksIn, RepliesIn, ChunkErr
<1>5. QED
  BY <1>1, <1>2, <1>3, <1>4, DownloadSteps

\* Every step keeps the data in step with the counters, and the local file without gaps:
\* a chunk is written only behind all the chunks before it.
LEMMA DownloadDataInductive ==
    ASSUME ~Replaceable, ~DiskFaults, DownloadCounts, DownloadCounts', DownloadData,
           [DownloadNext]_downloadVars
    PROVE  DownloadData'
<1>1. Protocol!Counts /\ Protocol!Counts' /\ Protocol!DataInStep
  BY DEF DownloadCounts, DownloadData
<1>2. [Protocol!Next]_(Protocol!vars)
  BY AllStepsMap
<1>3. Protocol!DataInStep'
  BY <1>1, <1>2, ProtocolAssumption, Protocol!DataInductive
<1>4. src' = src /\ (dst' = dst \/ Protocol!WriteChunk)
  BY <1>2, ProtocolAssumption, Protocol!OnlyWritesChange
<1>5. CASE dst' = dst
  BY <1>3, <1>5 DEF DownloadData, NoHoles
<1>6. CASE Protocol!WriteChunk
  <2>1. dst' = [dst EXCEPT ![rSeq] = ChunkOf(src, rSeq)]
    BY <1>1, <1>6, ProtocolAssumption, Protocol!WriteExact DEF Protocol!ChunkOf, ChunkOf
  <2>2. DOMAIN dst = Idx /\ src \in Sources
    BY DEF DownloadCounts, DownloadTypeOK
  <2>3. rSeq \in Idx
    BY <1>1, <1>6, TransferAssumption
       DEF Protocol!WriteChunk, Protocol!Counts, Protocol!RecvCounts, Protocol!TypeOK, Idx
  <2>4. ChunkOf(src, rSeq) # Hole
    BY <2>2, <2>3, ChunkOfType, TransferAssumption
  <2>5. \A i \in Idx : i < rSeq => dst[i] # Hole
    <3>1. \A i \in Idx : i < rSeq => dst[i] = ChunkOf(src, i)
      BY <1>1 DEF Protocol!DataInStep, Protocol!RecvData, Protocol!Intact, Protocol!Idx, Idx,
                  Protocol!ChunkOf, ChunkOf
    <3>2. QED
      BY <2>2, <3>1, ChunkOfType, TransferAssumption
  <2>6. \A i \in Idx : dst'[i] = IF i = rSeq THEN ChunkOf(src, rSeq) ELSE dst[i]
    BY <2>1, <2>2, <2>3
  <2>7. ASSUME NEW i \in Idx, NEW j \in Idx, j < i, dst'[i] # Hole
        PROVE  dst'[j] # Hole
    <3>1. CASE i = rSeq \/ j = rSeq
      BY <2>4, <2>5, <2>6, <2>7, <3>1
    <3>2. CASE i # rSeq /\ j # rSeq
      BY <2>6, <2>7, <3>2 DEF DownloadData, NoHoles
    <3>3. QED
      BY <3>1, <3>2
  <2>8. QED
    BY <1>3, <2>7 DEF DownloadData, NoHoles
<1>7. QED
  BY <1>4, <1>5, <1>6

\* In every download of a file that is left alone, the data is in step with the counters
\* and the local file has no gaps.
THEOREM DownloadDataInvariant ==
    ASSUME ~Replaceable, ~DiskFaults
    PROVE  DownloadSpec => []DownloadData
<1>1. DownloadInit => DownloadData
  <2>1. SUFFICES ASSUME DownloadInit PROVE DownloadData
    OBVIOUS
  <2>2. Protocol!DataInStep
    BY <2>1, TransferAssumption
       DEF DownloadInit, Init, Protocol!DataInStep, Protocol!DiskData, Protocol!RecvData,
           Protocol!WireData, EmptyFile, Idx, Protocol!Intact, Protocol!Idx, ChunksIn
  <2>3. NoHoles
    BY <2>1 DEF DownloadInit, Init, EmptyFile, NoHoles
  <2>4. QED
    BY <2>2, <2>3 DEF DownloadData
<1>2. DownloadCounts /\ DownloadCounts' /\ DownloadData /\ [DownloadNext]_downloadVars
          => DownloadData'
  BY DownloadDataInductive
<1>3. QED
  BY <1>1, <1>2, DownloadInvariant, PTL DEF DownloadSpec
-----------------------------------------------------------------------------
(* The refinement: Protocol and Chunked are the chunk protocol under the same mapping. *)

\* A step of the one is a step of the other.
LEMMA SameSteps == [Protocol!Next]_(Protocol!vars) => [Chunked!Next]_(Chunked!vars)
<1> SUFFICES ASSUME [Protocol!Next]_(Protocol!vars)
             PROVE  [Chunked!Next]_(Chunked!vars)
  OBVIOUS
<1> USE DEF Protocol!netVars, Protocol!sndVars, Protocol!rcvVars,
            Chunked!netVars, Chunked!sndVars, Chunked!rcvVars
<1>1. CASE Protocol!Connect
  BY <1>1 DEF Protocol!Connect, Chunked!Connect, Chunked!Next
<1>2. CASE Protocol!ResumeSend
  <2>1. PICK k \in 0..src.n : Protocol!Intact(dst, src, k) /\ Protocol!StartSend(k)
    BY <1>2 DEF Protocol!ResumeSend
  <2>2. Chunked!Intact(dst, src, k)
    BY <2>1 DEF Protocol!Intact, Chunked!Intact, Protocol!ChunkOf, Chunked!ChunkOf, Protocol!Idx,
                Chunked!Idx
  <2>3. Chunked!StartSend(k)
    BY <2>1 DEF Protocol!StartSend, Chunked!StartSend, Protocol!FileSend, Chunked!FileSend,
                Protocol!SendPc, Chunked!SendPc
  <2>4. QED
    BY <2>2, <2>3 DEF Chunked!ResumeSend, Chunked!Next
<1>3. CASE Protocol!StartRecv
  BY <1>3 DEF Protocol!StartRecv, Chunked!StartRecv, Protocol!FileRecv, Chunked!FileRecv,
              Protocol!RecvPc, Chunked!RecvPc, Chunked!Next
<1>4. CASE Protocol!SendStep
  <2>1. CASE Protocol!SendChunk
    BY <2>1 DEF Protocol!SendChunk, Chunked!SendChunk, Protocol!Sent, Chunked!Sent,
                Protocol!ChunkMsg, Chunked!ChunkMsg, Protocol!ChunkOf, Chunked!ChunkOf,
                Chunked!Next, Chunked!SendStep
  <2>2. CASE Protocol!ReadFails
    BY <2>2 DEF Protocol!ReadFails, Chunked!ReadFails, Chunked!Next, Chunked!SendStep
  <2>3. CASE Protocol!SendFails
    BY <2>3 DEF Protocol!SendFails, Chunked!SendFails, Chunked!Next, Chunked!SendStep
  <2>4. CASE Protocol!RecvReply
    BY <2>4 DEF Protocol!RecvReply, Chunked!RecvReply, Protocol!FileSend, Chunked!FileSend,
                Protocol!SendPc, Chunked!SendPc, Chunked!Next, Chunked!SendStep
  <2>5. CASE Protocol!ReplyLost
    BY <2>5 DEF Protocol!ReplyLost, Chunked!ReplyLost, Chunked!Next, Chunked!SendStep
  <2>6. QED
    BY <1>4, <2>1, <2>2, <2>3, <2>4, <2>5 DEF Protocol!SendStep
<1>5. CASE Protocol!RecvStep
  <2>1. CASE Protocol!RecvCorrupt
    BY <2>1 DEF Protocol!RecvCorrupt, Chunked!RecvCorrupt, Protocol!Sent, Chunked!Sent,
                Chunked!Next, Chunked!RecvStep
  <2>2. CASE Protocol!RecvGood
    BY <2>2 DEF Protocol!RecvGood, Chunked!RecvGood, Protocol!Sent, Chunked!Sent,
                Protocol!ResumeSeq, Chunked!ResumeSeq, Protocol!ResumePos, Chunked!ResumePos,
                Protocol!RecvReturn, Chunked!RecvReturn, Chunked!Next, Chunked!RecvStep
  <2>3. CASE Protocol!RecvReplyFails
    BY <2>3 DEF Protocol!RecvReplyFails, Chunked!RecvReplyFails,
                Protocol!ResumeSeq, Chunked!ResumeSeq, Protocol!ResumePos, Chunked!ResumePos,
                Protocol!RecvReturn, Chunked!RecvReturn, Chunked!Next, Chunked!RecvStep
  <2>4. CASE Protocol!RecvEnd
    BY <2>4 DEF Protocol!RecvEnd, Chunked!RecvEnd, Protocol!RecvReturn, Chunked!RecvReturn,
                Chunked!Next, Chunked!RecvStep
  <2>5. CASE Protocol!WriteChunk
    BY <2>5 DEF Protocol!WriteChunk, Chunked!WriteChunk, Protocol!WriteAt, Chunked!WriteAt,
                Protocol!StaleBehind, Chunked!StaleBehind, Protocol!Idx, Chunked!Idx,
                Protocol!RecvPc, Chunked!RecvPc, Chunked!Next, Chunked!RecvStep
  <2>6. QED
    BY <1>5, <2>1, <2>2, <2>3, <2>4, <2>5 DEF Protocol!RecvStep
<1>6. CASE Protocol!Cut
  BY <1>6 DEF Protocol!Cut, Chunked!Cut, Protocol!LoseSuffix, Chunked!LoseSuffix, Chunked!Next
<1>7. CASE Protocol!Corrupt
  BY <1>7 DEF Protocol!Corrupt, Chunked!Corrupt, Chunked!Next
<1>8. CASE Protocol!LeaveSend
  BY <1>8 DEF Protocol!LeaveSend, Chunked!LeaveSend, Protocol!SndGone, Chunked!SndGone,
              Protocol!LoseSuffix, Chunked!LoseSuffix, Chunked!Next
<1>9. CASE Protocol!LeaveRecv
  BY <1>9 DEF Protocol!LeaveRecv, Chunked!LeaveRecv, Protocol!RcvGone, Chunked!RcvGone,
              Protocol!LoseSuffix, Chunked!LoseSuffix, Chunked!Next
<1>10. CASE UNCHANGED Protocol!vars
  BY <1>10 DEF Protocol!vars, Chunked!vars
<1>11. QED
  BY <1>1, <1>2, <1>3, <1>4, <1>5, <1>6, <1>7, <1>8, <1>9, <1>10 DEF Protocol!Next

\* A download of a file that is left alone is a run of the chunk protocol, through every
\* interrupted and resumed attempt.
THEOREM ImplementsChunks ==
    ASSUME ~Replaceable, ~DiskFaults
    PROVE  DownloadSpec => DownloadsByChunks
<1>1. DownloadInit => Chunked!Init
  BY DEF DownloadInit, Init, Chunked!Init, RepliesIn, ChunksIn, ChunkErr, EmptyFile,
         Chunked!EmptyFile, Idx, Chunked!Idx
<1>2. DownloadCounts /\ DownloadData /\ [DownloadNext]_downloadVars
          => [Chunked!Next]_(Chunked!vars)
  BY AllStepsMap, SameSteps
<1>3. QED
  BY <1>1, <1>2, DownloadInvariant, DownloadDataInvariant, PTL
     DEF DownloadSpec, DownloadsByChunks, Chunked!Spec

\* So a download, resumed as often as it takes, only ever appends the next chunk of the
\* file to the client's copy, and file_recv succeeds only on a complete one.
THEOREM DownloadCopiesInOrder ==
    ASSUME ~Replaceable, ~DiskFaults
    PROVE  DownloadSpec => CopiesInOrder
<1>1. DownloadSpec => Protocol!Spec
  <2>1. DownloadInit => Protocol!Init
    BY DEF DownloadInit, Init, Protocol!Init, RepliesIn, ChunksIn, ChunkErr, EmptyFile,
           Protocol!EmptyFile, Idx, Protocol!Idx
  <2>2. DownloadCounts /\ DownloadData /\ [DownloadNext]_downloadVars
            => [Protocol!Next]_(Protocol!vars)
    BY AllStepsMap
  <2>3. QED
    BY <2>1, <2>2, DownloadInvariant, DownloadDataInvariant, PTL DEF DownloadSpec, Protocol!Spec
<1>2. Protocol!Spec => Protocol!CopiesInOrder
  BY ProtocolAssumption, Protocol!ImplementsCopy
<1>3. Protocol!CopiesInOrder => CopiesInOrder
  <2>1. Protocol!Copy!Init => Copy!Init
    BY DEF Protocol!Copy!Init, Copy!Init, Idx, Protocol!Idx, ChunkOf, Protocol!ChunkOf
  <2>2. [Protocol!Copy!Next]_(Protocol!Copy!vars) => [Copy!Next]_(Copy!vars)
    BY DEF Protocol!Copy!Next, Copy!Next, Protocol!Copy!vars, Copy!vars, Protocol!Copy!Deliver,
           Copy!Deliver, Protocol!Copy!HasBefore, Copy!HasBefore, Protocol!Copy!Complete,
           Copy!Complete, ChunkOf, Protocol!ChunkOf
  <2>3. QED
    BY <2>1, <2>2, PTL DEF Protocol!CopiesInOrder, CopiesInOrder, Protocol!Copy!Spec, Copy!Spec
<1>4. QED
  BY <1>1, <1>2, <1>3, PTL
=============================================================================
