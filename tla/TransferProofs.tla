--------------------------- MODULE TransferProofs ---------------------------
(***************************************************************************)
(* Proofs about the chunk protocol, for every set of files and every bound *)
(* on their length.                                                        *)
(***************************************************************************)
EXTENDS Transfer, TLAPS

\* The inductive invariant of the protocol, whether writes succeed or not.  It says
\* nothing of where a sender that has nothing to send starts: Upload and Download
\* satisfy it also where the file changes between attempts.
Counts ==
    /\ TypeOK
    /\ RecvCounts
    /\ WireCounts
    /\ SendCounts
    /\ rPc # "off" => PeerCounts
-----------------------------------------------------------------------------
\* What a broken connection leaves of the messages in flight is a prefix of them.
LEMMA LoseSuffixPrefix ==
    ASSUME NEW S, NEW q \in Seq(S), NEW r \in LoseSuffix(q)
    PROVE  /\ r \in Seq(S)
           /\ Len(r) <= Len(q)
           /\ q = <<>> => r = <<>>
           /\ r # <<>> => q # <<>> /\ r[1] = q[1]
<1>1. PICK k \in 0..Len(q) : r = SubSeq(q, 1, k)
  BY DEF LoseSuffix
<1>2. QED
  BY <1>1

\* A broken connection may lose everything in flight, or nothing.
LEMMA LoseAllOrNone ==
    ASSUME NEW S, NEW q \in Seq(S)
    PROVE  <<>> \in LoseSuffix(q) /\ q \in LoseSuffix(q)
<1>1. SubSeq(q, 1, 0) = <<>> /\ SubSeq(q, 1, Len(q)) = q /\ Len(q) \in Nat
  OBVIOUS
<1>2. 0 \in 0..Len(q) /\ Len(q) \in 0..Len(q)
  BY <1>1
<1>3. SubSeq(q, 1, 0) \in LoseSuffix(q) /\ SubSeq(q, 1, Len(q)) \in LoseSuffix(q)
  BY <1>2, Zenon DEF LoseSuffix
<1>4. QED
  BY <1>1, <1>3

\* A message sent is appended, or lost when the connection is broken.
LEMMA SentAppends ==
    ASSUME NEW S, NEW q \in Seq(S), NEW m \in S
    PROVE  /\ Sent(q, m) \in Seq(S)
           /\ Len(Sent(q, m)) <= Len(q) + 1
           /\ link = "down" => Sent(q, m) = q
           /\ q = <<>> /\ Sent(q, m) # <<>> => Sent(q, m)[1] = m
BY DEF Sent

\* Taking the only message of a channel leaves it empty.
LEMMA TakeOnly ==
    ASSUME NEW S, NEW q \in Seq(S), q # <<>>
    PROVE  /\ Tail(q) \in Seq(S)
           /\ Head(q) = q[1] /\ q[1] \in S
           /\ Len(q) <= 1 => Tail(q) = <<>> /\ Len(q) = 1
<1>1. Tail(q) \in Seq(S) /\ Head(q) = q[1] /\ q[1] \in S
  OBVIOUS
<1>2. Len(q) <= 1 => Tail(q) = <<>>
  OBVIOUS
<1>3. ASSUME NEW n \in Nat, n # 0, n <= 1 PROVE n = 1
  BY <1>3
<1>4. Len(q) \in Nat /\ Len(q) # 0
  OBVIOUS
<1>5. Len(q) <= 1 => Len(q) = 1
  BY <1>3, <1>4
<1>6. QED
  BY <1>1, <1>2, <1>5

\* Writing a chunk keeps the file a function from positions to chunks.
LEMMA WriteAtType ==
    ASSUME NEW f \in [Idx -> Chunks \cup {Hole, Torn}], NEW i, NEW c \in Chunks
    PROVE  WriteAt(f, i, c) \in [Idx -> Chunks \cup {Hole, Torn}]
BY DEF WriteAt

\* The chunks of a file that can be sent are chunks.
LEMMA ChunkOfType ==
    ASSUME NEW s \in Sources, NEW i \in Idx
    PROVE  ChunkOf(s, i) \in Chunks
BY TransferAssumption DEF ChunkOf, Chunks
-----------------------------------------------------------------------------
\* At most one chunk is in flight.
LEMMA OneInFlight ==
    ASSUME Counts, fwd # <<>>
    PROVE  /\ Tail(fwd) = <<>> /\ Head(fwd) = fwd[1]
           /\ Len(fwd) = 1 /\ fwd[1] \in FwdMsg
<1>1. fwd \in Seq(FwdMsg) /\ Len(fwd) <= 1
  BY DEF Counts, TypeOK, WireCounts
<1>2. QED
  BY <1>1, TakeOnly, Zenon

\* Every step of the protocol keeps the counters in step.
LEMMA CountsInductive ==
    ASSUME Counts, [Next]_vars
    PROVE  Counts'
<1>a. fwd # <<>> => /\ Tail(fwd) = <<>> /\ Head(fwd) = fwd[1]
                     /\ Len(fwd) = 1 /\ fwd[1] \in FwdMsg
  BY OneInFlight
<1>b. \A m \in FwdMsg : fwd = <<>> => /\ Sent(fwd, m) \in Seq(FwdMsg)
                                      /\ Len(Sent(fwd, m)) <= 1
                                      /\ link = "down" => Sent(fwd, m) = <<>>
                                      /\ Sent(fwd, m) # <<>> => Sent(fwd, m)[1] = m
  BY DEF Sent
<1>c. \A m \in BackMsg : /\ Sent(back, m) \in Seq(BackMsg)
                         /\ Len(Sent(back, m)) <= Len(back) + 1
                         /\ back = <<>> /\ Sent(back, m) # <<>> => Sent(back, m)[1] = m
  BY SentAppends DEF Counts, TypeOK
<1> USE TransferAssumption
    DEF Counts, RecvCounts, WireCounts, SendCounts, PeerCounts,
        Agrees, Expected, TypeOK, Idx, netVars, sndVars, rcvVars
<1>1. CASE Connect
  BY <1>1 DEF Connect
<1>2. CASE ResumeSend
  BY <1>2 DEF ResumeSend, StartSend, FileSend, SendPc
<1>3. CASE StartRecv
  BY <1>3 DEF StartRecv, FileRecv, RecvPc
<1>4. CASE SendChunk
  <2> DEFINE m == ChunkMsg(src, sSeq)
  <2>1. fwd = <<>> /\ sSeq \in Idx /\ m \in FwdMsg /\ fwd' = Sent(fwd, m)
    BY <1>4, ChunkOfType DEF SendChunk, ChunkMsg, FwdMsg
  <2> HIDE DEF m
  <2>2. /\ fwd' \in Seq(FwdMsg) /\ Len(fwd') <= 1
        /\ link = "down" => fwd' = <<>>
        /\ fwd' # <<>> => fwd'[1] = m
    BY <2>1, <1>b
  <2>3. TypeOK'
    BY <1>4, <2>2 DEF SendChunk
  <2>4. RecvCounts' /\ WireCounts' /\ SendCounts'
    BY <1>4, <2>2 DEF SendChunk, ChunkMsg, m
  <2>5. (rPc # "off" => PeerCounts)'
    BY <1>4, <2>2 DEF SendChunk, ChunkMsg, m
  <2>6. QED
    BY <2>3, <2>4, <2>5
<1>5. CASE ReadFails
  BY <1>5 DEF ReadFails
<1>6. CASE SendFails
  BY <1>6 DEF SendFails
<1>7. CASE RecvReply
  <2>1. /\ back[1] \in BackMsg /\ Head(back) = back[1] /\ back' \in Seq(BackMsg)
        /\ Len(back) <= 1 => back' = <<>>
    BY <1>7, TakeOnly DEF RecvReply
  <2>2. TypeOK' /\ RecvCounts' /\ WireCounts' /\ SendCounts'
    BY <1>7, <2>1 DEF RecvReply, FileSend, SendPc, BackMsg
  <2>3. (rPc # "off" => PeerCounts)'
    BY <1>7, <2>1 DEF RecvReply, FileSend, SendPc, BackMsg
  <2>4. QED
    BY <2>2, <2>3
<1>8. CASE ReplyLost
  BY <1>8 DEF ReplyLost
<1>9. CASE RecvCorrupt
  <2> DEFINE m == [type |-> "again"]
  <2>1. m \in BackMsg /\ fwd # <<>> /\ fwd' = Tail(fwd) /\ back' = Sent(back, m)
    BY <1>9 DEF RecvCorrupt, BackMsg
  <2> HIDE DEF m
  <2>2. fwd' = <<>> /\ Len(fwd) = 1
    BY <2>1, <1>a
  <2>3. /\ back' \in Seq(BackMsg) /\ Len(back') <= Len(back) + 1
        /\ back = <<>> /\ back' # <<>> => back'[1] = m
    BY <2>1, <1>c
  <2>4. TypeOK'
    BY <1>9, <2>2, <2>3 DEF RecvCorrupt
  <2>5. RecvCounts' /\ WireCounts' /\ SendCounts'
    <3>1. Len(fwd') = 0 /\ rPc = "recv" /\ UNCHANGED <<src, link, sndVars, rcvVars>>
      BY <1>9, <2>2 DEF RecvCorrupt
    <3>2. QED
      BY <2>2, <3>1
  <2>6. (rPc # "off" => PeerCounts)'
    BY <1>9, <2>1, <2>2, <2>3, SMTT(30) DEF RecvCorrupt, m
  <2>7. QED
    BY <2>4, <2>5, <2>6
<1>10. CASE RecvGood
  <2> DEFINE m == fwd[1]
  <2>1. m = Head(fwd) /\ m \in FwdMsg /\ Len(fwd) = 1 /\ fwd' = <<>>
    BY <1>10, <1>a DEF RecvGood
  <2>2. m.seq < src.n /\ ResumeSeq(m) = m.seq
    BY <1>10, <2>1 DEF RecvGood, ResumeSeq, FwdMsg
  <2>3. /\ rPc' = "write" /\ rSeq' = m.seq /\ held' = m.chunk
        /\ rPos' \in 0..m.seq /\ rErr' = rErr
        /\ back' = Sent(back, [type |-> "ok"])
    BY <1>10, <2>1, <2>2 DEF RecvGood, ResumePos, FwdMsg
  <2>4. /\ back' \in Seq(BackMsg) /\ Len(back') <= Len(back) + 1
        /\ back = <<>> /\ back' # <<>> => back'[1] = [type |-> "ok"]
    <3>1. [type |-> "ok"] \in BackMsg
      BY DEF BackMsg
    <3>2. QED
      BY <2>3, <3>1, <1>c
  <2>5. UNCHANGED <<src, dst, link, sPc, sSeq>>
    BY <1>10 DEF RecvGood
  <2> HIDE DEF m
  <2>6. TypeOK'
    BY <2>1, <2>2, <2>3, <2>4, <2>5 DEF FwdMsg
  <2>7. RecvCounts' /\ WireCounts' /\ SendCounts'
    BY <2>1, <2>2, <2>3, <2>5 DEF FwdMsg
  <2>8. (rPc # "off" => PeerCounts)'
    <3>1. rPc # "off" /\ fwd # <<>>
      BY <1>10 DEF RecvGood
    <3>2. sPc \notin {"wait", "ready"}
      BY <3>1
    <3>3. sPc = "await" => back = <<>> /\ m.seq = sSeq
      BY <2>1, <3>1 DEF m
    <3>4. sPc = "await" => Len(back') <= 1 /\ (back' # <<>> => back'[1].type = "ok")
      <4>1. HAVE sPc = "await"
      <4>2. back = <<>> /\ Len(back) = 0
        BY <3>3, <4>1
      <4>3. QED
        BY <2>4, <4>2
    <3>5. sPc = "await" => Expected' = sSeq' + 1
      BY <2>3, <2>5, <3>3
    <3>6. PeerCounts'
      <4>1. Len(fwd') = 0 /\ back' \in Seq(BackMsg) /\ sPc' = sPc
        BY <2>1, <2>4, <2>5
      <4> HIDE DEF Expected, Agrees, BackMsg, TypeOK, RecvCounts, WireCounts,
                   SendCounts, Counts
      <4>2. QED
        BY <2>1, <3>2, <3>4, <3>5, <4>1
    <3>7. QED
      BY <3>6
  <2>9. QED
    BY <2>6, <2>7, <2>8
<1>11. CASE RecvReplyFails
  <2> DEFINE m == fwd[1]
  <2>1. m = Head(fwd) /\ m \in FwdMsg /\ Len(fwd) = 1 /\ fwd' = <<>>
    BY <1>11, <1>a DEF RecvReplyFails
  <2>2. /\ rPc' = "fail" /\ rErr' = "io"
        /\ rSeq' \in {rSeq, m.seq} /\ m.seq < src.n
        /\ rPos' \in 0..rSeq' /\ held' = held
    BY <1>11, <2>1 DEF RecvReplyFails, RecvReturn, ResumeSeq, ResumePos, FwdMsg
  <2>3. UNCHANGED <<src, dst, link, back, sPc, sSeq>>
    BY <1>11 DEF RecvReplyFails
  <2> HIDE DEF m
  <2>4. TypeOK'
    BY <2>1, <2>2, <2>3 DEF FwdMsg
  <2>5. RecvCounts' /\ WireCounts' /\ SendCounts'
    BY <2>1, <2>2, <2>3 DEF FwdMsg
  <2>6. (rPc # "off" => PeerCounts)'
    <3>1. back # <<>> => Len(back) >= 1
      BY TakeOnly
    <3>2. sPc # "ready" /\ sPc # "wait"
      BY <1>11, <2>1 DEF m, RecvReplyFails
    <3>3. sPc = "await" => back = <<>>
      BY <1>11, <2>1, <3>1 DEF m, RecvReplyFails
    <3>4. QED
      BY <2>1, <2>2, <2>3, <3>2, <3>3
  <2>7. QED
    BY <2>4, <2>5, <2>6
<1>12. CASE RecvEnd
  BY <1>12 DEF RecvEnd, RecvReturn
<1>13. CASE WriteChunk
  <2>1. dst' \in [Idx -> Chunks \cup {Hole, Torn}]
    BY <1>13, WriteAtType DEF WriteChunk
  <2>2. QED
    BY <1>13, <2>1 DEF WriteChunk, RecvPc
<1>14. CASE Cut
  <2>1. /\ fwd' \in Seq(FwdMsg) /\ back' \in Seq(BackMsg)
        /\ Len(fwd') <= Len(fwd) /\ Len(back') <= Len(back)
        /\ fwd = <<>> => fwd' = <<>>
        /\ back = <<>> => back' = <<>>
        /\ fwd' # <<>> => fwd # <<>> /\ fwd'[1] = fwd[1]
        /\ back' # <<>> => back # <<>> /\ back'[1] = back[1]
    BY <1>14, LoseSuffixPrefix DEF Cut
  <2>2. QED
    BY <1>14, <2>1 DEF Cut
<1>15. CASE Corrupt
  <2>1. /\ fwd' \in Seq(FwdMsg) /\ Len(fwd') = Len(fwd) /\ fwd' # <<>>
        /\ fwd'[1].seq = fwd[1].seq
    <3> DEFINE c == [fwd[1] EXCEPT !.ok = FALSE]
    <3>1. fwd # <<>> /\ Len(fwd) = 1 /\ fwd[1] \in FwdMsg
      BY <1>15, <1>a DEF Corrupt
    <3>2. c \in FwdMsg /\ c.seq = fwd[1].seq
      BY <3>1 DEF FwdMsg
    <3>3. fwd' = [fwd EXCEPT ![1] = c]
      BY <1>15 DEF Corrupt
    <3> HIDE DEF c
    <3>4. fwd' \in Seq(FwdMsg) /\ Len(fwd') = 1 /\ fwd'[1] = c
      BY <3>1, <3>2, <3>3
    <3>5. QED
      BY <3>1, <3>2, <3>4
  <2>2. QED
    BY <1>15, <2>1 DEF Corrupt
<1>16. CASE LeaveSend
  <2>1. /\ fwd' \in Seq(FwdMsg) /\ Len(fwd') <= Len(fwd)
        /\ fwd = <<>> => fwd' = <<>>
        /\ fwd' # <<>> => fwd # <<>> /\ fwd'[1] = fwd[1]
    BY <1>16, LoseSuffixPrefix DEF LeaveSend
  <2>2. QED
    BY <1>16, <2>1 DEF LeaveSend, SndGone
<1>17. CASE LeaveRecv
  <2>1. back' \in Seq(BackMsg)
    BY <1>17, LoseSuffixPrefix DEF LeaveRecv
  <2>2. QED
    BY <1>17, <2>1 DEF LeaveRecv, RcvGone
<1>18. CASE UNCHANGED vars
  BY <1>18 DEF vars
<1>19. QED
  BY <1>1, <1>2, <1>3, <1>4, <1>5, <1>6, <1>7, <1>8, <1>9, <1>10, <1>11, <1>12,
     <1>13, <1>14, <1>15, <1>16, <1>17, <1>18 DEF Next, SendStep, RecvStep

\* The protocol's counters are in step and its state is well typed in every
\* behaviour, with failing disks too.
THEOREM CountsInvariant == Spec => []Counts
<1>1. Init => Counts
  <2>1. ASSUME Init PROVE TypeOK
    BY <2>1, TransferAssumption DEF Init, TypeOK, EmptyFile, Idx
  <2>2. ASSUME Init PROVE RecvCounts /\ WireCounts /\ SendCounts /\ (rPc # "off" => PeerCounts)
    BY <2>2, TransferAssumption DEF Init, RecvCounts, WireCounts, SendCounts
  <2>3. QED
    BY <2>1, <2>2 DEF Counts
<1>2. Counts /\ [Next]_vars => Counts'
  BY CountsInductive
<1>3. QED
  BY <1>1, <1>2, PTL DEF Spec

\* Type correctness of the chunk protocol, for every set of files.
THEOREM TypeCorrect == Spec => []TypeOK
<1>1. Counts => TypeOK
  BY DEF Counts
<1>2. QED
  BY <1>1, CountsInvariant, PTL

\* The numbers file_send, file_recv and the messages between them carry are in step.
THEOREM CountersAgree == Spec => []CountsInStep
<1> DEFINE Ended == sPc = "done" => sSeq <= src.n
<1>1. Init => Ended
  BY DEF Init
<1>2. Counts /\ Ended /\ [Next]_vars => Ended'
  <2>1. SUFFICES ASSUME Counts, Ended, [Next]_vars, sPc' = "done"
                 PROVE  sSeq' <= src'.n
    OBVIOUS
  <2>2. (UNCHANGED <<src, sSeq>> /\ sPc = "done") \/ RecvReply \/ ResumeSend
    BY <2>1 DEF Next, SendStep, RecvStep, vars, netVars, sndVars, rcvVars, Connect,
                StartRecv, SendChunk, ReadFails, SendFails, ReplyLost, RecvCorrupt,
                RecvGood, RecvReplyFails, RecvEnd, WriteChunk, Cut, Corrupt, LeaveSend,
                LeaveRecv, SndGone
  <2>3. CASE RecvReply
    BY <2>1, <2>3, TransferAssumption
       DEF RecvReply, FileSend, SendPc, Counts, TypeOK, SendCounts
  <2>4. CASE ResumeSend
    BY <2>1, <2>4, TransferAssumption
       DEF ResumeSend, StartSend, FileSend, SendPc, Counts, TypeOK
  <2>5. QED
    BY <2>1, <2>2, <2>3, <2>4
<1>3. Counts /\ Ended => CountsInStep
  BY DEF Counts, CountsInStep
<1>4. QED
  BY <1>1, <1>2, <1>3, CountsInvariant, PTL DEF Spec

\* file_recv never meets an unexpected sequence number (its -4 branch is dead
\* between these endpoints), whatever breaks, is lost, damaged or sent again.
THEOREM NeverOutOfStep == Spec => []NoSeqMismatch
<1>1. Counts => NoSeqMismatch
  BY DEF Counts, RecvCounts, NoSeqMismatch
<1>2. QED
  BY <1>1, CountsInvariant, PTL
-----------------------------------------------------------------------------
\* A write that succeeds puts the acknowledged chunk of the file at its place, and
\* nothing is left behind it: a short last chunk ends the file.
LEMMA WriteExact ==
    ASSUME Counts, DataInStep, WriteChunk, ~DiskFaults
    PROVE  dst' = [dst EXCEPT ![rSeq] = ChunkOf(src, rSeq)]
<1>1. rPos = rSeq /\ rSeq \in Idx /\ held = ChunkOf(src, rSeq) /\ rSeq < src.n
  BY TransferAssumption
     DEF WriteChunk, Counts, RecvCounts, TypeOK, DataInStep, RecvData, Idx
<1>2. ~(held.short /\ StaleBehind(dst, rSeq, held))
  <2>1. SUFFICES ASSUME held.short, StaleBehind(dst, rSeq, held)
                 PROVE  FALSE
    OBVIOUS
  <2>2. rSeq + 1 = src.n
    BY <1>1, <2>1 DEF ChunkOf
  <2>3. dst[rSeq] \in {Hole, held}
    BY <1>1 DEF DataInStep, DiskData
  <2>4. PICK j \in Idx : j > rSeq /\ dst[j] # Hole
    BY <2>1, <2>3 DEF StaleBehind
  <2>5. j >= src.n
    BY <1>1, <2>2, <2>4, TransferAssumption DEF Counts, TypeOK, Idx
  <2>6. QED
    BY <2>4, <2>5 DEF DataInStep, DiskData
<1>3. QED
  BY <1>1, <1>2 DEF WriteChunk, WriteAt

\* An intact chunk that file_recv takes has everything before it on disk.
LEMMA TakenIsNext ==
    ASSUME Counts, DataInStep, rPc = "recv", fwd # <<>>
    PROVE  /\ fwd[1].seq \in Idx /\ fwd[1].seq < src.n
           /\ fwd[1].chunk = ChunkOf(src, fwd[1].seq)
           /\ Intact(dst, src, fwd[1].seq)
           /\ Head(fwd) = fwd[1] /\ Tail(fwd) = <<>>
           /\ ResumeSeq(fwd[1]) = fwd[1].seq
           /\ ResumePos(fwd[1]) = fwd[1].seq
<1>1. fwd[1] \in FwdMsg
  BY OneInFlight
<1>2. Head(fwd) = fwd[1] /\ Tail(fwd) = <<>>
  BY OneInFlight
<1>3. fwd[1].seq \in Idx
  BY <1>1 DEF FwdMsg
<1>4. fwd[1].seq < src.n /\ Agrees(fwd[1].seq)
  BY DEF Counts, WireCounts
<1>5. ResumeSeq(fwd[1]) = fwd[1].seq /\ ResumePos(fwd[1]) = fwd[1].seq
  BY <1>3, <1>4, TransferAssumption
     DEF Agrees, Expected, ResumeSeq, ResumePos, DataInStep, RecvData, Counts, TypeOK, Idx
<1>6. Intact(dst, src, fwd[1].seq) /\ fwd[1].chunk = ChunkOf(src, fwd[1].seq)
  BY DEF DataInStep, WireData, HoldsBefore, Holds, Intact
<1>7. QED
  BY <1>2, <1>3, <1>4, <1>5, <1>6

\* Every step keeps the data in step with the counters, as long as writes succeed.
LEMMA DataInductive ==
    ASSUME Counts, Counts', ~DiskFaults, DataInStep, [Next]_vars
    PROVE  DataInStep'
<1> USE DEF DataInStep, netVars, sndVars, rcvVars
<1>1. CASE Connect
  BY <1>1 DEF Connect, DiskData, RecvData, WireData, SendData, HoldsBefore, Holds, Intact
<1>2. CASE ResumeSend
  BY <1>2 DEF ResumeSend, StartSend, FileSend, DiskData, RecvData, WireData, SendData,
              HoldsBefore, Holds, Intact
<1>3. CASE StartRecv
  <2>1. rSeq = 0 /\ rSeq' = 0 /\ rPc = "wait" /\ rPc' # "write"
    BY <1>3 DEF StartRecv, FileRecv, RecvPc, Counts, RecvCounts
  <2>2. QED
    BY <1>3, <2>1 DEF StartRecv, FileRecv, DiskData, RecvData, WireData, SendData,
                      HoldsBefore, Holds, Intact
<1>4. CASE SendChunk
  <2>1. UNCHANGED <<src, dst, sSeq, rcvVars>> /\ sPc = "ready" /\ sPc' = "await"
    BY <1>4 DEF SendChunk
  <2>2. DiskData' /\ RecvData' /\ (rPc # "off" => SendData)'
    BY <2>1 DEF DiskData, RecvData, SendData, HoldsBefore, Holds, Intact
  <2>3. WireData'
    <3>1. CASE fwd' = <<>>
      BY <3>1 DEF WireData
    <3>2. CASE fwd' # <<>>
      <4>1. fwd = <<>>
        BY <2>1 DEF Counts, RecvCounts, PeerCounts
      <4>2. link = "up" /\ rPc # "off"
        BY <1>4, <3>2, <4>1 DEF SendChunk, Sent, Counts, RecvCounts, TypeOK
      <4>3. fwd'[1] = ChunkMsg(src, sSeq)
        BY <1>4, <4>1, <4>2 DEF SendChunk, Sent
      <4>4. fwd'[1].seq = sSeq /\ fwd'[1].chunk = ChunkOf(src, sSeq)
        BY <4>3 DEF ChunkMsg
      <4>5. HoldsBefore(sSeq)'
        BY <2>1, <4>2 DEF SendData, HoldsBefore, Holds
      <4>6. QED
        BY <2>1, <4>4, <4>5 DEF WireData, HoldsBefore, Holds
    <3>3. QED
      BY <3>1, <3>2
  <2>4. QED
    BY <2>2, <2>3
<1>5. CASE ReadFails
  BY <1>5 DEF ReadFails, DiskData, RecvData, WireData, SendData, HoldsBefore, Holds, Intact
<1>6. CASE SendFails
  BY <1>6 DEF SendFails, DiskData, RecvData, WireData, SendData, HoldsBefore, Holds, Intact
<1>7. CASE RecvReply
  <2>1. UNCHANGED <<src, dst, fwd, rcvVars>> /\ sPc = "await" /\ back # <<>>
    BY <1>7 DEF RecvReply
  <2>2. DiskData' /\ RecvData' /\ WireData'
    BY <2>1 DEF DiskData, RecvData, WireData, HoldsBefore, Holds, Intact
  <2>3. ASSUME rPc # "off" PROVE SendData'
    <3>1. Head(back) = back[1]
      BY <2>1 DEF Counts, TypeOK
    <3>2. CASE back[1].type = "ok"
      <4>1. Expected = sSeq + 1 /\ sSeq' = sSeq + 1
        BY <1>7, <2>1, <2>3, <3>1, <3>2
           DEF RecvReply, FileSend, Counts, PeerCounts
      <4>2. HoldsBefore(sSeq) /\ Intact(dst, src, rSeq)
        BY <2>1, <2>3 DEF SendData, RecvData
      <4>3. HoldsBefore(sSeq + 1)
        BY <4>1, <4>2, TransferAssumption
           DEF Expected, HoldsBefore, Holds, Intact, Idx, Counts, TypeOK
      <4>4. QED
        BY <2>1, <4>1, <4>3 DEF SendData, HoldsBefore, Holds
    <3>3. CASE back[1].type # "ok"
      BY <1>7, <2>1, <2>3, <3>1, <3>3
         DEF RecvReply, SendData, HoldsBefore, Holds
    <3>4. QED
      BY <3>2, <3>3
  <2>4. QED
    BY <2>1, <2>2, <2>3
<1>8. CASE ReplyLost
  BY <1>8 DEF ReplyLost, DiskData, RecvData, WireData, SendData, HoldsBefore, Holds, Intact
<1>9. CASE RecvCorrupt
  <2>1. fwd' = <<>> /\ UNCHANGED <<src, dst, sndVars, rcvVars>>
    BY <1>9, TakenIsNext DEF RecvCorrupt
  <2>2. QED
    BY <2>1 DEF DiskData, RecvData, WireData, SendData, HoldsBefore, Holds, Intact
<1>10. CASE RecvGood
  <2>1. /\ Intact(dst, src, fwd[1].seq) /\ fwd' = <<>>
        /\ rPc = "recv" /\ rPc' = "write"
        /\ rSeq' = fwd[1].seq /\ rPos' = fwd[1].seq
        /\ held' = ChunkOf(src, fwd[1].seq)
        /\ UNCHANGED <<src, dst, sndVars>>
    BY <1>10, TakenIsNext DEF RecvGood
  <2>2. DiskData' /\ RecvData' /\ WireData'
    BY <2>1 DEF DiskData, RecvData, WireData, Intact
  <2>3. (rPc # "off" => SendData)'
    BY <2>1 DEF SendData, HoldsBefore, Holds
  <2>4. QED
    BY <2>2, <2>3
<1>11. CASE RecvReplyFails
  <2>1. /\ Intact(dst, src, fwd[1].seq) /\ fwd' = <<>>
        /\ rPc = "recv" /\ rPc' = "fail"
        /\ \/ rSeq' = fwd[1].seq /\ rPos' = fwd[1].seq
           \/ UNCHANGED <<rSeq, rPos>>
        /\ UNCHANGED <<src, dst, sndVars>>
    BY <1>11, TakenIsNext DEF RecvReplyFails, RecvReturn
  <2>2. QED
    BY <2>1 DEF DiskData, RecvData, WireData, SendData, HoldsBefore, Holds, Intact
<1>12. CASE RecvEnd
  BY <1>12 DEF RecvEnd, RecvReturn, DiskData, RecvData, WireData, SendData,
               HoldsBefore, Holds, Intact
<1>13. CASE WriteChunk
  <2>1. dst' = [dst EXCEPT ![rSeq] = ChunkOf(src, rSeq)]
    BY <1>13, WriteExact
  <2>2. /\ rPc = "write" /\ rPc' # "write" /\ rPc' # "off"
        /\ rSeq' = rSeq + 1 /\ rPos' = rPos + 1
        /\ UNCHANGED <<src, fwd, sndVars>>
    BY <1>13 DEF WriteChunk, RecvPc
  <2>3. rSeq \in Nat /\ rSeq \in Idx /\ rSeq < src.n /\ dst \in [Idx -> Chunks \cup {Hole, Torn}]
    BY <2>2, TransferAssumption DEF Counts, RecvCounts, TypeOK, Idx
  <2>4. \A i \in Idx : dst'[i] = IF i = rSeq THEN ChunkOf(src, i) ELSE dst[i]
    BY <2>1, <2>3
  <2>5. \A i \in Idx : Holds(i) => Holds(i)'
    BY <2>2, <2>4 DEF Holds
  <2>6. DiskData'
    BY <2>2, <2>3, <2>4, TransferAssumption DEF DiskData, Counts, TypeOK, Idx
  <2>7. RecvData'
    BY <2>2, <2>3, <2>4 DEF RecvData, Intact, Idx
  <2>8. WireData'
    BY <2>2, <2>5 DEF WireData, HoldsBefore
  <2>9. SendData'
    BY <2>2, <2>5 DEF SendData, HoldsBefore
  <2>10. QED
    BY <2>6, <2>7, <2>8, <2>9
<1>14. CASE Cut
  <2>1. fwd' # <<>> => fwd # <<>> /\ fwd'[1] = fwd[1]
    BY <1>14, LoseSuffixPrefix DEF Cut, Counts, TypeOK
  <2>2. QED
    BY <1>14, <2>1 DEF Cut, DiskData, RecvData, WireData, SendData, HoldsBefore, Holds, Intact
<1>15. CASE Corrupt
  <2>1. fwd # <<>> /\ fwd'[1].seq = fwd[1].seq /\ fwd'[1].chunk = fwd[1].chunk
    <3>1. fwd \in Seq(FwdMsg) /\ fwd # <<>>
      BY <1>15 DEF Corrupt, Counts, TypeOK
    <3>2. fwd[1] \in FwdMsg /\ 1 \in DOMAIN fwd
      BY <3>1
    <3>3. fwd'[1] = [fwd[1] EXCEPT !.ok = FALSE]
      BY <1>15, <3>1, <3>2 DEF Corrupt
    <3>4. QED
      BY <3>1, <3>2, <3>3 DEF FwdMsg
  <2>2. QED
    BY <1>15, <2>1 DEF Corrupt, DiskData, RecvData, WireData, SendData, HoldsBefore, Holds,
                       Intact
<1>16. CASE LeaveSend
  <2>1. fwd' # <<>> => fwd # <<>> /\ fwd'[1] = fwd[1]
    BY <1>16, LoseSuffixPrefix DEF LeaveSend, Counts, TypeOK
  <2>2. QED
    BY <1>16, <2>1 DEF LeaveSend, SndGone, DiskData, RecvData, WireData, SendData,
                       HoldsBefore, Holds, Intact
<1>17. CASE LeaveRecv
  BY <1>17 DEF LeaveRecv, RcvGone, DiskData, RecvData, WireData, Intact, Idx
<1>18. CASE UNCHANGED vars
  BY <1>18 DEF vars, DiskData, RecvData, WireData, SendData, HoldsBefore, Holds, Intact
<1>19. QED
  BY <1>1, <1>2, <1>3, <1>4, <1>5, <1>6, <1>7, <1>8, <1>9, <1>10, <1>11, <1>12,
     <1>13, <1>14, <1>15, <1>16, <1>17, <1>18 DEF Next, SendStep, RecvStep

\* When writes succeed, the data is in step with the counters in every behaviour.
THEOREM DataInvariant ==
    ASSUME ~DiskFaults
    PROVE  Spec => []DataInStep
<1>1. Init => DataInStep
  BY TransferAssumption
     DEF Init, DataInStep, DiskData, RecvData, WireData, EmptyFile, Intact, Idx
<1>2. Counts /\ Counts' /\ DataInStep /\ [Next]_vars => DataInStep'
  BY DataInductive
<1>3. QED
  BY <1>1, <1>2, CountsInvariant, PTL DEF Spec

\* file_recv reports success only when the received file is the file sent, after
\* any number of interrupted, repeated and resumed attempts.
THEOREM SuccessIsComplete ==
    ASSUME ~DiskFaults
    PROVE  Spec => []CompleteCopy
<1>1. Counts /\ DataInStep => CompleteCopy
  BY DEF Counts, RecvCounts, DataInStep, RecvData, CompleteCopy
<1>2. QED
  BY <1>1, CountsInvariant, DataInvariant, PTL

\* What file_recv counts as received is on disk at its place, in every state: the
\* count it returns when interrupted is a safe place to resume.
THEOREM ResumePointIsSafe ==
    ASSUME ~DiskFaults
    PROVE  Spec => []CountedIsStored
<1>1. DataInStep => CountedIsStored
  BY DEF DataInStep, RecvData, CountedIsStored
<1>2. QED
  BY <1>1, DataInvariant, PTL

\* A chunk acknowledged to a sender is held while the receiver lives.
THEOREM AcknowledgedIsHeld ==
    ASSUME ~DiskFaults
    PROVE  Spec => []AckedIsHeld
<1>1. DataInStep => AckedIsHeld
  BY DEF DataInStep, SendData, AckedIsHeld
<1>2. QED
  BY <1>1, DataInvariant, PTL
-----------------------------------------------------------------------------
\* The file sent, as the abstract specification sees it.
Original == [i \in 0..(src.n - 1) |-> ChunkOf(src, i)]

LEMMA OriginalDomain ==
    ASSUME Counts
    PROVE  /\ DOMAIN Original = 0..(src.n - 1)
           /\ src.n \in Nat
           /\ \A i \in DOMAIN Original : /\ i \in Idx /\ i < src.n
                                         /\ Original[i] = ChunkOf(src, i)
           /\ \A i \in Idx : i < src.n => i \in DOMAIN Original
BY TransferAssumption DEF Counts, TypeOK, Original, Idx

\* The file sent stays as it is, and only the write changes the file received.
LEMMA OnlyWritesChange ==
    ASSUME [Next]_vars
    PROVE  src' = src /\ (dst' = dst \/ WriteChunk)
BY DEF Next, SendStep, RecvStep, vars, Connect, ResumeSend, StartSend, StartRecv,
       SendChunk, ReadFails, SendFails, RecvReply, ReplyLost, RecvCorrupt, RecvGood,
       RecvReplyFails, RecvEnd, WriteChunk, Cut, Corrupt, LeaveSend, LeaveRecv

\* What is stored of the file stays stored.
LEMMA StoredStays ==
    ASSUME Counts, ~DiskFaults, DataInStep, [Next]_vars, NEW k, Intact(dst, src, k)
    PROVE  Intact(dst', src', k)
<1>1. src' = src /\ (dst' = dst \/ WriteChunk)
  BY OnlyWritesChange
<1>2. CASE dst' = dst
  BY <1>1, <1>2 DEF Intact
<1>3. CASE WriteChunk
  <2>1. dst' = [dst EXCEPT ![rSeq] = ChunkOf(src, rSeq)] /\ DOMAIN dst = Idx
    BY <1>3, WriteExact DEF Counts, TypeOK
  <2>2. QED
    BY <1>1, <2>1 DEF Intact
<1>4. QED
  BY <1>1, <1>2, <1>3

\* Every step of the chunk protocol delivers the next chunk of the file or leaves
\* the received file alone.
LEMMA StepCopies ==
    ASSUME Counts, Counts', ~DiskFaults, DataInStep, DataInStep', [Next]_vars
    PROVE  [Copy!Next]_(Copy!vars)
<1>1. src' = src /\ (dst' = dst \/ WriteChunk)
  BY OnlyWritesChange
<1>2. dst' = dst \/ \E i \in DOMAIN Original : Copy!Deliver(i)
  <2>1. SUFFICES ASSUME WriteChunk PROVE \E i \in DOMAIN Original : Copy!Deliver(i)
    BY <1>1
  <2>2. rSeq \in DOMAIN Original
    BY <2>1, OriginalDomain, TransferAssumption
       DEF WriteChunk, Counts, RecvCounts, TypeOK, Idx
  <2>3. dst' = [dst EXCEPT ![rSeq] = Original[rSeq]]
    BY <2>1, <2>2, WriteExact, OriginalDomain
  <2>4. \A j \in DOMAIN Original : j < rSeq => dst[j] = Original[j]
    BY OriginalDomain DEF DataInStep, RecvData, Intact
  <2>5. Copy!Deliver(rSeq)
    BY <2>3, <2>4 DEF Copy!Deliver, Copy!HasBefore, Original
  <2>6. QED
    BY <2>2, <2>5
<1>3. (rPc = "done")' => \A j \in DOMAIN Original : dst'[j] = Original[j]
  <2>1. SUFFICES ASSUME rPc' = "done", NEW j \in DOMAIN Original
                 PROVE  dst'[j] = Original[j]
    OBVIOUS
  <2>2. rSeq' = src.n /\ Intact(dst', src, rSeq')
    BY <1>1, <2>1 DEF Counts, RecvCounts, DataInStep, RecvData, Intact
  <2>3. QED
    BY <2>2, OriginalDomain DEF Intact
<1>4. Copy!Next
  BY <1>1, <1>2, <1>3 DEF Copy!Next, Copy!Complete, Original
<1>5. QED
  BY <1>4

\* The chunk protocol implements the abstract in-order copy.
THEOREM ImplementsCopy ==
    ASSUME ~DiskFaults
    PROVE  Spec => CopiesInOrder
<1>1. Init => Copy!Init
  BY DEF Init, Copy!Init, EmptyFile
<1>2. Counts /\ Counts' /\ DataInStep /\ DataInStep' /\ [Next]_vars
          => [Copy!Next]_(Copy!vars)
  BY StepCopies
<1>3. QED
  BY <1>1, <1>2, CountsInvariant, DataInvariant, PTL DEF Spec, CopiesInOrder, Copy!Spec
-----------------------------------------------------------------------------
(* For the commands: the receiver's messages when its replies to chunks share the *)
(* connection with the messages of a command.                                     *)

\* A reply is the first message in flight.
NoReplyBehind(q) == \A i \in 2..Len(q) : ~IsReply(q[i])

\* At most one reply is in flight.
LEMMA RepliesInType ==
    ASSUME NEW Msg, NEW q \in Seq(Msg)
    PROVE  RepliesIn(q) \in Seq(Msg) /\ Len(RepliesIn(q)) <= 1
<1>1. CASE q # <<>> /\ IsReply(Head(q))
  <2>1. Head(q) \in Msg /\ RepliesIn(q) = <<Head(q)>>
    BY <1>1 DEF RepliesIn
  <2>2. QED
    BY <2>1
<1>2. CASE ~(q # <<>> /\ IsReply(Head(q)))
  BY <1>2 DEF RepliesIn
<1>3. QED
  BY <1>1, <1>2

\* Once the first message is taken no reply is left.
LEMMA RepliesInTail ==
    ASSUME NEW Msg, NEW q \in Seq(Msg), q # <<>>, NoReplyBehind(q)
    PROVE  /\ Tail(q) \in Seq(Msg)
           /\ Head(q) = q[1] /\ q[1] \in Msg
           /\ RepliesIn(Tail(q)) = <<>>
           /\ NoReplyBehind(Tail(q))
           /\ Len(q) = 1 => Tail(q) = <<>>
           /\ RepliesIn(q) = IF IsReply(q[1]) THEN <<q[1]>> ELSE <<>>
           /\ \A i \in 1..Len(Tail(q)) : i + 1 \in 1..Len(q) /\ Tail(q)[i] = q[i + 1]
<1>1. /\ Tail(q) \in Seq(Msg) /\ Head(q) = q[1] /\ q[1] \in Msg
      /\ Len(Tail(q)) = Len(q) - 1 /\ Len(q) \in Nat /\ Len(q) >= 1
  OBVIOUS
<1>2. \A i \in 1..Len(Tail(q)) : i + 1 \in 1..Len(q) /\ Tail(q)[i] = q[i + 1]
  BY <1>1
<1>3. NoReplyBehind(Tail(q))
  BY <1>1, <1>2 DEF NoReplyBehind
<1>4. RepliesIn(Tail(q)) = <<>>
  <2>1. SUFFICES ASSUME Tail(q) # <<>> PROVE ~IsReply(Head(Tail(q)))
    BY DEF RepliesIn
  <2>2. Head(Tail(q)) = q[2] /\ 2 \in 2..Len(q)
    BY <2>1, <1>1, <1>2
  <2>3. QED
    BY <2>2 DEF NoReplyBehind
<1>5. RepliesIn(q) = IF IsReply(q[1]) THEN <<q[1]>> ELSE <<>>
  BY <1>1 DEF RepliesIn
<1>6. Len(q) = 1 => Tail(q) = <<>>
  BY <1>1, TakeOnly
<1>7. QED
  BY <1>1, <1>2, <1>3, <1>4, <1>5, <1>6

\* A command's own messages behind the replies are no replies: what a closed or broken
\* connection leaves of both keeps the reply or loses it.
LEMMA RepliesInLost ==
    ASSUME NEW Msg, NEW q \in Seq(Msg), NEW r \in Seq(Msg), NEW last \in LoseSuffix(q \o r),
           NoReplyBehind(q), \A i \in 1..Len(r) : ~IsReply(r[i])
    PROVE  /\ last \in Seq(Msg)
           /\ RepliesIn(last) \in LoseSuffix(RepliesIn(q))
           /\ NoReplyBehind(last)
           /\ \A i \in 1..Len(last) : \/ i \in 1..Len(q) /\ last[i] = q[i]
                                      \/ \E j \in 1..Len(r) : i = Len(q) + j /\ last[i] = r[j]
<1> DEFINE s == q \o r
<1>1. s \in Seq(Msg) /\ Len(s) = Len(q) + Len(r) /\ Len(q) \in Nat /\ Len(r) \in Nat
  OBVIOUS
<1>2. \A i \in 1..Len(s) : /\ i <= Len(q) => s[i] = q[i]
                           /\ i > Len(q) => i - Len(q) \in 1..Len(r) /\ s[i] = r[i - Len(q)]
  BY <1>1
<1>3. PICK k \in 0..Len(s) : last = SubSeq(s, 1, k)
  BY DEF LoseSuffix
<1> HIDE DEF s
<1>4. last \in Seq(Msg) /\ Len(last) = k /\ \A i \in 1..k : last[i] = s[i]
  BY <1>1, <1>3
<1>5. \A i \in 1..Len(last) : \/ i \in 1..Len(q) /\ last[i] = q[i]
                              \/ \E j \in 1..Len(r) : i = Len(q) + j /\ last[i] = r[j]
  <2>1. SUFFICES ASSUME NEW i \in 1..Len(last)
                 PROVE  \/ i \in 1..Len(q) /\ last[i] = q[i]
                        \/ \E j \in 1..Len(r) : i = Len(q) + j /\ last[i] = r[j]
    OBVIOUS
  <2>2. i \in 1..Len(s) /\ last[i] = s[i]
    BY <1>1, <1>4
  <2>3. CASE i <= Len(q)
    BY <1>1, <1>2, <2>2, <2>3
  <2>4. CASE i > Len(q)
    <3>1. i - Len(q) \in 1..Len(r) /\ last[i] = r[i - Len(q)] /\ i = Len(q) + (i - Len(q))
      BY <1>1, <1>2, <2>2, <2>4
    <3>2. QED
      BY <3>1
  <2>5. QED
    BY <1>1, <2>3, <2>4
<1>6. NoReplyBehind(last)
  BY <1>1, <1>5 DEF NoReplyBehind
<1>7. RepliesIn(last) \in LoseSuffix(RepliesIn(q))
  <2>1. <<>> \in LoseSuffix(RepliesIn(q)) /\ RepliesIn(q) \in LoseSuffix(RepliesIn(q))
    BY RepliesInType, LoseAllOrNone
  <2>2. CASE last = <<>> \/ ~IsReply(Head(last))
    BY <2>1, <2>2 DEF RepliesIn
  <2>3. CASE last # <<>> /\ IsReply(Head(last))
    <3>1. 1 \in 1..Len(last) /\ Head(last) = last[1]
      BY <1>4, <2>3
    <3>2. 1 \in 1..Len(q) /\ last[1] = q[1]
      BY <1>5, <2>3, <3>1
    <3>3. q # <<>> /\ Head(q) = q[1]
      BY <3>2
    <3>4. RepliesIn(last) = <<q[1]>> /\ RepliesIn(q) = <<q[1]>>
      BY <2>3, <3>1, <3>2, <3>3 DEF RepliesIn
    <3>5. QED
      BY <2>1, <3>4
  <2>4. QED
    BY <2>2, <2>3
<1>8. QED
  BY <1>4, <1>5, <1>6, <1>7

\* A breaking connection keeps the reply or loses it.
LEMMA RepliesInCut ==
    ASSUME NEW Msg, NEW q \in Seq(Msg), NEW last \in LoseSuffix(q), NoReplyBehind(q)
    PROVE  /\ last \in Seq(Msg)
           /\ RepliesIn(last) \in LoseSuffix(RepliesIn(q))
           /\ NoReplyBehind(last)
           /\ \A i \in 1..Len(last) : i \in 1..Len(q) /\ last[i] = q[i]
<1> DEFINE none == <<>>
<1>1. none \in Seq(Msg)
  OBVIOUS
<1>2. \A i \in 1..Len(none) : FALSE
  OBVIOUS
<1>3. last \in LoseSuffix(q \o none)
  <2>1. q \o none = q
    OBVIOUS
  <2>2. QED
    BY <2>1
<1> HIDE DEF none
<1>4. /\ last \in Seq(Msg) /\ NoReplyBehind(last)
      /\ RepliesIn(last) \in LoseSuffix(RepliesIn(q))
      /\ \A i \in 1..Len(last) : \/ i \in 1..Len(q) /\ last[i] = q[i]
                                 \/ \E j \in 1..Len(none) : i = Len(q) + j /\ last[i] = none[j]
  <2>1. \A i \in 1..Len(none) : ~IsReply(none[i])
    BY <1>2
  <2>2. QED
    BY <1>1, <1>3, <2>1, RepliesInLost
<1>5. QED
  BY <1>2, <1>4
=============================================================================
