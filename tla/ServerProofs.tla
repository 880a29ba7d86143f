---------------------------- MODULE ServerProofs ----------------------------
(***************************************************************************)
(* Proofs about Server, for any number of clients, descriptors, workers    *)
(* and events, and any commands.                                           *)
(***************************************************************************)
EXTENDS Server, TLAPS

\* A semaphore is posted only for a worker whose flag is set, and once.
FlagFirst ==
    /\ \A i \in Worker : workers[i].sem > 0 \/ workers[i].pc # "asleep" => workers[i].terminated
    /\ clean.at # "flag" => workers[clean.i].terminated
    /\ \A i \in Worker : i > clean.i \/ (i = clean.i /\ clean.at \in {"flag", "post"})
          => workers[i].sem = 0
    /\ NoWorkerRunsATask

\* The inductive invariant of the workers, beside their types.
WorkersInv == WorkersTypeOK /\ FlagFirst

\* The workers as main starts them.
LEMMA WorkersInitInv == WorkersInit => WorkersInv
<1> SUFFICES ASSUME WorkersInit PROVE WorkersInv
  OBVIOUS
<1>1. lockHeld \in BOOLEAN
  BY DEF WorkersInit
<1>2. /\ main = "loop"
      /\ workers = [i \in Worker |-> [pc |-> "asleep", terminated |-> FALSE, sem |-> 0]]
      /\ clean = [i |-> 1, at |-> "flag"]
  BY DEF WorkersInit
<1> QED
  BY <1>1, <1>2, NThreadsAssumption
  DEF WorkersInv, WorkersTypeOK, FlagFirst, NoWorkerRunsATask, Worker

\* A worker that wakes, and one that looks at its flag.
LEMMA WorkerStepInv ==
    ASSUME WorkersInv, NEW i \in Worker, WorkerStep(i)
    PROVE  WorkersInv'
<1>1. CASE WorkerWakes(i)
  BY <1>1, NThreadsAssumption
  DEF WorkersInv, WorkersTypeOK, FlagFirst, NoWorkerRunsATask, Worker, WorkerWakes
<1>2. CASE WorkerChecks(i)
  BY <1>2, NThreadsAssumption
  DEF WorkersInv, WorkersTypeOK, FlagFirst, NoWorkerRunsATask, Worker, WorkerChecks
<1> QED BY <1>1, <1>2 DEF WorkerStep

\* cleanup sets the flag and then posts.
LEMMA FlagAndPostInv ==
    ASSUME WorkersInv, FlagAndPost("flag") \/ FlagAndPost("post")
    PROVE  WorkersInv'
<1>1. CASE FlagAndPost("flag")
  <2>1. /\ clean \in [i : Worker, at : {"flag", "post", "read", "join", "destroy"}]
        /\ clean.at = "flag" /\ clean.i \in Worker /\ main' = main
        /\ lockHeld' = lockHeld
        /\ workers' = [workers EXCEPT ![clean.i].terminated = TRUE]
        /\ clean' = [clean EXCEPT !.at = "post"]
    BY <1>1 DEF WorkersInv, WorkersTypeOK, FlagAndPost, CleanupAt
  <2>2. clean' \in [i : Worker, at : {"flag", "post", "read", "join", "destroy"}]
        /\ clean'.i = clean.i /\ clean'.at = "post"
    BY <2>1
  <2>3. \A i \in Worker : /\ workers'[i].pc = workers[i].pc
                          /\ workers'[i].sem = workers[i].sem
                          /\ workers[i].terminated \/ i = clean.i => workers'[i].terminated
    BY <2>1 DEF WorkersInv, WorkersTypeOK
  <2>4. WorkersTypeOK'
    BY <2>1, <2>2 DEF WorkersInv, WorkersTypeOK
  <2>5. FlagFirst'
    BY <2>1, <2>2, <2>3 DEF WorkersInv, FlagFirst, NoWorkerRunsATask
  <2> QED BY <2>4, <2>5 DEF WorkersInv
<1>2. CASE FlagAndPost("post")
  BY <1>2, NThreadsAssumption
  DEF WorkersInv, WorkersTypeOK, FlagFirst, NoWorkerRunsATask, Worker, FlagAndPost, CleanupAt
<1> QED BY <1>1, <1>2

\* The statements of cleanup.
LEMMA CleanupInv == ASSUME WorkersInv, CleanupStep PROVE WorkersInv'
<1>1. CASE ReadThread
  BY <1>1, NThreadsAssumption
  DEF WorkersInv, WorkersTypeOK, FlagFirst, NoWorkerRunsATask, Worker, ReadThread, CleanupAt
<1>2. CASE Join
  BY <1>2, NThreadsAssumption
  DEF WorkersInv, WorkersTypeOK, FlagFirst, NoWorkerRunsATask, Worker, Join, CleanupAt
<1>3. CASE Destroy
  BY <1>3, NThreadsAssumption
  DEF WorkersInv, WorkersTypeOK, FlagFirst, NoWorkerRunsATask, Worker, Destroy, CleanupAt
<1> QED BY <1>1, <1>2, <1>3, FlagAndPostInv DEF CleanupStep
-----------------------------------------------------------------------------
(* The loop *)

LoopTypeOK ==
    /\ cl \in [Clients -> Process]
    /\ fds \in [Fds -> Clients \cup {Free, Leaked}]
    /\ epoll \subseteq Fds
    /\ backlog \in Seq(Clients)
    /\ batch \subseteq (Fds \X Clients) \cup {<<ServerFd, Listen>>}
    /\ busy \in Fds \cup {None}
    /\ again \in Fds \cup {None}

\* The open connections are those that are watched and the one that is served, and
\* each client has at most one.
Connections ==
    /\ \A f \in Fds : fds[f] \in Clients <=> f \in epoll \/ f = busy
    /\ busy \notin epoll
    /\ \A f, g \in Fds : fds[f] \in Clients /\ fds[f] = fds[g] => f = g

\* Events are reported for connections that are watched, and stay so.
Events ==
    /\ \A e \in batch : e[1] \in Fds => e[1] \in epoll /\ fds[e[1]] = e[2]
    /\ <<ServerFd, Listen>> \in batch => backlog # <<>>

\* The second close finds nothing: no file is opened and no connection accepted before it.
SecondClose == again # None => busy = None /\ fds[again] = Free

\* A process is in the backlog, or has a descriptor, or neither.
Queue ==
    /\ \A i \in 1..Len(backlog) : cl[backlog[i]].st # "off" /\ cl[backlog[i]].read = 0
    /\ \A i, j \in 1..Len(backlog) : backlog[i] = backlog[j] => i = j
    /\ \A f \in Fds, i \in 1..Len(backlog) : fds[f] # backlog[i]
    /\ \A f \in Fds : fds[f] \in Clients => cl[fds[f]].st # "off"
    /\ \A c \in Clients : cl[c].st # "off" => cl[c].cmd \in Commands

\* The inductive invariant of the loop.
LoopInv ==
    /\ LoopTypeOK
    /\ Connections
    /\ Events
    /\ SecondClose
    /\ Queue
    /\ ConsumedIsAnswered

Inv == WorkersInv /\ LoopInv

\* A process that does not run.
LEMMA IdleIsProcess == Idle \in Process
BY DEF Idle, Process

\* The loop before the first connection.
LEMMA LoopInitInv == Init => LoopInv
<1> SUFFICES ASSUME Init PROVE LoopInv
  OBVIOUS
<1>1. LoopTypeOK
  BY IdleIsProcess DEF Init, LoopTypeOK
<1>2. Connections
  BY ServerAssumption DEF Init, Connections, Fds
<1>3. Events /\ SecondClose
  BY DEF Init, Events, SecondClose
<1>4. Queue
  BY ServerAssumption DEF Init, Queue, Idle
<1>5. ConsumedIsAnswered
  BY ServerAssumption DEF Init, ConsumedIsAnswered
<1> QED BY <1>1, <1>2, <1>3, <1>4, <1>5 DEF LoopInv

\* A process that has ended has no connections, and one that hangs serves none.
LEMMA VanishInv ==
    ASSUME LoopInv, DropDescriptors, cl' = [c \in Clients |-> Idle] \/ cl' = cl
    PROVE  LoopInv'
<1>1. LoopTypeOK'
  BY IdleIsProcess DEF DropDescriptors, LoopInv, LoopTypeOK
<1>2. Connections'
  BY ServerAssumption DEF DropDescriptors, Connections, Fds
<1>3. Events' /\ SecondClose'
  BY DEF DropDescriptors, Events, SecondClose
<1>4. Queue'
  BY ServerAssumption DEF DropDescriptors, LoopInv, Queue, Idle
<1>5. ConsumedIsAnswered'
  BY ServerAssumption DEF DropDescriptors, ConsumedIsAnswered
<1> QED BY <1>1, <1>2, <1>3, <1>4, <1>5 DEF LoopInv

\* close of a connection nobody has an event for any more.
LEMMA CloseInv ==
    ASSUME LoopInv, NEW f \in Fds, Close(f), fds[f] \in Clients,
           batch' \subseteq batch, \A e \in batch' : e[1] # f,
           busy' = (IF busy = f THEN None ELSE busy), backlog' = backlog,
           again' \in {None, f}, again' = f => busy' = None
    PROVE  LoopInv'
<1>1. fds' = [fds EXCEPT ![f] = Free] /\ epoll' = epoll \ {f}
  BY DEF Close
<1>2. cl' = [c \in Clients |-> IF c = fds[f] THEN Idle ELSE cl[c]]
  BY DEF Close
<1>3. LoopTypeOK'
  BY <1>1, <1>2, IdleIsProcess DEF LoopInv, LoopTypeOK
<1>4. Connections'
  BY <1>1, ServerAssumption DEF LoopInv, LoopTypeOK, Connections, Fds
<1>5. Events'
  BY <1>1 DEF LoopInv, LoopTypeOK, Events
<1>6. SecondClose'
  BY <1>1 DEF LoopInv, LoopTypeOK, SecondClose
<1>7. Queue'
  <2>1. \A i \in 1..Len(backlog) : backlog[i] \in Clients /\ backlog[i] # fds[f]
    BY DEF LoopInv, LoopTypeOK, Queue
  <2>2. \A g \in Fds : fds'[g] \in Clients => fds'[g] = fds[g] /\ fds[g] # fds[f]
    BY <1>1, ServerAssumption DEF LoopInv, LoopTypeOK, Connections
  <2>3. \A c \in Clients : c # fds[f] => cl'[c] = cl[c]
    BY <1>2
  <2>4. \A c \in Clients : cl'[c].st # "off" => c # fds[f]
    BY <1>2 DEF Idle
  <2>5. \A g \in Fds, i \in 1..Len(backlog) : fds'[g] # backlog[i]
    BY <1>1, <2>1, ServerAssumption DEF LoopInv, LoopTypeOK, Queue
  <2> QED BY <2>1, <2>2, <2>3, <2>4, <2>5 DEF LoopInv, Queue
<1>8. ConsumedIsAnswered'
  <2>1. \A g \in Fds : fds'[g] \in Clients => /\ fds'[g] = fds[g] /\ g # f
                                             /\ cl'[fds[g]] = cl[fds[g]]
    BY <1>1, <1>2, ServerAssumption DEF LoopInv, LoopTypeOK, Connections
  <2> QED BY <2>1 DEF LoopInv, ConsumedIsAnswered
<1> QED BY <1>3, <1>4, <1>5, <1>6, <1>7, <1>8 DEF LoopInv

\* What a handler that answers at once may do: one process changes, files may be left
\* open.
LEMMA OneShotInv ==
    ASSUME LoopInv, NEW f \in Fds, fds[f] \in Clients, NEW q \in Process,
           cl' = [cl EXCEPT ![fds[f]] = q],
           q.st # "off", q.cmd \in Commands,
           q.st = "wait" /\ q.read > 0 => q.lost \/ f = busy',
           fds' \in [Fds -> Clients \cup {Free, Leaked}],
           \A g \in Fds : fds'[g] = fds[g] \/ (fds[g] = Free /\ fds'[g] = Leaked),
           batch' \subseteq batch, again = None,
           epoll' = epoll, backlog' = backlog, busy' = busy, again' = again
    PROVE  LoopInv'
<1>0. \A g \in Fds : fds'[g] \in Clients <=> fds[g] \in Clients
  BY ServerAssumption DEF LoopInv, LoopTypeOK
<1>00. \A g \in Fds : fds[g] \in Clients => fds'[g] = fds[g]
  BY ServerAssumption DEF LoopInv, LoopTypeOK
<1>1. LoopTypeOK'
  BY DEF LoopInv, LoopTypeOK
<1>2. Connections'
  BY <1>0, <1>00 DEF LoopInv, LoopTypeOK, Connections
<1>3. Events' /\ SecondClose'
  BY <1>00 DEF LoopInv, LoopTypeOK, Connections, Events, SecondClose
<1>4. Queue'
  <2>1. \A i \in 1..Len(backlog) : backlog[i] \in Clients /\ backlog[i] # fds[f]
    BY DEF LoopInv, LoopTypeOK, Queue
  <2>2. \A c \in Clients : c # fds[f] => cl'[c] = cl[c]
    BY DEF LoopInv, LoopTypeOK
  <2>3. cl'[fds[f]] = q
    BY DEF LoopInv, LoopTypeOK
  <2>4. \A g \in Fds, i \in 1..Len(backlog) : fds'[g] # backlog[i]
    BY <1>0, <1>00, <2>1 DEF LoopInv, LoopTypeOK, Queue
  <2>5. \A g \in Fds : fds'[g] \in Clients => cl'[fds'[g]].st # "off"
    BY <1>0, <1>00, <2>2, <2>3 DEF LoopInv, LoopTypeOK, Queue
  <2> QED BY <2>1, <2>2, <2>3, <2>4, <2>5 DEF LoopInv, Queue
<1>5. ConsumedIsAnswered'
  <2>1. ASSUME NEW g \in Fds, fds'[g] \in Clients
        PROVE  cl'[fds'[g]].st = "wait" /\ cl'[fds'[g]].read > 0
                 => g = busy' \/ cl'[fds'[g]].lost
    <3>1. fds'[g] = fds[g] /\ fds[g] \in Clients
      BY <2>1, <1>0, <1>00
    <3>2. CASE g = f
      BY <3>1, <3>2 DEF LoopInv, LoopTypeOK
    <3>3. CASE g # f
      <4>1. fds[g] # fds[f]
        BY <3>1, <3>3 DEF LoopInv, Connections
      <4> QED BY <3>1, <4>1 DEF LoopInv, LoopTypeOK, ConsumedIsAnswered
    <3> QED BY <3>2, <3>3
  <2> QED BY <2>1 DEF ConsumedIsAnswered
<1> QED BY <1>1, <1>2, <1>3, <1>4, <1>5 DEF LoopInv
-----------------------------------------------------------------------------
(* The steps of the clients *)

\* A client that connects is in nobody's way: it was off, so it is in no queue and has no descriptor.
LEMMA StartInv == ASSUME LoopInv, NEW c \in Clients, Start(c) PROVE LoopInv'
<1> PICK cmd \in Commands : cl' = [cl EXCEPT ![c] = [Idle EXCEPT !.st = "wait", !.cmd = cmd]]
  BY DEF Start
<1> DEFINE q == [Idle EXCEPT !.st = "wait", !.cmd = cmd]
<1>1. q \in Process /\ q.st = "wait" /\ q.cmd = cmd /\ q.read = 0
  BY DEF Idle, Process
<1> HIDE DEF q
<1>2. cl' = [cl EXCEPT ![c] = q]
  BY DEF q
<1>3. /\ backlog' = Append(backlog, c) /\ cl[c].st = "off"
      /\ UNCHANGED <<fds, epoll, batch, busy, again>>
  BY DEF Start
<1>4. backlog \in Seq(Clients) /\ backlog' \in Seq(Clients)
  BY <1>3 DEF LoopInv, LoopTypeOK
<1>5. LoopTypeOK'
  BY <1>1, <1>2, <1>3, <1>4 DEF LoopInv, LoopTypeOK
<1>6. Connections' /\ SecondClose'
  BY <1>3 DEF LoopInv, Connections, SecondClose
<1>7. Events'
  BY <1>3, <1>4 DEF LoopInv, Events
<1>8. \A i \in 1..Len(backlog) : backlog[i] # c /\ backlog[i] \in Clients
  BY <1>3, <1>4 DEF LoopInv, Queue
<1>9. \A f \in Fds : fds[f] # c
  BY <1>3 DEF LoopInv, Queue
<1>10. \A d \in Clients : cl'[d] = IF d = c THEN q ELSE cl[d]
  BY <1>2 DEF LoopInv, LoopTypeOK
<1>11. Queue'
  <2>1. Len(backlog') = Len(backlog) + 1 /\ Len(backlog) \in Nat
    BY <1>3, <1>4
  <2>2. \A i \in 1..Len(backlog') : backlog'[i] = IF i = Len(backlog) + 1 THEN c ELSE backlog[i]
    BY <1>3, <1>4
  <2>3. \A i \in 1..Len(backlog') : i # Len(backlog) + 1 => i \in 1..Len(backlog)
    BY <2>1
  <2>4. \A i \in 1..Len(backlog') : cl'[backlog'[i]].st # "off" /\ cl'[backlog'[i]].read = 0
    <3> SUFFICES ASSUME NEW i \in 1..Len(backlog')
                 PROVE  cl'[backlog'[i]].st # "off" /\ cl'[backlog'[i]].read = 0
      OBVIOUS
    <3>1. CASE i = Len(backlog) + 1
      BY <3>1, <2>2, <1>10, <1>1
    <3>2. CASE i # Len(backlog) + 1
      <4>1. i \in 1..Len(backlog) /\ backlog'[i] = backlog[i]
        BY <3>2, <2>2, <2>3
      <4>2. cl'[backlog'[i]] = cl[backlog[i]]
        BY <4>1, <1>8, <1>10
      <4> QED BY <4>1, <4>2 DEF LoopInv, Queue
    <3> QED BY <3>1, <3>2
  <2>5. \A i, j \in 1..Len(backlog') : backlog'[i] = backlog'[j] => i = j
    BY <2>2, <2>3, <1>8 DEF LoopInv, Queue
  <2>6. \A f \in Fds, i \in 1..Len(backlog') : fds'[f] # backlog'[i]
    BY <2>2, <2>3, <1>9, <1>3 DEF LoopInv, Queue
  <2>7. \A f \in Fds : fds'[f] \in Clients => cl'[fds'[f]].st # "off"
    BY <1>9, <1>10, <1>3 DEF LoopInv, Queue
  <2>8. \A d \in Clients : cl'[d].st # "off" => cl'[d].cmd \in Commands
    BY <1>1, <1>10 DEF LoopInv, Queue
  <2> QED BY <2>4, <2>5, <2>6, <2>7, <2>8 DEF Queue
<1>12. ConsumedIsAnswered'
  BY <1>3, <1>9, <1>10 DEF LoopInv, ConsumedIsAnswered
<1> QED BY <1>5, <1>6, <1>7, <1>11, <1>12 DEF LoopInv

\* A process that runs changes, and nothing of what the server has read.
LEMMA ProcessInv ==
    ASSUME LoopInv, NEW c \in Clients, NEW q \in Process, cl' = [cl EXCEPT ![c] = q],
           q.st # "off", q.cmd \in Commands, q.read = cl[c].read, q.lost = cl[c].lost,
           q.st = "wait" => cl[c].st = "wait",
           UNCHANGED <<fds, epoll, backlog, batch, busy, again>>
    PROVE  LoopInv'
<1>1. \A d \in Clients : cl'[d] = IF d = c THEN q ELSE cl[d]
  BY DEF LoopInv, LoopTypeOK
<1>2. LoopTypeOK'
  BY DEF LoopInv, LoopTypeOK
<1>3. Connections' /\ Events' /\ SecondClose'
  BY DEF LoopInv, Connections, Events, SecondClose
<1>4. \A i \in 1..Len(backlog) : backlog[i] \in Clients
  BY DEF LoopInv, LoopTypeOK
<1>5. Queue'
  <2>1. \A i \in 1..Len(backlog) : cl'[backlog[i]].st # "off" /\ cl'[backlog[i]].read = 0
    BY <1>1, <1>4 DEF LoopInv, Queue
  <2>2. \A f \in Fds : fds[f] \in Clients => cl'[fds[f]].st # "off"
    BY <1>1 DEF LoopInv, Queue
  <2>3. \A d \in Clients : cl'[d].st # "off" => cl'[d].cmd \in Commands
    BY <1>1 DEF LoopInv, Queue
  <2> QED BY <2>1, <2>2, <2>3 DEF LoopInv, Queue
<1>6. ConsumedIsAnswered'
  BY <1>1 DEF LoopInv, ConsumedIsAnswered
<1> QED BY <1>2, <1>3, <1>5, <1>6 DEF LoopInv

\* The lengths of what a running process sends.
LEMMA Lengths ==
    ASSUME LoopInv, NEW c \in Clients, cl[c].st # "off"
    PROVE  cl[c].cmd \in Commands /\ cl[c].cmd.len \in Nat /\ Total(c) \in Nat
BY CommandsAssumption DEF LoopInv, Queue, Total, HdrLen

\* The steps of a client.
LEMMA ClientInv == ASSUME LoopInv, NEW c \in Clients, Client(c) PROVE LoopInv'
<1>0. cl[c] \in Process /\ cl \in [Clients -> Process]
  BY DEF LoopInv, LoopTypeOK
<1>1. CASE Deliver(c)
  <2> DEFINE n == IF SplitDelivery THEN cl[c].arrived + 1 ELSE Total(c)
             q == [cl[c] EXCEPT !.arrived = n]
  <2>1. cl[c].cmd \in Commands /\ n \in Nat
    BY <1>0, <1>1, Lengths DEF Deliver, Process
  <2>2. q \in Process /\ q.st = cl[c].st /\ q.cmd = cl[c].cmd /\ q.read = cl[c].read
          /\ q.lost = cl[c].lost
    BY <1>0, <2>1 DEF Process
  <2>3. cl' = [cl EXCEPT ![c] = q]
    BY <1>0, <1>1 DEF Deliver, Process
  <2>4. UNCHANGED <<fds, epoll, backlog, batch, busy, again>> /\ cl[c].st # "off"
    BY <1>1 DEF Deliver
  <2> QED BY <2>1, <2>2, <2>3, <2>4, ProcessInv
<1>2. CASE Exit(c) \/ Kill(c)
  <2> DEFINE q == [cl[c] EXCEPT !.st = "gone"]
  <2>1. cl[c].cmd \in Commands
    BY <1>2, Lengths DEF Exit, Kill
  <2>2. q \in Process /\ q.st = "gone" /\ q.cmd = cl[c].cmd /\ q.read = cl[c].read
          /\ q.lost = cl[c].lost
    BY <1>0, <2>1 DEF Process
  <2>3. cl' = [cl EXCEPT ![c] = q]
    BY <1>0, <1>2 DEF Exit, Kill, Process
  <2>4. UNCHANGED <<fds, epoll, backlog, batch, busy, again>>
    BY <1>2 DEF Exit, Kill
  <2> QED BY <2>1, <2>2, <2>3, <2>4, ProcessInv
<1>3. CASE Stall(c)
  <2> DEFINE q == [cl[c] EXCEPT !.stalled = TRUE]
  <2>1. cl[c].cmd \in Commands /\ cl[c].st = "wait"
    BY <1>3, Lengths DEF Stall
  <2>2. q \in Process /\ q.st = cl[c].st /\ q.cmd = cl[c].cmd /\ q.read = cl[c].read
          /\ q.lost = cl[c].lost
    BY <1>0, <2>1 DEF Process
  <2>3. cl' = [cl EXCEPT ![c] = q]
    BY <1>0, <1>3 DEF Stall, Process
  <2>4. UNCHANGED <<fds, epoll, backlog, batch, busy, again>>
    BY <1>3 DEF Stall
  <2> QED BY <2>1, <2>2, <2>3, <2>4, ProcessInv
<1> QED BY <1>1, <1>2, <1>3, StartInv DEF Client
-----------------------------------------------------------------------------
(* The steps of the loop *)

\* epoll reports connections that are watched.
LEMMA EpollWaitInv == ASSUME LoopInv, EpollWait PROVE LoopInv'
<1>1. batch' \subseteq Ready /\ UNCHANGED <<cl, fds, epoll, backlog, busy, again>>
  BY DEF EpollWait
<1>2. \A e \in Ready : \/ e = <<ServerFd, Listen>> /\ backlog # <<>>
                       \/ \E f \in epoll : e = <<f, fds[f]>>
  BY DEF Ready
<1>3. \A f \in epoll : f \in Fds /\ fds[f] \in Clients
  BY DEF LoopInv, LoopTypeOK, Connections
<1>4. LoopTypeOK'
  <2>1. batch' \subseteq (Fds \X Clients) \cup {<<ServerFd, Listen>>}
    BY <1>1, <1>2, <1>3
  <2> QED BY <1>1, <2>1 DEF LoopInv, LoopTypeOK
<1>5. Events'
  <2>1. \A e \in batch' : e[1] \in Fds => e[1] \in epoll /\ fds[e[1]] = e[2]
    BY <1>1, <1>2, ServerAssumption DEF Fds, ServerFd
  <2>2. <<ServerFd, Listen>> \in batch' => backlog # <<>>
    BY <1>1, <1>2, <1>3, ServerAssumption DEF Fds, ServerFd
  <2> QED BY <1>1, <2>1, <2>2 DEF Events
<1>6. Connections' /\ SecondClose' /\ Queue' /\ ConsumedIsAnswered'
  BY <1>1 DEF LoopInv, Connections, SecondClose, Queue, ConsumedIsAnswered
<1> QED BY <1>4, <1>5, <1>6 DEF LoopInv

\* An event that is taken up leaves events for others.
LEMMA TakesInv ==
    ASSUME LoopInv, NEW f \in Fds, Takes(f)
    PROVE  /\ busy = None /\ again = None
           /\ f \in epoll /\ fds[f] \in Clients
           /\ batch' \subseteq batch /\ \A e \in batch' : e[1] # f
<1> PICK e \in batch : e[1] = f /\ batch' = batch \ {e}
  BY DEF Takes
<1>1. f \in epoll /\ fds[f] \in Clients /\ fds[f] = e[2]
  BY DEF LoopInv, LoopTypeOK, Events, Connections
<1>2. \A d \in batch : d[1] = f => d = e
  BY <1>1, ServerAssumption, SMTT(30) DEF LoopInv, LoopTypeOK, Events, Fds, ServerFd
<1> QED BY <1>1, <1>2 DEF Takes, LoopFree

\* Taking up the event of server_fd leaves none for it.
LEMMA TakesListener ==
    ASSUME LoopInv, Takes(ServerFd)
    PROVE  /\ busy = None /\ again = None
           /\ backlog # <<>>
           /\ batch' \subseteq batch /\ <<ServerFd, Listen>> \notin batch'
           /\ \A e \in batch' : e[1] \in Fds
<1> PICK e \in batch : e[1] = ServerFd /\ batch' = batch \ {e}
  BY DEF Takes
<1>1. \A d \in batch : d[1] \in Fds \/ d = <<ServerFd, Listen>>
  BY DEF LoopInv, LoopTypeOK
<1>2. ServerFd \notin Fds
  BY ServerAssumption DEF Fds, ServerFd
<1>3. e = <<ServerFd, Listen>>
  BY <1>1, <1>2
<1> QED BY <1>1, <1>2, <1>3 DEF Takes, LoopFree, LoopInv, Events

\* The head of the backlog has no descriptor.
LEMMA BacklogHead ==
    ASSUME LoopInv, backlog # <<>>
    PROVE  /\ Head(backlog) \in Clients /\ Tail(backlog) \in Seq(Clients)
           /\ cl[Head(backlog)].st # "off" /\ cl[Head(backlog)].read = 0
           /\ \A f \in Fds : fds[f] # Head(backlog)
           /\ Len(Tail(backlog)) = Len(backlog) - 1
           /\ \A i \in 1..Len(Tail(backlog)) : /\ i + 1 \in 1..Len(backlog)
                                               /\ Tail(backlog)[i] = backlog[i + 1]
                                               /\ Tail(backlog)[i] # Head(backlog)
<1>1. backlog \in Seq(Clients)
  BY DEF LoopInv, LoopTypeOK
<1>2. Len(backlog) \in Nat \ {0} /\ 1 \in 1..Len(backlog) /\ Head(backlog) = backlog[1]
  BY <1>1
<1>3. Tail(backlog) \in Seq(Clients) /\ Len(Tail(backlog)) = Len(backlog) - 1
  BY <1>1
<1>4. \A i \in 1..Len(Tail(backlog)) : i + 1 \in 1..Len(backlog) /\ Tail(backlog)[i] = backlog[i + 1]
  BY <1>1, <1>3
<1>5. \A i \in 1..Len(Tail(backlog)) : backlog[i + 1] # backlog[1]
  BY <1>2, <1>4 DEF LoopInv, Queue
<1>6. /\ backlog[1] \in Clients /\ cl[backlog[1]].st # "off" /\ cl[backlog[1]].read = 0
      /\ \A f \in Fds : fds[f] # backlog[1]
  BY <1>1, <1>2 DEF LoopInv, Queue
<1> QED BY <1>2, <1>3, <1>4, <1>5, <1>6

\* A connection moves from the backlog to a free descriptor.
LEMMA AcceptInv == ASSUME LoopInv, Accept PROVE LoopInv'
<1> DEFINE h == Head(backlog)
<1> PICK f \in FreeFds : fds' = [fds EXCEPT ![f] = h] /\ epoll' = epoll \cup {f}
  BY DEF Accept
<1>1. f \in Fds /\ fds[f] = Free
  BY DEF FreeFds
<1>2. /\ busy = None /\ again = None /\ backlog # <<>> /\ batch' \subseteq batch
      /\ <<ServerFd, Listen>> \notin batch'
  BY TakesListener DEF Accept
<1>3. backlog' = Tail(backlog) /\ UNCHANGED <<cl, busy, again>>
  BY DEF Accept
<1>4. /\ h \in Clients /\ backlog' \in Seq(Clients) /\ cl[h].st # "off" /\ cl[h].read = 0
      /\ \A g \in Fds : fds[g] # h
  BY <1>2, <1>3, BacklogHead
<1>5. \A i \in 1..Len(backlog') : /\ i + 1 \in 1..Len(backlog)
                                  /\ backlog'[i] = backlog[i + 1] /\ backlog'[i] # h
  BY <1>2, <1>3, BacklogHead
<1> HIDE DEF h
<1>6. \A g \in Fds : fds'[g] = IF g = f THEN h ELSE fds[g]
  BY DEF LoopInv, LoopTypeOK
<1>7. f \notin epoll
  BY <1>1, ServerAssumption DEF LoopInv, Connections
<1>8. LoopTypeOK'
  BY <1>1, <1>2, <1>3, <1>4 DEF LoopInv, LoopTypeOK
<1>9. Connections'
  <2>1. None \notin epoll'
    BY <1>1, ServerAssumption DEF LoopInv, LoopTypeOK, Fds
  <2>2. \A g \in Fds : fds'[g] \in Clients <=> g \in epoll' \/ g = busy
    BY <1>4, <1>6 DEF LoopInv, Connections
  <2>3. \A g1, g2 \in Fds : fds'[g1] \in Clients /\ fds'[g1] = fds'[g2] => g1 = g2
    BY <1>4, <1>6 DEF LoopInv, Connections
  <2> QED BY <1>2, <1>3, <2>1, <2>2, <2>3 DEF Connections
<1>10. Events'
  <2>1. \A e \in batch' : e[1] \in Fds => e[1] \in epoll' /\ fds'[e[1]] = e[2]
    BY <1>2, <1>6, <1>7 DEF LoopInv, Events
  <2> QED BY <1>2, <2>1 DEF Events
<1>11. SecondClose'
  BY <1>2, <1>3 DEF SecondClose
<1>12. Queue'
  <2>1. \A i \in 1..Len(backlog') : cl[backlog'[i]].st # "off" /\ cl[backlog'[i]].read = 0
    BY <1>5 DEF LoopInv, Queue
  <2>2. ASSUME NEW i \in 1..Len(backlog'), NEW j \in 1..Len(backlog'), backlog'[i] = backlog'[j]
        PROVE  i = j
    <3>1. i + 1 = j + 1
      BY <1>5, <2>2 DEF LoopInv, Queue
    <3> QED BY <3>1, <1>4
  <2>3. \A g \in Fds, i \in 1..Len(backlog') : fds'[g] # backlog'[i]
    BY <1>5, <1>6 DEF LoopInv, Queue
  <2>4. \A g \in Fds : fds'[g] \in Clients => cl[fds'[g]].st # "off"
    BY <1>4, <1>6 DEF LoopInv, Queue
  <2>5. \A c \in Clients : cl[c].st # "off" => cl[c].cmd \in Commands
    BY DEF LoopInv, Queue
  <2> QED BY <1>3, <2>1, <2>2, <2>3, <2>4, <2>5 DEF Queue
<1>13. ConsumedIsAnswered'
  BY <1>3, <1>4, <1>6 DEF LoopInv, ConsumedIsAnswered
<1> QED BY <1>8, <1>9, <1>10, <1>11, <1>12, <1>13 DEF LoopInv

\* A failing accept loses nothing.
LEMMA AcceptFailsInv == ASSUME LoopInv, AcceptFails PROVE LoopInv'
<1>1. batch' \subseteq batch /\ UNCHANGED <<cl, fds, epoll, backlog, busy, again>>
  BY TakesListener DEF AcceptFails
<1> QED BY <1>1 DEF LoopInv, LoopTypeOK, Connections, Events, SecondClose, Queue,
                    ConsumedIsAnswered

\* A connection that cannot be registered is closed.
LEMMA AcceptNotWatchedInv == ASSUME LoopInv, AcceptNotWatched PROVE LoopInv'
<1> DEFINE h == Head(backlog)
<1>2. backlog # <<>> /\ batch' \subseteq batch /\ <<ServerFd, Listen>> \notin batch'
  BY TakesListener DEF AcceptNotWatched
<1>3. /\ backlog' = Tail(backlog) /\ cl' = [cl EXCEPT ![h] = Idle]
      /\ UNCHANGED <<fds, epoll, busy, again>>
  BY DEF AcceptNotWatched
<1>4. h \in Clients /\ backlog' \in Seq(Clients) /\ \A g \in Fds : fds[g] # h
  BY <1>2, <1>3, BacklogHead
<1>5. \A i \in 1..Len(backlog') : /\ i + 1 \in 1..Len(backlog)
                                  /\ backlog'[i] = backlog[i + 1] /\ backlog'[i] # h
  BY <1>2, <1>3, BacklogHead
<1> HIDE DEF h
<1>6. \A c \in Clients : cl'[c] = IF c = h THEN Idle ELSE cl[c]
  BY <1>3 DEF LoopInv, LoopTypeOK
<1>7. LoopTypeOK'
  BY <1>2, <1>3, <1>4, IdleIsProcess DEF LoopInv, LoopTypeOK
<1>8. Connections' /\ SecondClose'
  BY <1>3 DEF LoopInv, Connections, SecondClose
<1>9. Events'
  BY <1>2, <1>3 DEF LoopInv, Events
<1>10. Queue'
  <2>0. \A i \in 1..Len(backlog') : backlog'[i] \in Clients
    BY <1>4
  <2>1. \A i \in 1..Len(backlog') : cl'[backlog'[i]].st # "off" /\ cl'[backlog'[i]].read = 0
    BY <1>5, <1>6, <2>0 DEF LoopInv, Queue
  <2>2. ASSUME NEW i \in 1..Len(backlog'), NEW j \in 1..Len(backlog'), backlog'[i] = backlog'[j]
        PROVE  i = j
    <3>1. i + 1 = j + 1
      BY <1>5, <2>2 DEF LoopInv, Queue
    <3> QED BY <3>1, <1>4
  <2>3. \A g \in Fds, i \in 1..Len(backlog') : fds'[g] # backlog'[i]
    BY <1>3, <1>5 DEF LoopInv, Queue
  <2>4. \A g \in Fds : fds'[g] \in Clients => cl'[fds'[g]].st # "off"
    BY <1>3, <1>4, <1>6 DEF LoopInv, Queue
  <2>5. \A c \in Clients : cl'[c].st # "off" => cl'[c].cmd \in Commands
    BY <1>6 DEF LoopInv, Queue, Idle
  <2> QED BY <2>1, <2>2, <2>3, <2>4, <2>5 DEF Queue
<1>11. ConsumedIsAnswered'
  BY <1>3, <1>4, <1>6 DEF LoopInv, ConsumedIsAnswered
<1> QED BY <1>7, <1>8, <1>9, <1>10, <1>11 DEF LoopInv

\* The second close changes nothing.
LEMMA CloseAgainInv == ASSUME LoopInv, CloseAgain PROVE LoopInv'
<1>1. again \in Fds /\ fds[again] = Free
  BY DEF CloseAgain, LoopInv, LoopTypeOK, SecondClose
<1>2. again \notin epoll
  BY <1>1, ServerAssumption DEF LoopInv, Connections
<1>3. fds' = fds /\ epoll' = epoll /\ cl' = cl
  BY <1>1, <1>2, ServerAssumption DEF CloseAgain, Close, LoopInv, LoopTypeOK
<1>4. again' = None /\ UNCHANGED <<backlog, batch, busy>>
  BY DEF CloseAgain
<1> QED BY <1>3, <1>4 DEF LoopInv, LoopTypeOK, Connections, Events, SecondClose, Queue,
                          ConsumedIsAnswered

\* A peer that is gone.
LEMMA HeaderEofInv == ASSUME LoopInv, NEW f \in Fds, HeaderEof(f) PROVE LoopInv'
<1>1. /\ busy = None /\ fds[f] \in Clients /\ batch' \subseteq batch
      /\ \A e \in batch' : e[1] # f
  BY TakesInv DEF HeaderEof
<1>2. Close(f) /\ again' = f /\ UNCHANGED <<backlog, busy>>
  BY DEF HeaderEof, Disconnect
<1>3. busy' = (IF busy = f THEN None ELSE busy)
  BY <1>1, <1>2
<1> QED BY <1>1, <1>2, <1>3, CloseInv

\* A header that is not all there is lost.
LEMMA HeaderShortInv == ASSUME LoopInv, NEW f \in Fds, HeaderShort(f) PROVE LoopInv'
<1> DEFINE c == fds[f]
           q == [cl[c] EXCEPT !.read = cl[c].arrived, !.lost = TRUE]
<1>1. c \in Clients /\ again = None /\ batch' \subseteq batch
  BY TakesInv DEF HeaderShort
<1>2. cl \in [Clients -> Process] /\ cl[c].st # "off" /\ cl[c].cmd \in Commands
  BY <1>1 DEF LoopInv, LoopTypeOK, Queue
<1>3. q \in Process /\ q.st = cl[c].st /\ q.cmd = cl[c].cmd /\ q.lost
  BY <1>1, <1>2 DEF Process
<1>4. cl' = [cl EXCEPT ![c] = q]
  BY <1>1, <1>2 DEF HeaderShort, Process
<1>5. UNCHANGED <<fds, epoll, backlog, busy, again>>
  BY DEF HeaderShort
<1>6. fds \in [Fds -> Clients \cup {Free, Leaked}]
  BY DEF LoopInv, LoopTypeOK
<1> HIDE DEF q
<1> QED BY <1>1, <1>2, <1>3, <1>4, <1>5, <1>6, OneShotInv

\* A stream request leaves epoll and is served.
LEMMA StreamStartsInv ==
    ASSUME LoopInv, NEW f \in Fds, fds[f] \in Clients, NEW p \in Process, busy = None,
           again = None, p.st # "off", p.cmd \in Commands, StreamStarts(f, fds[f], p),
           batch' \subseteq batch, \A e \in batch' : e[1] # f,
           backlog' = backlog, again' = again
    PROVE  LoopInv'
<1>1. epoll' = epoll \ {f} /\ busy' = f /\ cl' = [cl EXCEPT ![fds[f]] = p] /\ fds' = fds
  BY DEF StreamStarts
<1>2. \A c \in Clients : cl'[c] = IF c = fds[f] THEN p ELSE cl[c]
  BY <1>1 DEF LoopInv, LoopTypeOK
<1>3. LoopTypeOK'
  BY <1>1 DEF LoopInv, LoopTypeOK
<1>4. Connections'
  <2>1. \A g \in Fds : g # None
    BY ServerAssumption DEF Fds
  <2> QED BY <1>1, <2>1 DEF LoopInv, Connections
<1>5. Events' /\ SecondClose'
  BY <1>1 DEF LoopInv, Events, SecondClose
<1>6. Queue'
  <2>1. \A i \in 1..Len(backlog) : backlog[i] \in Clients /\ backlog[i] # fds[f]
    BY DEF LoopInv, LoopTypeOK, Queue
  <2>2. \A i \in 1..Len(backlog) : cl'[backlog[i]].st # "off" /\ cl'[backlog[i]].read = 0
    BY <1>2, <2>1 DEF LoopInv, Queue
  <2>3. \A g \in Fds : fds[g] \in Clients => cl'[fds[g]].st # "off"
    BY <1>2 DEF LoopInv, Queue
  <2>4. \A c \in Clients : cl'[c].st # "off" => cl'[c].cmd \in Commands
    BY <1>2 DEF LoopInv, Queue
  <2> QED BY <1>1, <2>2, <2>3, <2>4 DEF LoopInv, Queue
<1>7. ConsumedIsAnswered'
  <2>1. \A g \in Fds : fds[g] \in Clients /\ g # f => fds[g] # fds[f]
    BY DEF LoopInv, Connections
  <2>2. \A g \in Fds : fds[g] \in Clients => g # busy
    BY ServerAssumption DEF Fds
  <2> QED BY <1>1, <1>2, <2>1, <2>2 DEF LoopInv, ConsumedIsAnswered
<1> QED BY <1>3, <1>4, <1>5, <1>6, <1>7 DEF LoopInv

\* An answer leaves nobody waiting.
LEMMA AnsweredIsProcess ==
    ASSUME NEW p \in Process, p.st # "off"
    PROVE  /\ Answered(p) \in Process /\ Answered(p).st \notin {"off", "wait"}
           /\ Answered(p).cmd = p.cmd
BY DEF Answered, Process

\* Files that are left open take descriptors that were free.
LEMMA LeaksInv ==
    ASSUME LoopInv, NEW n, NEW L \in Leaks(n),
           fds' = [f \in Fds |-> IF f \in L THEN Leaked ELSE fds[f]]
    PROVE  /\ fds' \in [Fds -> Clients \cup {Free, Leaked}]
           /\ \A g \in Fds : fds'[g] = fds[g] \/ (fds[g] = Free /\ fds'[g] = Leaked)
<1>1. \A g \in L : fds[g] = Free
  BY DEF Leaks, FreeFds
<1> QED BY <1>1 DEF LoopInv, LoopTypeOK

\* handle_remove and handle_mkdir.
LEMMA HandlePathInv ==
    ASSUME LoopInv, NEW f \in Fds, fds[f] \in Clients, NEW p \in Process, NEW tok, NEW n,
           p.st # "off", p.cmd \in Commands, again = None,
           HandlePath(fds[f], p, tok, n), batch' \subseteq batch,
           UNCHANGED <<epoll, backlog, busy, again>>
    PROVE  LoopInv'
<1>0. fds \in [Fds -> Clients \cup {Free, Leaked}]
  BY DEF LoopInv, LoopTypeOK
<1>1. CASE NoUser(fds[f], p)
  BY <1>0, <1>1, AnsweredIsProcess, OneShotInv DEF NoUser
<1>2. CASE cl' = [cl EXCEPT ![fds[f]] = [p EXCEPT !.lost = TRUE]] /\ fds' = fds
  <2> DEFINE q == [p EXCEPT !.lost = TRUE]
  <2>1. q \in Process /\ q.st = p.st /\ q.cmd = p.cmd /\ q.lost
    BY DEF Process
  <2> HIDE DEF q
  <2>2. cl' = [cl EXCEPT ![fds[f]] = q]
    BY <1>2 DEF q
  <2> QED BY <1>0, <1>2, <2>1, <2>2, OneShotInv
<1>3. CASE /\ cl' = [cl EXCEPT ![fds[f]] = [p EXCEPT !.read = p.arrived, !.lost = TRUE]]
           /\ fds' = fds
  <2> DEFINE q == [p EXCEPT !.read = p.arrived, !.lost = TRUE]
  <2>1. q \in Process /\ q.st = p.st /\ q.cmd = p.cmd /\ q.lost
    BY DEF Process
  <2> HIDE DEF q
  <2>2. cl' = [cl EXCEPT ![fds[f]] = q]
    BY <1>3 DEF q
  <2> QED BY <1>0, <1>3, <2>1, <2>2, OneShotInv
<1>4. CASE /\ cl' = [cl EXCEPT ![fds[f]] = Answered([p EXCEPT !.read = @ + p.cmd.len])]
           /\ \E L \in Leaks(n) : fds' = [g \in Fds |-> IF g \in L THEN Leaked ELSE fds[g]]
  <2> DEFINE r == [p EXCEPT !.read = @ + p.cmd.len]
  <2>1. r \in Process /\ r.st = p.st /\ r.cmd = p.cmd
    <3>1. p.cmd.len \in Nat
      BY CommandsAssumption
    <3> QED BY <3>1 DEF Process
  <2>2. cl' = [cl EXCEPT ![fds[f]] = Answered(r)]
    BY <1>4
  <2> HIDE DEF r
  <2>3. Answered(r) \in Process /\ Answered(r).st \notin {"off", "wait"} /\ Answered(r).cmd = p.cmd
    BY <2>1, AnsweredIsProcess
  <2>4. /\ fds' \in [Fds -> Clients \cup {Free, Leaked}]
        /\ \A g \in Fds : fds'[g] = fds[g] \/ (fds[g] = Free /\ fds'[g] = Leaked)
    BY <1>4, LeaksInv
  <2> QED BY <2>2, <2>3, <2>4, OneShotInv
<1> QED BY <1>1, <1>2, <1>3, <1>4 DEF HandlePath

\* A header that is all there, and what its handler does.
LEMMA HeaderInv == ASSUME LoopInv, NEW f \in Fds, Header(f) PROVE LoopInv'
<1> DEFINE c == fds[f]
           p == [cl[c] EXCEPT !.read = @ + HdrLen]
<1>1. /\ c \in Clients /\ busy = None /\ again = None /\ f \in epoll
      /\ batch' \subseteq batch /\ \A e \in batch' : e[1] # f
  BY TakesInv DEF Header
<1>2. PICK m \in Seen(c) : OnMessage(f, c, p, m)
  BY DEF Header
<1>3. cl \in [Clients -> Process] /\ cl[c].st # "off" /\ cl[c].cmd \in Commands
  BY <1>1 DEF LoopInv, LoopTypeOK, Queue
<1>4. /\ p \in Process /\ p.st = cl[c].st /\ p.cmd = cl[c].cmd /\ p.lost = cl[c].lost
  BY <1>1, <1>3 DEF Process, HdrLen
<1>5. backlog' = backlog
  BY <1>2 DEF OnMessage
<1>6. fds \in [Fds -> Clients \cup {Free, Leaked}]
  BY DEF LoopInv, LoopTypeOK
<1>7. f # busy
  BY <1>1, ServerAssumption DEF Fds
<1>8. m.type = "response" => cl[c].read # 0
  BY <1>3, CommandsAssumption DEF Seen, Requests, Streams
<1>9. m.type = "response" /\ p.st = "wait" => p.lost
  <2> SUFFICES ASSUME m.type = "response", cl[c].st = "wait" PROVE cl[c].lost
    BY <1>4
  <2>1. cl[c].read > 0
    BY <1>1, <1>3, <1>8 DEF Process
  <2> QED BY <1>1, <1>7, <2>1 DEF LoopInv, ConsumedIsAnswered
<1> HIDE DEF p
<1>10. CASE Disconnect(f) /\ UNCHANGED busy
  <2>1. Close(f) /\ again' = f /\ busy' = (IF busy = f THEN None ELSE busy)
    BY <1>7, <1>10 DEF Disconnect
  <2> QED BY <1>1, <1>5, <2>1, CloseInv
<1>11. CASE HandleAuth(c, p) /\ UNCHANGED <<epoll, busy, again>>
  BY <1>1, <1>3, <1>4, <1>5, <1>6, <1>11, AnsweredIsProcess, OneShotInv DEF HandleAuth
<1>12. CASE HandlePath(c, p, m.tok, MaxFds) /\ UNCHANGED <<epoll, busy, again>>
  BY <1>1, <1>3, <1>4, <1>5, <1>12, HandlePathInv
<1>13. CASE HandlePath(c, p, m.tok, 0) /\ UNCHANGED <<epoll, busy, again>>
  BY <1>1, <1>3, <1>4, <1>5, <1>13, HandlePathInv
<1>14. CASE StreamReq(f, c, p, m.tok) /\ UNCHANGED again
  <2>1. CASE StreamStarts(f, c, p)
    BY <1>1, <1>3, <1>4, <1>5, <1>14, <2>1, StreamStartsInv
  <2>2. CASE Close(f) /\ UNCHANGED busy
    <3>1. busy' = (IF busy = f THEN None ELSE busy) /\ again' \in {None, f}
      BY <1>1, <1>7, <1>14, <2>2
    <3> QED BY <1>1, <1>5, <2>2, <3>1, CloseInv
  <2> QED BY <1>14, <2>1, <2>2 DEF StreamReq
<1>15. CASE m.type = "response" /\ cl' = [cl EXCEPT ![c] = p]
            /\ UNCHANGED <<fds, epoll, busy, again>>
  BY <1>1, <1>3, <1>4, <1>5, <1>6, <1>9, <1>15, OneShotInv
<1> QED BY <1>2, <1>10, <1>11, <1>12, <1>13, <1>14, <1>15 DEF OnMessage

\* The end of a stream request.
LEMMA ServeEndsInv == ASSUME LoopInv, ServeEnds PROVE LoopInv'
<1> DEFINE c == fds[busy]
<1> PICK L \in Leaks(1) :
        fds' = [f \in Fds |-> IF f \in L THEN Leaked ELSE IF f = busy THEN Free ELSE fds[f]]
  BY DEF ServeEnds
<1>1. busy \in Fds /\ c \in Clients
  BY DEF ServeEnds, LoopInv, LoopTypeOK, Connections
<1>2. cl' = [cl EXCEPT ![c] = Idle] /\ busy' = None /\ UNCHANGED <<epoll, backlog, batch, again>>
  BY DEF ServeEnds
<1>3. \A g \in L : g \in Fds /\ fds[g] = Free
  BY DEF Leaks, FreeFds
<1>4. \A g \in Fds : \/ g # busy /\ fds'[g] = fds[g]
                     \/ g # busy /\ fds[g] = Free /\ fds'[g] = Leaked
                     \/ g = busy /\ fds'[g] = Free
  BY <1>1, <1>3, ServerAssumption
<1>5. fds' \in [Fds -> Clients \cup {Free, Leaked}]
  BY DEF LoopInv, LoopTypeOK
<1>6. \A g \in Fds : fds'[g] \in Clients <=> fds[g] \in Clients /\ g # busy
  BY <1>4, ServerAssumption
<1>7. \A g \in Fds : fds'[g] \in Clients => fds'[g] = fds[g] /\ fds[g] # c
  BY <1>1, <1>4, <1>6, ServerAssumption DEF LoopInv, Connections
<1>8. \A d \in Clients : cl'[d] = IF d = c THEN Idle ELSE cl[d]
  BY <1>2 DEF LoopInv, LoopTypeOK
<1>9. LoopTypeOK'
  BY <1>1, <1>2, <1>5, IdleIsProcess DEF LoopInv, LoopTypeOK
<1>10. Connections'
  <2>1. None \notin Fds /\ None \notin epoll /\ busy \notin epoll
    BY ServerAssumption DEF LoopInv, LoopTypeOK, Connections, Fds
  <2>2. \A g \in Fds : fds'[g] \in Clients <=> g \in epoll
    BY <1>6, <2>1 DEF LoopInv, Connections
  <2>3. \A g1, g2 \in Fds : fds'[g1] \in Clients /\ fds'[g1] = fds'[g2] => g1 = g2
    BY <1>7 DEF LoopInv, Connections
  <2> QED BY <1>2, <2>1, <2>2, <2>3 DEF Connections
<1>11. Events'
  <2>1. \A e \in batch : e[1] \in Fds => e[1] \in epoll /\ fds'[e[1]] = e[2]
    <3> SUFFICES ASSUME NEW e \in batch, e[1] \in Fds PROVE e[1] \in epoll /\ fds'[e[1]] = e[2]
      OBVIOUS
    <3>1. e[1] \in epoll /\ fds[e[1]] = e[2]
      BY DEF LoopInv, Events
    <3>2. fds[e[1]] \in Clients /\ e[1] # busy
      BY <3>1 DEF LoopInv, Connections
    <3> QED BY <3>1, <3>2, <1>6, <1>7
  <2> QED BY <1>2, <2>1 DEF LoopInv, Events
<1>12. SecondClose'
  BY <1>2 DEF LoopInv, SecondClose, ServeEnds
<1>13. Queue'
  <2>1. \A i \in 1..Len(backlog) : backlog[i] \in Clients /\ backlog[i] # c
    BY <1>1 DEF LoopInv, LoopTypeOK, Queue
  <2>2. \A i \in 1..Len(backlog) : cl'[backlog[i]].st # "off" /\ cl'[backlog[i]].read = 0
    BY <1>8, <2>1 DEF LoopInv, Queue
  <2>3. \A g \in Fds, i \in 1..Len(backlog) : fds'[g] # backlog[i]
    BY <1>7, <2>1 DEF LoopInv, Queue
  <2>4. \A g \in Fds : fds'[g] \in Clients => cl'[fds'[g]].st # "off"
    BY <1>7, <1>8 DEF LoopInv, Queue
  <2>5. \A d \in Clients : cl'[d].st # "off" => cl'[d].cmd \in Commands
    BY <1>8 DEF LoopInv, Queue, Idle
  <2> QED BY <1>2, <2>2, <2>3, <2>4, <2>5 DEF LoopInv, Queue
<1>14. ConsumedIsAnswered'
  BY <1>6, <1>7, <1>8 DEF LoopInv, ConsumedIsAnswered
<1> QED BY <1>9, <1>10, <1>11, <1>12, <1>13, <1>14 DEF LoopInv

\* The steps of the loop.
LEMMA LoopStepInv == ASSUME LoopInv, Loop PROVE LoopInv'
<1>1. ASSUME NEW f \in Fds, Event(f) PROVE LoopInv'
  <2>1. CASE HeaderUnknown(f)
    BY <2>1, VanishInv DEF HeaderUnknown, Aborts, Vanish
  <2> QED BY <1>1, <2>1, HeaderInv, HeaderShortInv, HeaderEofInv DEF Event
<1> QED BY <1>1, EpollWaitInv, AcceptInv, AcceptFailsInv, AcceptNotWatchedInv, CloseAgainInv,
           ServeEndsInv DEF Loop
-----------------------------------------------------------------------------
(* The theorems *)

\* Steps that leave the loop alone.
LEMMA LoopVarsInv == ASSUME LoopInv, UNCHANGED loopVars PROVE LoopInv'
BY DEF LoopInv, LoopTypeOK, Connections, Events, SecondClose, Queue, ConsumedIsAnswered, loopVars

\* The loop and the clients leave the workers alone; an abort ends the process.
LEMMA MainInv ==
    ASSUME WorkersInv, UNCHANGED <<workers, clean>>, lockHeld' \in BOOLEAN,
           main' = main \/ main' \in {"cleanup", "aborted"}
    PROVE  WorkersInv'
BY DEF WorkersInv, WorkersTypeOK, FlagFirst, NoWorkerRunsATask

\* The loop and the clients change no worker and no step of cleanup.
LEMMA LoopKeepsWorkers ==
    ASSUME Loop \/ \E c \in Clients : Client(c)
    PROVE  UNCHANGED <<workers, clean, lockHeld>> /\ (main' = main \/ main' \in {"cleanup", "aborted"})
<1>1. CASE \E c \in Clients : Client(c)
  BY <1>1 DEF Client, Start, Deliver, Exit, Stall, Kill, workerVars
<1>2. ASSUME NEW f \in Fds, Event(f)
      PROVE  UNCHANGED <<workers, clean, lockHeld>> /\ (main' = main \/ main' \in {"cleanup", "aborted"})
  <2>1. CASE Header(f)
    BY <2>1 DEF Header, OnMessage, workerVars
  <2>2. CASE HeaderUnknown(f)
    BY <2>2 DEF HeaderUnknown, Aborts
  <2>3. CASE HeaderShort(f) \/ HeaderEof(f)
    BY <2>3 DEF HeaderShort, HeaderEof, workerVars
  <2> QED BY <1>2, <2>1, <2>2, <2>3 DEF Event
<1>3. CASE EpollWait \/ Accept \/ AcceptFails \/ AcceptNotWatched \/ CloseAgain \/ ServeEnds
  BY <1>3 DEF EpollWait, Accept, AcceptFails, AcceptNotWatched, CloseAgain, ServeEnds, workerVars
<1> QED BY <1>1, <1>2, <1>3 DEF Loop

\* Inv is inductive.
LEMMA NextInv == ASSUME Inv, Next PROVE Inv'
<1>1. CASE Loop
  BY <1>1, LoopStepInv, LoopKeepsWorkers, MainInv DEF Inv, WorkersInv, WorkersTypeOK
<1>2. CASE Stop
  <2>1. WorkersInv'
    BY <1>2, MainInv DEF Inv, Stop, Interrupt
  <2>2. LoopInv'
    BY <1>2, VanishInv DEF Inv, Stop, Vanish
  <2> QED BY <2>1, <2>2 DEF Inv
<1>3. CASE Shutdown
  BY <1>3, LoopVarsInv, CleanupInv, WorkerStepInv DEF Inv, Shutdown
<1>4. CASE \E c \in Clients : Client(c)
  BY <1>4, ClientInv, LoopKeepsWorkers, MainInv DEF Inv, WorkersInv, WorkersTypeOK
<1> QED BY <1>1, <1>2, <1>3, <1>4 DEF Next

\* Inv is an invariant of the server: its workers and its loop, with any clients,
\* deliveries and failures.
THEOREM ServerInvariant == Spec => []Inv
<1>1. Init => Inv
  BY WorkersInitInv, LoopInitInv DEF Init, Inv
<1>2. Inv /\ [Next]_vars => Inv'
  <2>1. ASSUME Inv, UNCHANGED vars PROVE Inv'
    BY <2>1, LoopVarsInv, MainInv DEF Inv, WorkersInv, WorkersTypeOK, vars, workerVars, loopVars
  <2> QED BY <2>1, NextInv
<1> QED BY <1>1, <1>2, PTL DEF Spec

\* The variables of the server keep their types.
THEOREM TypeCorrect == Spec => []TypeOK
<1>1. Inv => TypeOK
  BY DEF Inv, WorkersInv, LoopInv, LoopTypeOK, TypeOK
<1> QED BY <1>1, ServerInvariant, PTL

\* No event of the batch is about a descriptor that was closed, once or twice, or given
\* to another connection since epoll_wait reported it.
THEOREM NoStaleEvent == Spec => []EventsAreCurrent
<1>1. Inv => EventsAreCurrent
  BY DEF Inv, LoopInv, Events, EventsAreCurrent
<1> QED BY <1>1, ServerInvariant, PTL

\* Every open connection is watched or being served, and a client has one.
THEOREM NoConnectionForgotten == Spec => []EveryConnectionWatched
<1>1. Inv => EveryConnectionWatched
  BY DEF Inv, LoopInv, Connections, EveryConnectionWatched
<1> QED BY <1>1, ServerInvariant, PTL

\* A request the server began to read and is through with was answered or lost in pieces.
THEOREM NoSilentEnd == Spec => []ConsumedIsAnswered
<1>1. Inv => ConsumedIsAnswered
  BY DEF Inv, LoopInv
<1> QED BY <1>1, ServerInvariant, PTL

\* No worker looks at its uninitialised func, however cleanup and the threads interleave.
THEOREM NoTaskIsRun == Spec => []NoWorkerRunsATask
<1>1. Inv => NoWorkerRunsATask
  BY DEF Inv, WorkersInv, FlagFirst
<1> QED BY <1>1, ServerInvariant, PTL
=============================================================================
