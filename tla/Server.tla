------------------------------- MODULE Server -------------------------------
(***************************************************************************)
(* The event loop of server.c with the connections of several client       *)
(* processes: epoll, accept, the dispatch of requests, the descriptors     *)
(* they use, and the workers and the shutdown of module Workers.           *)
(*                                                                         *)
(* A client connects, sends one request and waits.  The request travels as *)
(* a stream of units: HdrLen for its header, then its payload.  The loop   *)
(* reads from non-blocking sockets with recv_all, which gives up as soon   *)
(* as nothing more is there, whatever it has consumed; only a stream       *)
(* request (list, upload, download) turns its socket blocking and is       *)
(* served to its end before the loop goes on.                              *)
(***************************************************************************)
EXTENDS Workers, Sequences, FiniteSets

CONSTANTS
    Clients,        \* client processes
    Commands,       \* the commands they run: request type, token and payload length
    MaxFds,         \* descriptors the process may have beside server_fd and epfd
    MaxEvents,      \* MAX_EVENTS
    MaxPayload,     \* what a handler accepts as payload, in units
    SplitDelivery,  \* TRUE: a request may arrive in pieces
    EpollFaults,    \* TRUE: EPOLL_CTL_ADD may fail
    Free, Leaked,   \* a descriptor that is not open, one of a file nobody closes
    Listen,         \* what server_fd is open for
    None

ASSUME ServerAssumption ==
    /\ MaxFds \in Nat \ {0}
    /\ MaxEvents \in Nat \ {0}
    /\ MaxPayload \in Nat
    /\ SplitDelivery \in BOOLEAN
    /\ EpollFaults \in BOOLEAN
    /\ Free \notin Clients \cup {Leaked} /\ Leaked \notin Clients
    /\ Listen \notin Clients
    /\ None \notin 1..MaxFds /\ None \notin Commands

VARIABLES
    cl,        \* the client processes, with what the socket holds of their request
    fds,       \* what each descriptor is open for
    epoll,     \* the connections registered with epfd
    backlog,   \* connected and not yet accepted
    batch,     \* events[i..nevents): descriptor, and whom it was reported for
    busy,      \* the descriptor of the stream request that is being served
    again      \* the descriptor that is to be closed a second time

loopVars == <<cl, fds, epoll, backlog, batch, busy, again>>
vars == <<workerVars, loopVars>>

HdrLen == 2
ServerFd == 0
Fds == 1..MaxFds

Streams == {"list", "transfer"}
Requests == Streams \cup {"auth", "rm", "mkdir"}

\* The token of a request: all zero, of nobody the server knows, of a registered user.
Tokens == {"null", "unknown", "known"}

ASSUME CommandsAssumption == Commands \subseteq [type : Requests, tok : Tokens, len : Nat]

Process == [st : {"off", "wait", "answered", "gone"}, cmd : Commands \cup {None},
            arrived : Nat, read : Nat, lost : BOOLEAN, stalled : BOOLEAN]

Idle == [st |-> "off", cmd |-> None, arrived |-> 0, read |-> 0,
         lost |-> FALSE, stalled |-> FALSE]

Total(c) == HdrLen + cl[c].cmd.len
Avail(c) == cl[c].arrived - cl[c].read
Eof(c) == cl[c].st = "gone" /\ cl[c].arrived = Total(c)

FreeFds == {f \in Fds : fds[f] = Free}

TypeOK ==
    /\ WorkersTypeOK
    /\ cl \in [Clients -> Process]
    /\ fds \in [Fds -> Clients \cup {Free, Leaked}]
    /\ epoll \subseteq Fds
    /\ backlog \in Seq(Clients)
    /\ batch \subseteq (Fds \X Clients) \cup {<<ServerFd, Listen>>}
    /\ busy \in Fds \cup {None}
    /\ again \in Fds \cup {None}

Init ==
    /\ WorkersInit
    /\ cl = [c \in Clients |-> Idle]
    /\ fds = [f \in Fds |-> Free]
    /\ epoll = {}
    /\ backlog = <<>>
    /\ batch = {}
    /\ busy = None
    /\ again = None
-----------------------------------------------------------------------------
(* The client commands and the network *)

\* A command connects and sends its request.
Start(c) ==
    /\ main = "loop"
    /\ cl[c].st = "off"
    /\ \E cmd \in Commands : cl' = [cl EXCEPT ![c] = [Idle EXCEPT !.st = "wait", !.cmd = cmd]]
    /\ backlog' = Append(backlog, c)
    /\ UNCHANGED <<workerVars, fds, epoll, batch, busy, again>>

\* TCP delivers what was sent in order, in pieces of its own choice.
Deliver(c) ==
    /\ cl[c].st # "off"
    /\ cl[c].arrived < Total(c)
    /\ cl' = [cl EXCEPT ![c].arrived = IF SplitDelivery THEN @ + 1 ELSE Total(c)]
    /\ UNCHANGED <<workerVars, fds, epoll, backlog, batch, busy, again>>

\* A process that has its answer closes the connection.
Exit(c) ==
    /\ cl[c].st = "answered"
    /\ cl' = [cl EXCEPT ![c].st = "gone"]
    /\ UNCHANGED <<workerVars, fds, epoll, backlog, batch, busy, again>>

\* A process that is being served is suspended, or its machine cut off: connected and silent.
Stall(c) ==
    /\ busy # None /\ fds[busy] = c
    /\ cl[c].st = "wait"
    /\ ~cl[c].stalled
    /\ cl' = [cl EXCEPT ![c].stalled = TRUE]
    /\ UNCHANGED <<workerVars, fds, epoll, backlog, batch, busy, again>>

\* A waiting process is killed; what it sent is still delivered.
Kill(c) ==
    /\ cl[c].st = "wait"
    /\ cl' = [cl EXCEPT ![c].st = "gone"]
    /\ UNCHANGED <<workerVars, fds, epoll, backlog, batch, busy, again>>
-----------------------------------------------------------------------------
(* The loop *)

\* Mutant: the second close is left for later.
LoopFreeBeforeClose == main = "loop" /\ busy = None

\* The main thread is between two statements of the loop's own.
LoopFree == main = "loop" /\ busy = None /\ again = None

Ready == {<<f, fds[f]>> : f \in {g \in epoll : Avail(fds[g]) > 0 \/ Eof(fds[g])}}
    \cup (IF backlog = <<>> THEN {} ELSE {<<ServerFd, Listen>>})

\* epoll_wait, level triggered: everything that is ready, up to MAX_EVENTS.
EpollWait ==
    /\ LoopFree
    /\ batch = {}
    /\ Ready # {}
    /\ \E b \in SUBSET Ready :
          /\ b = Ready \/ Cardinality(b) = MaxEvents
          /\ batch' = b
    /\ UNCHANGED <<workerVars, cl, fds, epoll, backlog, busy, again>>

\* The loop takes up an event; events[] is in no particular order.
Takes(f) == LoopFree /\ \E e \in batch : e[1] = f /\ batch' = batch \ {e}

\* A connection gets the lowest descriptor that is free.
Accept ==
    /\ Takes(ServerFd)
    /\ \E f \in FreeFds :
          /\ \A g \in FreeFds : f <= g
          /\ fds' = [fds EXCEPT ![f] = Head(backlog)]
          /\ epoll' = epoll \cup {f}
    /\ backlog' = Tail(backlog)
    /\ UNCHANGED <<workerVars, cl, busy, again>>

\* accept fails (EMFILE): the connection stays where it is.
AcceptFails ==
    /\ Takes(ServerFd)
    /\ FreeFds = {}
    /\ UNCHANGED <<workerVars, cl, fds, epoll, backlog, busy, again>>

\* The connection is accepted, cannot be registered, and is closed.
AcceptNotWatched ==
    /\ EpollFaults
    /\ Takes(ServerFd)
    /\ FreeFds # {}
    /\ cl' = [cl EXCEPT ![Head(backlog)] = Idle]
    /\ backlog' = Tail(backlog)
    /\ UNCHANGED <<workerVars, fds, epoll, busy, again>>

\* close: the kernel forgets the registration, and the peer's command ends.
Close(f) ==
    /\ fds' = [fds EXCEPT ![f] = Free]
    /\ epoll' = epoll \ {f}
    /\ cl' = [c \in Clients |-> IF c = fds[f] THEN Idle ELSE cl[c]]

\* on_client_disconnected closes; the loop does it again.
Disconnect(f) == Close(f) /\ again' = f

\* EPOLL_CTL_DEL finds nothing; close takes whatever the descriptor is now.
CloseAgain ==
    /\ main = "loop"
    /\ again # None
    /\ Close(again)
    /\ again' = None
    /\ UNCHANGED <<workerVars, backlog, batch, busy>>

\* Nobody looks at a descriptor any more.
DropDescriptors ==
    /\ fds' = [f \in Fds |-> Free]
    /\ epoll' = {}
    /\ backlog' = <<>>
    /\ batch' = {}
    /\ busy' = None
    /\ again' = None

\* The process is gone, and every connection with it.
Vanish == DropDescriptors /\ cl' = [c \in Clients |-> Idle]
-----------------------------------------------------------------------------
(* on_client_message_received and the handlers.  c has sent what is read from f. *)

Answered(p) == [p EXCEPT !.st = IF @ = "wait" THEN "answered" ELSE @]

\* Up to n of the free descriptors, lowest first, go to files that stay open.
Leaks(n) == {L \in SUBSET FreeFds : /\ Cardinality(L) <= n
                                    /\ \A f \in L, g \in FreeFds \ L : f < g}

HandleAuth(c, p) ==
    /\ cl' = [cl EXCEPT ![c] = Answered(p)]
    /\ UNCHANGED fds

\* Mutant: the error is not sent.
NoUserSilent(c, p) ==
    /\ cl' = [cl EXCEPT ![c] = p]
    /\ UNCHANGED fds

\* send_error "user not found", with the payload unread.
NoUser(c, p) ==
    /\ cl' = [cl EXCEPT ![c] = Answered(p)]
    /\ UNCHANGED fds

\* handle_remove and handle_mkdir: a payload that is too long is not read, one that is
\* not all there is read in part, both without an answer.
HandlePath(c, p, tok, n) ==
    \/ tok = "unknown" /\ NoUser(c, p)
    \/ /\ tok = "known"
       /\ p.cmd.len > MaxPayload
       /\ cl' = [cl EXCEPT ![c] = [p EXCEPT !.lost = TRUE]]
       /\ UNCHANGED fds
    \/ /\ tok = "known"
       /\ p.cmd.len <= MaxPayload
       /\ p.arrived < p.read + p.cmd.len
       /\ cl' = [cl EXCEPT ![c] = [p EXCEPT !.read = p.arrived, !.lost = TRUE]]
       /\ UNCHANGED fds
    \/ /\ tok = "known"
       /\ p.cmd.len <= MaxPayload
       /\ p.arrived >= p.read + p.cmd.len
       /\ cl' = [cl EXCEPT ![c] = Answered([p EXCEPT !.read = @ + p.cmd.len])]
       /\ \E L \in Leaks(n) : fds' = [f \in Fds |-> IF f \in L THEN Leaked ELSE fds[f]]

\* A registered user's handler starts, on a socket that left epoll and blocks.
StreamStarts(f, c, p) ==
    /\ epoll' = epoll \ {f}
    /\ busy' = f
    /\ cl' = [cl EXCEPT ![c] = p]
    /\ UNCHANGED fds

\* Mutant: without a user the handler returns and the connection is not closed.
StreamReqKeepsOpen(f, c, p, tok) ==
    \/ tok = "known" /\ StreamStarts(f, c, p)
    \/ tok = "unknown" /\ NoUser(c, p) /\ epoll' = epoll \ {f} /\ UNCHANGED busy

\* on_stream_req: without a user the handler returns at once; it closes the connection.
StreamReq(f, c, p, tok) ==
    \/ tok = "known" /\ StreamStarts(f, c, p)
    \/ tok = "unknown" /\ Close(f) /\ UNCHANGED busy

\* What the header looks like: its own, or any other value when bytes before it were lost.
Seen(c) == IF cl[c].read = 0 THEN {[type |-> cl[c].cmd.type, tok |-> cl[c].cmd.tok]}
           ELSE [type : Requests \cup {"response", "invalid"}, tok : {"null", "unknown"}]

\* msg_type_to_str has no name for the type: assert.
Aborts ==
    /\ main' = "aborted"
    /\ Vanish
    /\ UNCHANGED <<workers, clean, lockHeld>>

OnMessage(f, c, p, m) ==
    /\ m.type # "invalid"
    /\ \/ /\ m.type # "auth" /\ m.tok = "null"                  \* AUTH_FAIL
          /\ Disconnect(f)
          /\ UNCHANGED busy
       \/ /\ m.type = "auth"
          /\ HandleAuth(c, p)
          /\ UNCHANGED <<epoll, busy, again>>
       \/ /\ m.type = "rm" /\ m.tok # "null"
          /\ HandlePath(c, p, m.tok, MaxFds)                    \* rm_r opens directories
          /\ UNCHANGED <<epoll, busy, again>>
       \/ /\ m.type = "mkdir" /\ m.tok # "null"
          /\ HandlePath(c, p, m.tok, 0)
          /\ UNCHANGED <<epoll, busy, again>>
       \/ /\ m.type \in Streams /\ m.tok # "null"
          /\ StreamReq(f, c, p, m.tok)
          /\ UNCHANGED again
       \/ /\ m.type = "response" /\ m.tok # "null"              \* invalid message received
          /\ cl' = [cl EXCEPT ![c] = p]
          /\ UNCHANGED <<fds, epoll, busy, again>>
    /\ UNCHANGED <<workerVars, backlog>>

Header(f) ==
    /\ Takes(f)
    /\ LET c == fds[f] IN
          /\ Avail(c) >= HdrLen
          /\ \E m \in Seen(c) : OnMessage(f, c, [cl[c] EXCEPT !.read = @ + HdrLen], m)

HeaderUnknown(f) ==
    /\ LoopFree
    /\ \E e \in batch : e[1] = f
    /\ Avail(fds[f]) >= HdrLen
    /\ \E m \in Seen(fds[f]) : m.type = "invalid"
    /\ Aborts

\* recv_all gives up (EAGAIN): the part it has read is forgotten.
HeaderShort(f) ==
    /\ Takes(f)
    /\ Avail(fds[f]) < HdrLen
    /\ ~Eof(fds[f])
    /\ cl' = [cl EXCEPT ![fds[f]].read = cl[fds[f]].arrived, ![fds[f]].lost = TRUE]
    /\ UNCHANGED <<workerVars, fds, epoll, backlog, busy, again>>

\* The peer is gone, before or inside a header, or the connection is broken.
HeaderEof(f) ==
    /\ Takes(f)
    /\ Avail(fds[f]) < HdrLen
    /\ Eof(fds[f])
    /\ Disconnect(f)
    /\ UNCHANGED <<workerVars, backlog, busy>>

\* Mutant: the handler does not notice that its peer is gone.
MayEndOnlyAlive(c) == cl[c].arrived = Total(c) /\ cl[c].st = "wait" /\ ~cl[c].stalled

\* A stream handler blocks until its request is there, and then for its peer.
MayEnd(c) == cl[c].arrived = Total(c) /\ (cl[c].st = "gone" \/ ~cl[c].stalled)

\* The end of a stream request: the descriptor of the file or directory stays open.
ServeEnds ==
    /\ main = "loop"
    /\ busy # None
    /\ MayEnd(fds[busy])
    /\ cl' = [cl EXCEPT ![fds[busy]] = Idle]
    /\ \E L \in Leaks(1) :
          fds' = [f \in Fds |-> IF f \in L THEN Leaked ELSE IF f = busy THEN Free ELSE fds[f]]
    /\ busy' = None
    /\ UNCHANGED <<workerVars, epoll, backlog, batch, again>>
-----------------------------------------------------------------------------
Event(f) == Header(f) \/ HeaderUnknown(f) \/ HeaderShort(f) \/ HeaderEof(f)

Loop == \/ EpollWait \/ Accept \/ AcceptFails \/ AcceptNotWatched
        \/ CloseAgain \/ ServeEnds
        \/ \E f \in Fds : Event(f)

Client(c) == Start(c) \/ Deliver(c) \/ Exit(c) \/ Stall(c) \/ Kill(c)

\* SIGINT stops the loop wherever it is, also inside a handler, which may block or hold
\* a lock.  The connections last until the process ends (ShutdownEnds), but nobody serves
\* them any more, so they are dropped here.  When the process is to hang, the commands
\* go on waiting.
Stop ==
    /\ Interrupt
    /\ lockHeld' => batch # {} \/ busy # None \/ again # None
    /\ IF lockHeld' THEN DropDescriptors /\ UNCHANGED cl ELSE Vanish

Shutdown ==
    /\ CleanupStep \/ \E i \in Worker : WorkerStep(i)
    /\ UNCHANGED loopVars

Next == Loop \/ Stop \/ Shutdown \/ \E c \in Clients : Client(c)

Spec == Init /\ [][Next]_vars

\* The threads run, the network delivers, commands read their answers; nothing makes
\* a process go on that was suspended.
FairSpec ==
    /\ Spec
    /\ WF_vars(Loop)
    /\ WF_vars(CleanupStep /\ Shutdown)
    /\ \A i \in Worker : WF_vars(WorkerStep(i) /\ Shutdown)
    /\ \A c \in Clients : WF_vars(Deliver(c)) /\ WF_vars(Exit(c))
-----------------------------------------------------------------------------
(* Properties *)

\* An event the loop still has to look at refers to the connection it was reported for:
\* no close, first or second, has freed its descriptor and no accept has reused it.
EventsAreCurrent == \A e \in batch : e[1] \in Fds => fds[e[1]] = e[2]

\* A descriptor that is open for a client is watched by epoll or is the one being
\* served: no connection is forgotten, and no client has two.
EveryConnectionWatched ==
    \A f \in Fds : fds[f] \in Clients =>
        /\ (f \in epoll) # (f = busy)
        /\ \A g \in Fds : fds[g] = fds[f] => g = f

\* A client whose request the server began to read and does not serve any more has its
\* answer, unless the request came in pieces or was longer than the handler accepts.
ConsumedIsAnswered ==
    \A f \in Fds : fds[f] \in Clients =>
        LET p == cl[fds[f]] IN p.st = "wait" /\ p.read > 0 => f = busy \/ p.lost

SilentClient == busy # None /\ cl[fds[busy]].stalled

\* Every descriptor belongs to a file nobody closes or to a client whose request was lost.
NoDescriptorReturns ==
    \A f \in Fds : fds[f] = Leaked \/ (fds[f] \in Clients /\ cl[fds[f]].lost)

\* Every command gets an answer or sees its connection closed, except when its own
\* request was lost in pieces, when the server waits for a silent client, when no
\* descriptor will ever be free again, or when the server hangs in cleanup.
EveryCommandEnds ==
    \A c \in Clients :
        (cl[c].st = "wait") ~> \/ cl[c].st # "wait" \/ cl[c].lost
                              \/ SilentClient \/ NoDescriptorReturns \/ lockHeld

\* assert(0 && "Unreachable") in msg_type_to_str is never reached.
UnknownTypeUnreachable == main # "aborted"
=============================================================================
