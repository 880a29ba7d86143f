------------------------------ MODULE Workers -------------------------------
(***************************************************************************)
(* The worker threads of server.c and the way the server ends.  main       *)
(* starts NTHREADS workers that sleep on a semaphore each; at this commit  *)
(* nobody gives them work.  SIGINT runs cleanup in the main thread, at any *)
(* point of the event loop, and then the process exits.                    *)
(*                                                                         *)
(* A worker that stops frees its own Worker, while cleanup still reads     *)
(* workers[i]->thread from it.  What free leaves there is unspecified:     *)
(* pthread_join gets the right thread, or a value that makes it crash.     *)
(*                                                                         *)
(* A worker also prints to stderr before it stops.  When SIGINT has        *)
(* interrupted main inside an fprintf to stderr, or inside malloc or free, *)
(* main keeps the C library's lock while cleanup waits for that worker.    *)
(***************************************************************************)
EXTENDS Naturals

CONSTANT NThreads        \* NTHREADS

ASSUME NThreadsAssumption == NThreads \in Nat \ {0}

VARIABLES
    main,      \* what the main thread is at, or how the process ended
    workers,   \* workers[]: where each thread is, its flag and its semaphore
    clean,     \* cleanup: the worker it is at and its next statement there
    lockHeld   \* SIGINT came while main held a lock the workers need to stop

workerVars == <<main, workers, clean, lockHeld>>

Worker == 1..NThreads

WorkersTypeOK ==
    /\ main \in {"loop", "cleanup", "exited", "crashed", "aborted"}
    /\ workers \in [Worker -> [pc : {"asleep", "awake", "task", "freed"},
                               terminated : BOOLEAN, sem : 0..1]]
    /\ clean \in [i : Worker, at : {"flag", "post", "read", "join", "destroy"}]
    /\ lockHeld \in BOOLEAN

WorkersInit ==
    /\ main = "loop"
    /\ workers = [i \in Worker |-> [pc |-> "asleep", terminated |-> FALSE, sem |-> 0]]
    /\ clean = [i |-> 1, at |-> "flag"]
    /\ lockHeld = FALSE

Alive == main \in {"loop", "cleanup"}
-----------------------------------------------------------------------------
(* worker *)

\* sem_wait returns.
WorkerWakes(i) ==
    /\ Alive
    /\ workers[i].pc = "asleep"
    /\ workers[i].sem > 0
    /\ workers' = [workers EXCEPT ![i].pc = "awake", ![i].sem = @ - 1]
    /\ UNCHANGED <<main, clean, lockHeld>>

\* A worker that is to stop says so on stderr and frees itself, which needs the locks;
\* any other looks for a task in func.
WorkerChecks(i) ==
    /\ Alive
    /\ workers[i].pc = "awake"
    /\ workers[i].terminated => ~lockHeld
    /\ workers' = [workers EXCEPT ![i].pc = IF workers[i].terminated THEN "freed" ELSE "task"]
    /\ UNCHANGED <<main, clean, lockHeld>>
-----------------------------------------------------------------------------
(* sighandler and cleanup *)

\* SIGINT: the handler never returns to the loop, and main keeps what it has locked.
Interrupt ==
    /\ main = "loop"
    /\ main' = "cleanup"
    /\ lockHeld' \in BOOLEAN
    /\ UNCHANGED <<workers, clean>>

CleanupAt(s) == main = "cleanup" /\ clean.at = s

\* Mutant: the semaphore is posted before the flag is set.
FlagAndPostSwapped(s) ==
    /\ CleanupAt(s)
    /\ workers' = IF s = "post" THEN [workers EXCEPT ![clean.i].terminated = TRUE]
                                ELSE [workers EXCEPT ![clean.i].sem = @ + 1]
    /\ clean' = [clean EXCEPT !.at = IF s = "flag" THEN "post" ELSE "read"]
    /\ UNCHANGED <<main, lockHeld>>

\* Mutant: the semaphore is not posted.
FlagWithoutPost(s) ==
    /\ CleanupAt(s)
    /\ workers' = [workers EXCEPT ![clean.i].terminated = TRUE]
    /\ clean' = [clean EXCEPT !.at = IF s = "flag" THEN "post" ELSE "read"]
    /\ UNCHANGED <<main, lockHeld>>

\* terminated = true, then sem_post.
FlagAndPost(s) ==
    /\ CleanupAt(s)
    /\ workers' = IF s = "flag" THEN [workers EXCEPT ![clean.i].terminated = TRUE]
                                ELSE [workers EXCEPT ![clean.i].sem = @ + 1]
    /\ clean' = [clean EXCEPT !.at = IF s = "flag" THEN "post" ELSE "read"]
    /\ UNCHANGED <<main, lockHeld>>

\* The argument of pthread_join, read from a Worker that may be free already.
ReadThread ==
    /\ CleanupAt("read")
    /\ \/ clean' = [clean EXCEPT !.at = "join"] /\ UNCHANGED main
       \/ workers[clean.i].pc = "freed" /\ main' = "crashed" /\ UNCHANGED clean
    /\ UNCHANGED <<workers, lockHeld>>

\* pthread_join returns when the thread has.
Join ==
    /\ CleanupAt("join")
    /\ workers[clean.i].pc = "freed"
    /\ clean' = [clean EXCEPT !.at = "destroy"]
    /\ UNCHANGED <<main, workers, lockHeld>>

\* sem_destroy does nothing in the C library; after the last worker, _exit.
Destroy ==
    /\ CleanupAt("destroy")
    /\ IF clean.i < NThreads
       THEN clean' = [i |-> clean.i + 1, at |-> "flag"] /\ UNCHANGED main
       ELSE main' = "exited" /\ UNCHANGED clean
    /\ UNCHANGED <<workers, lockHeld>>

CleanupStep == FlagAndPost("flag") \/ FlagAndPost("post") \/ ReadThread \/ Join \/ Destroy
WorkerStep(i) == WorkerWakes(i) \/ WorkerChecks(i)
-----------------------------------------------------------------------------
(* Properties *)

\* Worker.func is never assigned and so holds whatever malloc returned: no worker
\* looks at it, because none is woken before its terminated flag is set.
NoWorkerRunsATask == \A i \in Worker : workers[i].pc # "task"

\* Once SIGINT has arrived the process ends, although it may end in a crash: no worker
\* and no join is waited for in vain.  The exception is a signal that found main holding
\* a lock of the C library: then the first worker and cleanup wait for each other.
ShutdownEnds == (main = "cleanup") ~> (~Alive \/ lockHeld)
=============================================================================
