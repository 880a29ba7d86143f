---------------------------- MODULE ResumePoints ----------------------------
(***************************************************************************)
(* What a table of upload sessions promises: a resume point per file.  An  *)
(* upload is offered the point its last interrupted attempt left, and      *)
(* touches no other file's.  A file that got no slot starts over at 0.     *)
(***************************************************************************)
EXTENDS Naturals

CONSTANTS
    Targets,   \* the files of one user
    Points,    \* resume points, 0 among them
    Idle       \* no upload is running

VARIABLES
    slots,   \* the files that have a slot
    point,   \* the resume point of each file
    job      \* the upload being served: its file and the point offered

vars == <<slots, point, job>>

Init ==
    /\ slots = {}
    /\ point = [f \in Targets |-> 0]
    /\ job = Idle

\* An upload starts; a file without a slot may get one.
Start(f) ==
    /\ job = Idle
    /\ job' = [target |-> f, offer |-> point[f]]
    /\ slots' \in {slots, slots \cup {f}}
    /\ UNCHANGED point

\* A request that fails before the transfer may leave a slot behind.
Reserve(f) ==
    /\ job = Idle
    /\ slots' = slots \cup {f}
    /\ UNCHANGED <<point, job>>

\* The transfer breaks off after k chunks: a file with a slot resumes there.
Interrupt(k) ==
    /\ job # Idle
    /\ point' = [point EXCEPT ![job.target] = IF job.target \in slots THEN k ELSE 0]
    /\ job' = Idle
    /\ UNCHANGED slots

Finish ==
    /\ job # Idle
    /\ point' = [point EXCEPT ![job.target] = 0]
    /\ slots' = slots \ {job.target}
    /\ job' = Idle

\* The server is started again and knows nothing.
Restart ==
    /\ slots' = {}
    /\ point' = [f \in Targets |-> 0]
    /\ job' = Idle

Next ==
    \/ \E f \in Targets : Start(f) \/ Reserve(f)
    \/ \E k \in Points : Interrupt(k)
    \/ Finish
    \/ Restart

Spec == Init /\ [][Next]_vars
=============================================================================
