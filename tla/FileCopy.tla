------------------------------ MODULE FileCopy ------------------------------
(***************************************************************************)
(* What a file transfer promises, whatever connections break on the way:   *)
(* the copy only ever gains the next chunk of the original, in order and   *)
(* at its own place, never loses or damages one it has, and is reported    *)
(* finished only when it holds the whole original.                         *)
(***************************************************************************)
EXTENDS Naturals

CONSTANTS
    Originals,   \* the files that can be copied: functions from 0..(n - 1) to chunks
    Slots,       \* the chunk positions of the copy
    Blank        \* a position of the copy nothing was written to

VARIABLES original, copy, finished

vars == <<original, copy, finished>>
-----------------------------------------------------------------------------
\* The copy holds the chunks of the original before position i.
HasBefore(i) == \A j \in DOMAIN original : j < i => copy[j] = original[j]

Complete == \A j \in DOMAIN original : copy[j] = original[j]

Init ==
    /\ original \in Originals
    /\ copy = [i \in Slots |-> Blank]
    /\ finished = FALSE

\* The chunk at position i arrives.
Deliver(i) ==
    /\ HasBefore(i)
    /\ copy' = [copy EXCEPT ![i] = original[i]]

\* A step delivers at most one chunk; the copy may be reported finished when the
\* step leaves it complete, and a new attempt takes the report back.
Next ==
    /\ copy' = copy \/ \E i \in DOMAIN original : Deliver(i)
    /\ finished' \in BOOLEAN
    /\ finished' => Complete'
    /\ UNCHANGED original

Spec == Init /\ [][Next]_vars
=============================================================================
