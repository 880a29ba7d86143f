------------------------------ MODULE MCPaths -------------------------------
EXTENDS Paths, ChunkCount, TLC

CONSTANTS a, store, me, meToo

TheRoot == <<store, me>>

\* Around the multiples of the chunk size: below 2^24 bytes, where floats are exact, just
\* above it, and where their distance is 32 and 64 bytes.
SomeSizes == {m * 4096 + d : m \in {0, 1, 2, 4095, 4096, 4097, 8191, 8192, 65536, 262142},
                             d \in {0, 1, 2, 3, 63, 64, 65, 2048, 4031, 4032, 4033, 4094, 4095}}

\* The two algorithms have nothing in common: a behaviour runs one of them.
AlgorithmsInit ==
    \/ PathsInit /\ size = 0 /\ old = 0 /\ held = 0 /\ done = FALSE
    \/ /\ CountInit
       /\ input = <<>> /\ absolute = FALSE /\ p = 0 /\ out = <<>> /\ slash = FALSE
       /\ at = 0 /\ dirs = {} /\ files = {} /\ result = "normalized"

AlgorithmsNext ==
    \/ PathsNext /\ UNCHANGED countVars
    \/ dirs = {} /\ Attempt /\ UNCHANGED pathVars

AlgorithmsSpec == AlgorithmsInit /\ [][AlgorithmsNext]_<<pathVars, countVars>>
=============================================================================
