----------------------------- MODULE ChunkCount -----------------------------
(***************************************************************************)
(* How many chunks a file has, and how many of them a client says it holds *)
(* already: both are computed in single precision (file.c:34, client.c:    *)
(* 452), which cannot represent every size beyond 2^24.  The module counts *)
(* in bytes and follows the attempts to download one file, to a place      *)
(* where any other file may be already: the client takes its size for what *)
(* an earlier attempt left.  Download follows what happens inside an       *)
(* attempt and counts in chunks.                                           *)
(***************************************************************************)
EXTENDS Integers

CONSTANTS
    ChunkSize,  \* CHUNK_SIZE
    Exact,      \* 2^FLT_MANT_DIG: up to here every size is a float
    Ulps,       \* the distances of neighbouring floats, powers of two
    Sizes       \* file sizes

ASSUME ChunkCountAssumption ==
    /\ ChunkSize \in Nat \ {0}
    /\ Exact \in Nat \ {0} /\ Exact % 2 = 0
    /\ Ulps \subseteq Nat \ {0} /\ 1 \in Ulps
    /\ \A u \in Ulps \ {1} : u % 2 = 0 /\ u \div 2 \in Ulps
    /\ \A u \in Ulps : ChunkSize % u = 0
    /\ Sizes \subseteq Nat
    /\ \A n \in Sizes : \E u \in Ulps : n < Exact * u

VARIABLES
    size,   \* of the server's file
    old,    \* of the client's file before the first attempt, 0 if there is none
    held,   \* of the client's file
    done    \* the server had no chunk left to send in the last attempt

countVars == <<size, old, held, done>>
-----------------------------------------------------------------------------
(* Single precision *)

\* The distance of neighbouring floats at x: the first that Exact steps of reach beyond x.
Ulp(x) == CHOOSE u \in Ulps : /\ x < Exact * u
                              /\ \A v \in Ulps : v < u => x >= Exact * v

\* (float)x: the nearest float, the even one of two.
Float(x) ==
    LET u == Ulp(x)
        q == x \div u
        r == x % u
    IN IF 2 * r < u \/ (2 * r = u /\ q % 2 = 0) THEN q * u ELSE (q + 1) * u

\* Mutant: floor in place of ceil.
ChunksOfFloor(n) == Float(n) \div ChunkSize

\* ceil((float)size / CHUNK_SIZE); dividing by a power of two is exact.
ChunksOf(n) == (Float(n) + ChunkSize - 1) \div ChunkSize

\* Mutant: the chunk that would come next is counted too.
ChunksHeldNext(n) == Float(n) \div ChunkSize + 1

\* floor((float)size / CHUNK_SIZE)
ChunksHeld(n) == Float(n) \div ChunkSize
-----------------------------------------------------------------------------
Least(a, b) == IF a <= b THEN a ELSE b
Most(a, b) == IF a >= b THEN a ELSE b

CountInit ==
    /\ size \in Sizes
    /\ old \in Sizes \cup {0}
    /\ held = old
    /\ done = FALSE

\* An attempt starts at the chunk after those held and goes through the first chunk,
\* up to the last one, or to the end, if it sends any: it sends none when the client
\* seems to hold them all.  The server takes a request without bytes to start at 0.
Attempt ==
    LET n == ChunksOf(size)
        start == IF held > 0 THEN ChunksHeld(held) ELSE 0
    IN \E stop \in {start, 1, n - 1, n} :
          /\ start <= stop /\ (stop = start \/ stop <= n)
          /\ held' = IF stop = start THEN held
                     ELSE Most(held, Least(size, stop * ChunkSize))
          /\ done' = (stop >= n)
          /\ UNCHANGED <<size, old>>

CountSpec == CountInit /\ [][Attempt]_countVars
-----------------------------------------------------------------------------
(* Properties *)

\* When nothing is left to send, the client has as many bytes as the server's file, or
\* as its own longer one, which is never cut.  Beyond 2^24 bytes (Exact) the end may be
\* missing: at most half the distance of two floats, where a chunk was about to begin,
\* or a whole one, when the file the client had before was taken for complete.
EndIsThere ==
    done => \/ held = Most(size, old)
            \/ /\ size > Exact
               /\ \/ held % ChunkSize = 0 /\ 2 * (size - held) <= Ulp(size)
                  \/ held = old /\ size - held <= Ulp(size)

\* An attempt that sends chunks never resumes beyond the bytes that earlier attempts
\* left, however the sizes are rounded.  Only beyond a file of another origin a hole may
\* open, if it is larger than 2^24 bytes, and of at most half the distance of two floats.
NoGap ==
    held > 0 /\ ChunksHeld(held) < ChunksOf(size) =>
        LET from == ChunksHeld(held) * ChunkSize
        IN from <= held \/ (held = old /\ held > Exact /\ 2 * (from - held) <= Ulp(held))
=============================================================================
