----------------------------- MODULE MCDownload -----------------------------
EXTENDS Download, TLC

\* One file per behaviour, which stays the same: empty, of whole chunks, or with a
\* short last chunk.
SomeFiles == {[ver |-> "v1", n |-> 0, short |-> FALSE],
              [ver |-> "v1", n |-> 2, short |-> FALSE],
              [ver |-> "v1", n |-> 4, short |-> TRUE]}

\* The file on the server is replaced between attempts.
TwoVersions == {[ver |-> "v1", n |-> 3, short |-> FALSE],
                [ver |-> "v2", n |-> 2, short |-> TRUE]}
=============================================================================
