------------------------------ MODULE MCUpload ------------------------------
EXTENDS Upload, TLC

\* One file per behaviour, which stays the same: empty, of whole chunks, or with a
\* short last chunk.
SomeFiles == {[ver |-> "v1", n |-> 0, short |-> FALSE],
              [ver |-> "v1", n |-> 2, short |-> FALSE],
              [ver |-> "v1", n |-> 4, short |-> TRUE]}

\* As above, and one file beyond the quota, which is refused.
SomeFilesOneTooLarge == SomeFiles \cup {[ver |-> "v1", n |-> 5, short |-> FALSE]}

\* The user edits the file between attempts: it changes, shrinks and grows.
TwoVersions == {[ver |-> "v1", n |-> 3, short |-> FALSE],
                [ver |-> "v2", n |-> 2, short |-> TRUE]}
=============================================================================
