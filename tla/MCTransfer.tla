----------------------------- MODULE MCTransfer -----------------------------
(* Files of no chunk, of whole chunks and with a short last chunk. *)
EXTENDS Transfer, TLC

MCSources == {[ver |-> "v1", n |-> 0, short |-> FALSE],
              [ver |-> "v1", n |-> 2, short |-> FALSE],
              [ver |-> "v1", n |-> 3, short |-> TRUE]}
=============================================================================
