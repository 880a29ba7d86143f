----------------------------- MODULE MCAccounts -----------------------------
EXTENDS Accounts, TLC

CONSTANTS ann, bob, left, right, small, docs

\* All tokens collide: one chain holds ann, bob and an uninitialised token.
Collide == [k \in Keys |-> left]

Sizes == [f \in Files |-> 1]
=============================================================================
