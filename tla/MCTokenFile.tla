---------------------------- MODULE MCTokenFile -----------------------------
EXTENDS TokenFile, TLC

Perms == Permutations(Procs) \cup Permutations(Tokens)
=============================================================================
