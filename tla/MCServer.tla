------------------------------ MODULE MCServer ------------------------------
EXTENDS Server, TLC

Cmd(type, tok, len) == [type |-> type, tok |-> tok, len |-> len]

\* Every kind of handler for a registered user, with paths that are accepted and too
\* long, and a request of a user who has not run auth.
SomeCommands == {Cmd("auth", "known", 0), Cmd("transfer", "known", 1),
                 Cmd("rm", "known", 1), Cmd("mkdir", "known", 2),
                 Cmd("mkdir", "unknown", 2)}

\* A user who has not run auth, with a path at least as long as a header.
BeforeAuth == {Cmd("auth", "known", 0), Cmd("mkdir", "unknown", 2)}
=============================================================================
