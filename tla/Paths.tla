------------------------------- MODULE Paths --------------------------------
(***************************************************************************)
(* What the server does with a path a client sends (util.c): it is put     *)
(* after the user's root, normalize_path resolves "." and ".." in it, the  *)
(* result must begin with the root, and create_directories_from_path makes *)
(* every directory below the root on the way.                              *)
(*                                                                         *)
(* A path is a sequence of components; between two slashes there may be    *)
(* none, which is the component "".  normalize_path copies components to   *)
(* out and takes them back; after taking one back from an absolute path    *)
(* the slash before it stays.  Paths of the program are absolute; relative *)
(* ones are normalised in the same way but for the slash.                  *)
(***************************************************************************)
EXTENDS Naturals, Sequences, FiniteSets, SequencesExt

CONSTANTS
    Names,      \* names of files and directories
    Root,       \* the components of the user's root
    Longer,     \* names that begin with the root's last name
    MaxLen      \* bound on the components of the client's path

ASSUME PathsAssumption ==
    /\ Root \in Seq(Names) /\ Root # <<>>
    /\ Longer \subseteq Names /\ Root[Len(Root)] \notin Longer
    /\ {"", ".", ".."} \cap Names = {}
    /\ MaxLen \in Nat

VARIABLES
    input,     \* the components of the path
    absolute,  \* whether it begins with a slash
    p,         \* components read
    out,       \* components written
    slash,     \* whether a slash was left at the end of out
    at,        \* curr_slash: components of the prefix path_next_dir returned last
    dirs,      \* the directories on disk
    files,     \* the regular files on disk
    result     \* "run" until it returns

pathVars == <<input, absolute, p, out, slash, at, dirs, files, result>>

Components == Names \cup {"", ".", ".."}

PathsTypeOK ==
    /\ input \in Seq(Components)
    /\ absolute \in BOOLEAN
    /\ p \in 0..Len(input)
    /\ out \in Seq(Names \cup {".."})
    /\ slash \in BOOLEAN
    /\ at \in 0..Len(out)
    /\ result \in {"run", "normalized", "making", "ok", "invalid", "failed"}

\* The prefixes of the root exist, and one name below it may be a directory or a file.
PathsInit ==
    /\ absolute \in BOOLEAN
    /\ \E user \in BoundedSeq(Components, MaxLen) :
          input = IF absolute THEN Root \o user ELSE user
    /\ p = 0 /\ out = <<>> /\ slash = FALSE /\ at = 0
    /\ \E there \in {{}} \cup {{Append(Root, x)} : x \in Names} : \E d \in SUBSET there :
          /\ dirs = {SubSeq(Root, 1, i) : i \in 0..Len(Root)} \cup d
          /\ files = there \ d
    /\ result = "run"
-----------------------------------------------------------------------------
(* normalize_path *)

\* Mutant: a ".." at the root of an absolute path is kept.
UpKeepsDots == out' = (IF out = <<>> THEN <<"..">> ELSE Front(out)) /\ slash' = absolute

\* The last component is taken back, also when it is a ".."; at the root of an absolute
\* path there is none, at the start of a relative one the ".." is kept.
Up ==
    IF out # <<>>
    THEN out' = Front(out) /\ slash' = absolute
    ELSE out' = (IF absolute THEN <<>> ELSE <<"..">>) /\ UNCHANGED slash

\* Mutant: "." is copied like any name.
SkippedEmpty == {""}

\* Components that leave no trace.
Skipped == {"", "."}

\* One component.
Component ==
    /\ result = "run"
    /\ p < Len(input)
    /\ p' = p + 1
    /\ LET c == input[p + 1] IN
          \/ c \in Skipped /\ UNCHANGED <<out, slash>>
          \/ c = ".." /\ Up
          \/ c \notin Skipped \cup {".."} /\ out' = Append(out, c) /\ slash' = FALSE
    /\ UNCHANGED <<input, absolute, at, dirs, files, result>>
-----------------------------------------------------------------------------
(* get_user_path and create_directories_from_path *)

\* strncmp with the root as strings: the component at its end may be longer.
BeginsWithRoot ==
    LET n == Len(Root) IN
    /\ Len(out) >= n
    /\ SubSeq(out, 1, n - 1) = Front(Root)
    /\ out[n] \in Longer \cup {Root[n]}

\* The end of normalize_path and the check; the first prefix is the root's own.
Check ==
    /\ result = "run"
    /\ p = Len(input)
    /\ at' = IF absolute /\ BeginsWithRoot THEN Len(Root) ELSE 0
    /\ result' = IF ~absolute THEN "normalized"
                 ELSE IF BeginsWithRoot THEN "making" ELSE "invalid"
    /\ UNCHANGED <<input, absolute, p, out, slash, dirs, files>>

\* Mutant: a component without a slash after it is not reached.
LastDirBeforeEnd == IF Len(out) > Len(Root) THEN Len(out) - 1 ELSE Len(out)

\* path_next_dir returns longer and longer prefixes, up to the whole path.
LastDir == Len(out)

\* mkdir of the next prefix.  EEXIST is no error, whatever is there.
MakeDir ==
    /\ result = "making"
    /\ at < LastDir
    /\ at' = at + 1
    /\ LET dir == SubSeq(out, 1, at + 1) IN
          \/ /\ dir \in dirs \cup files
             /\ UNCHANGED <<dirs, result>>
          \/ /\ dir \notin dirs \cup files /\ Front(dir) \in dirs
             /\ dirs' = dirs \cup {dir}
             /\ UNCHANGED result
          \/ /\ dir \notin dirs \cup files           \* no parent directory, or no space
             /\ result' = "failed"
             /\ UNCHANGED dirs
    /\ UNCHANGED <<input, absolute, p, out, slash, files>>

\* With a slash at the end the last prefix comes a second time, and is there already.
Made ==
    /\ result = "making"
    /\ at = LastDir
    /\ result' = "ok"
    /\ UNCHANGED <<input, absolute, p, out, slash, at, dirs, files>>
-----------------------------------------------------------------------------
PathsNext == Component \/ Check \/ MakeDir \/ Made

PathsSpec == PathsInit /\ [][PathsNext]_pathVars
-----------------------------------------------------------------------------
(* Properties *)

Count(i, j, S) == Cardinality({k \in i..j : input[k] \in S})

\* The names among the first n components that no ".." after them takes back.
Surviving(n) ==
    {i \in 1..n :
        /\ input[i] \in Names
        /\ \A j \in i..n : Count(i, j, Names) > Count(i, j, {".."})}

\* Every ".." among the first n components has a name before it to take back.
StaysInside(n) == \A j \in 1..n : input[j] = ".." => Surviving(j - 1) # {}

\* What normalize_path has written is, after every component, exactly the names that no
\* ".." cancels, in their order.  This is about absolute paths and relative ones that
\* stay below where they start; what is left of a relative path that does not, the
\* comment in the code and the code disagree on.
KeepsWhatSurvives ==
    absolute \/ StaysInside(p) =>
        LET kept == Surviving(p)
        IN /\ Len(out) = Cardinality(kept)
           /\ \A i \in kept : out[Cardinality({j \in kept : j <= i})] = input[i]

\* When create_directories_from_path returns 0 for a path below the user's root,
\* everything on the way to it is a directory, and the path itself is there.
SuccessMeansThere ==
    result = "ok" /\ IsPrefix(Root, out) =>
        /\ out \in dirs \cup files
        /\ \A n \in Len(Root)..(Len(out) - 1) : SubSeq(out, 1, n) \in dirs
=============================================================================
