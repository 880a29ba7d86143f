-------------------------- MODULE AlgorithmsProofs --------------------------
(***************************************************************************)
(* Proofs about the two algorithms: paths of any length, below any root,   *)
(* and files of any size that single precision reaches.                    *)
(***************************************************************************)
EXTENDS Paths, ChunkCount, SequenceTheorems, FiniteSetTheorems,
        WellFoundedInduction, TLAPS

\* A prefix of a sequence, element by element.
LEMMA PrefixOf ==
    ASSUME NEW S, NEW s \in Seq(S), NEW n \in 0..Len(s)
    PROVE  /\ SubSeq(s, 1, n) \in Seq(S)
           /\ Len(SubSeq(s, 1, n)) = n
           /\ \A i \in 1..n : SubSeq(s, 1, n)[i] = s[i]
           /\ n = Len(s) => SubSeq(s, 1, n) = s
OBVIOUS

\* The prefix without its last element is the prefix before it.
LEMMA FrontOfPrefix ==
    ASSUME NEW S, NEW s \in Seq(S), NEW n \in 1..Len(s)
    PROVE  Front(SubSeq(s, 1, n)) = SubSeq(s, 1, n - 1)
<1>1. Len(SubSeq(s, 1, n)) = n /\ SubSeq(s, 1, n) \in Seq(S)
  OBVIOUS
<1>2. SubSeq(SubSeq(s, 1, n), 1, n - 1) = SubSeq(s, 1, n - 1)
  OBVIOUS
<1>3. QED
  BY <1>1, <1>2 DEF Front

\* What is left when the last component is taken back.
LEMMA FrontType ==
    ASSUME NEW S, NEW s \in Seq(S), s # <<>>
    PROVE  Front(s) \in Seq(S)
BY DEF Front
-----------------------------------------------------------------------------
(* Paths *)

\* What is on disk hangs together: everything but the top is in a directory.
Tree == \A d \in dirs \cup files : d # <<>> => Front(d) \in dirs

\* create_directories_from_path has been through all prefixes up to curr_slash: each of
\* them is there, and all but the last one are directories.
Reached ==
    result \in {"making", "ok"} =>
        /\ at >= Len(Root)
        /\ result = "ok" => at = Len(out)
        /\ IsPrefix(Root, out) =>
              /\ SubSeq(out, 1, at) \in dirs \cup files
              /\ \A n \in Len(Root)..(at - 1) : SubSeq(out, 1, n) \in dirs

\* The inductive invariant of a path's way through the server.
PathsInv ==
    /\ PathsTypeOK
    /\ result = "run" => at = 0
    /\ absolute => out \in Seq(Names)
    /\ Root \in dirs
    /\ Tree
    /\ Reached

\* The state a request finds.
LEMMA PathsStart == PathsInit => PathsInv
<1> SUFFICES ASSUME PathsInit PROVE PathsInv
  OBVIOUS
<1>1. Root \in Seq(Names) /\ Root # <<>>
  BY PathsAssumption
<1>2. input \in Seq(Components)
  <2>1. PICK user \in BoundedSeq(Components, MaxLen) : input = IF absolute THEN Root \o user ELSE user
    BY DEF PathsInit
  <2>2. user \in Seq(Components)
    <3>1. PICK m \in 0..MaxLen : user \in [1..m -> Components]
      BY DEF BoundedSeq, SeqOf
    <3>2. m \in Nat
      <4>1. MaxLen \in Nat
        BY PathsAssumption
      <4>2. QED
        BY <4>1
    <3>3. Seq(Components) = UNION {[1..n -> Components] : n \in Nat}
      BY SeqDef
    <3>4. QED
      BY <3>1, <3>2, <3>3, Zenon
  <2>3. Root \in Seq(Components)
    <3>1. Names \subseteq Components
      BY DEF Components
    <3>2. QED
      BY <1>1, <3>1
  <2>4. QED
    BY <2>1, <2>2, <2>3
<1>3. PathsTypeOK
  <2>1. 0 \in 0..Len(input) /\ <<>> \in Seq(Names \cup {".."}) /\ 0 \in 0..Len(<<>>)
    BY <1>2
  <2>2. QED
    BY <1>2, <2>1 DEF PathsInit, PathsTypeOK
<1>4. PICK there \in {{}} \cup {{Append(Root, x)} : x \in Names} : \E d \in SUBSET there :
          /\ dirs = {SubSeq(Root, 1, i) : i \in 0..Len(Root)} \cup d
          /\ files = there \ d
  BY DEF PathsInit
<1>5. \A i \in 0..Len(Root) : SubSeq(Root, 1, i) \in dirs
  BY <1>4
<1>6. Root \in dirs
  <2>1. Len(Root) \in 0..Len(Root) /\ SubSeq(Root, 1, Len(Root)) = Root
    BY <1>1
  <2>2. QED
    BY <1>5, <2>1
<1>7. ASSUME NEW d \in dirs \cup files, d # <<>>
      PROVE  Front(d) \in dirs
  <2>1. CASE \E x \in Names : d = Append(Root, x)
    <3>1. PICK x \in Names : d = Append(Root, x)
      BY <2>1
    <3>2. Len(d) = Len(Root) + 1 /\ SubSeq(d, 1, Len(Root)) = Root
      BY <1>1, <3>1
    <3>3. Front(d) = Root
      BY <1>1, <3>2 DEF Front
    <3>4. QED
      BY <1>6, <3>3
  <2>2. CASE \E i \in 0..Len(Root) : d = SubSeq(Root, 1, i)
    <3>1. PICK i \in 0..Len(Root) : d = SubSeq(Root, 1, i)
      BY <2>2
    <3>2. i # 0
      BY <1>1, <1>7, <3>1
    <3>3. i \in 1..Len(Root) /\ i - 1 \in 0..Len(Root)
      BY <1>1, <3>2
    <3>4. Front(d) = SubSeq(Root, 1, i - 1)
      BY <1>1, <3>1, <3>3, FrontOfPrefix
    <3>5. QED
      BY <1>5, <3>3, <3>4
  <2>3. QED
    BY <1>4, <2>1, <2>2
<1>8. QED
  BY <1>3, <1>6, <1>7 DEF PathsInit, PathsInv, Tree, Reached

\* normalize_path: a component is copied, left out, or takes the last one back.
LEMMA ComponentKeeps ==
    ASSUME PathsInv, Component
    PROVE  PathsInv'
<1>1. /\ input \in Seq(Components) /\ p \in 0..Len(input) /\ p < Len(input)
      /\ out \in Seq(Names \cup {".."}) /\ slash \in BOOLEAN /\ absolute \in BOOLEAN
      /\ result = "run" /\ at = 0 /\ p' = p + 1
      /\ UNCHANGED <<input, absolute, at, dirs, files, result>>
  BY DEF Component, PathsInv, PathsTypeOK
<1>2. p' \in 0..Len(input)
  BY <1>1
<1>3. ASSUME NEW S, out \in Seq(S), Names \subseteq S, absolute \/ ".." \in S
      PROVE  out' \in Seq(S)
  <2> DEFINE c == input[p + 1]
  <2>1. c \in Components
    BY <1>1
  <2>2. CASE UNCHANGED <<out, slash>>
    BY <1>3, <2>2
  <2>3. CASE c = ".." /\ Up
    <3>1. CASE out # <<>>
      BY <1>3, <2>3, <3>1, FrontType DEF Up
    <3>2. CASE out = <<>>
      <4>1. <<>> \in Seq(S) /\ (".." \in S => <<"..">> \in Seq(S))
        OBVIOUS
      <4>2. out' = IF absolute THEN <<>> ELSE <<"..">>
        BY <2>3, <3>2 DEF Up
      <4>3. QED
        BY <1>3, <4>1, <4>2
    <3>3. QED
      BY <3>1, <3>2
  <2>4. CASE c \notin Skipped \cup {".."} /\ out' = Append(out, c)
    <3>1. c \in Names
      BY <2>1, <2>4 DEF Components, Skipped
    <3>2. QED
      BY <1>3, <2>4, <3>1
  <2>5. QED
    BY <2>2, <2>3, <2>4 DEF Component
<1>4. out' \in Seq(Names \cup {".."})
  BY <1>1, <1>3
<1>5. absolute => out' \in Seq(Names)
  BY <1>3 DEF PathsInv
<1>6. slash' \in BOOLEAN
  BY <1>1 DEF Component, Up
<1>7. 0 \in 0..Len(out')
  BY <1>4
<1>8. PathsTypeOK'
  BY <1>1, <1>2, <1>4, <1>6, <1>7 DEF PathsTypeOK
<1>9. QED
  BY <1>1, <1>5, <1>8 DEF PathsInv, Tree, Reached

\* get_user_path: the root is there, so the first prefix is.
LEMMA CheckKeeps ==
    ASSUME PathsInv, Check
    PROVE  PathsInv'
<1>1. /\ out \in Seq(Names \cup {".."}) /\ Root \in Seq(Names) /\ Root \in dirs
      /\ UNCHANGED <<input, absolute, p, out, slash, dirs, files>>
      /\ result' \in {"normalized", "making", "invalid"}
      /\ at' \in {0, Len(Root)}
      /\ result' = "making" => at' = Len(Root)
      /\ at' # 0 => BeginsWithRoot
  BY PathsAssumption DEF Check, PathsInv, PathsTypeOK
<1>2. Len(Root) \in Nat /\ Len(out) \in Nat
  BY <1>1
<1>3. BeginsWithRoot => Len(Root) <= Len(out)
  BY <1>2 DEF BeginsWithRoot
<1>4. at' \in 0..Len(out)
  BY <1>1, <1>2, <1>3
<1>5. PathsTypeOK'
  BY <1>1, <1>4 DEF PathsInv, PathsTypeOK
<1>6. ASSUME result' = "making", IsPrefix(Root, out)
      PROVE  SubSeq(out, 1, at') \in dirs
  <2>1. SubSeq(out, 1, Len(Root)) = SubSeq(Root, 1, Len(Root)) /\ SubSeq(Root, 1, Len(Root)) = Root
    BY <1>1, <1>6 DEF IsPrefix
  <2>2. QED
    BY <1>1, <1>6, <2>1
<1>7. Reached'
  <2>1. Len(Root) >= Len(Root) /\ \A n \in Len(Root)..(Len(Root) - 1) : FALSE
    BY <1>2
  <2>2. IsPrefix(Root, out') <=> IsPrefix(Root, out)
    BY <1>1
  <2>3. result' # "ok" /\ (result' \in {"making", "ok"} => result' = "making")
    BY <1>1
  <2>4. QED
    BY <1>1, <1>6, <2>1, <2>2, <2>3 DEF Reached
<1>8. QED
  BY <1>1, <1>5, <1>7 DEF PathsInv, Tree

\* create_directories_from_path: whether mkdir makes the directory or finds something in
\* its place, what is before it is a directory.
LEMMA MakeDirKeeps ==
    ASSUME PathsInv, MakeDir
    PROVE  PathsInv'
<1> DEFINE dir == SubSeq(out, 1, at + 1)
<1>1. /\ out \in Seq(Names \cup {".."}) /\ Root \in Seq(Names) /\ Root \in dirs
      /\ UNCHANGED <<input, absolute, p, out, slash, files>>
      /\ result = "making" /\ result' \in {"making", "failed"}
      /\ at \in 0..Len(out) /\ at < Len(out) /\ at' = at + 1
  BY PathsAssumption DEF MakeDir, LastDir, PathsInv, PathsTypeOK
<1>2. at' \in 1..Len(out) /\ at' \in 0..Len(out) /\ at = at' - 1 /\ Len(Root) \in Nat
  BY <1>1
<1>3. dir # <<>> /\ Front(dir) = SubSeq(out, 1, at)
  <2>1. at + 1 \in 1..Len(out) /\ (at + 1) - 1 = at
    BY <1>1
  <2>2. Len(dir) = at + 1 /\ at + 1 # 0 /\ Len(<<>>) = 0
    BY <1>1, <2>1
  <2>3. Front(dir) = SubSeq(out, 1, (at + 1) - 1)
    BY <1>1, <2>1, FrontOfPrefix
  <2>4. QED
    BY <2>1, <2>2, <2>3
<1>4. \/ dirs' = dirs /\ (dir \in dirs \cup files \/ result' = "failed")
      \/ dirs' = dirs \cup {dir} /\ Front(dir) \in dirs
  BY DEF MakeDir
<1> HIDE DEF dir
<1>5. PathsTypeOK'
  BY <1>1, <1>2 DEF PathsInv, PathsTypeOK
<1>6. Tree'
  BY <1>1, <1>4 DEF PathsInv, Tree
<1>7. result' = "making" => dir \in dirs' \cup files /\ Front(dir) \in dirs'
  BY <1>3, <1>4 DEF PathsInv, Tree
<1>8. Reached'
  <2>1. \A n \in Len(Root)..(at' - 1) : n = at \/ n \in Len(Root)..(at - 1)
    BY <1>1, <1>2
  <2>2. at >= Len(Root) /\ at' >= Len(Root)
    BY <1>1, <1>2 DEF PathsInv, Reached
  <2>3. SubSeq(out, 1, at') = dir
    BY <1>1 DEF dir
  <2>4. ASSUME result' = "making", IsPrefix(Root, out), NEW n \in Len(Root)..(at' - 1)
        PROVE  SubSeq(out, 1, n) \in dirs'
    <3>1. CASE n = at
      BY <1>3, <1>7, <2>4, <3>1
    <3>2. CASE n \in Len(Root)..(at - 1)
      BY <1>1, <1>4, <2>4, <3>2 DEF PathsInv, Reached
    <3>3. QED
      BY <2>1, <2>4, <3>1, <3>2
  <2>5. QED
    BY <1>1, <1>7, <2>2, <2>3, <2>4 DEF Reached, IsPrefix
<1>9. QED
  BY <1>1, <1>4, <1>5, <1>6, <1>8 DEF PathsInv

\* The invariant holds throughout, for paths of any length below any root.
THEOREM PathsInvariant == PathsSpec => []PathsInv
<1>1. PathsInv /\ [PathsNext]_pathVars => PathsInv'
  <2> SUFFICES ASSUME PathsInv, [PathsNext]_pathVars PROVE PathsInv'
    OBVIOUS
  <2>1. CASE Made
    <3>1. UNCHANGED <<input, absolute, p, out, slash, at, dirs, files>> /\ at = Len(out)
          /\ result = "making" /\ result' = "ok"
      BY <2>1 DEF Made, LastDir
    <3>2. QED
      BY <3>1 DEF PathsInv, PathsTypeOK, Tree, Reached, IsPrefix
  <2>2. CASE UNCHANGED pathVars
    BY <2>2 DEF pathVars, PathsInv, PathsTypeOK, Tree, Reached, IsPrefix
  <2>3. QED
    BY <2>1, <2>2, ComponentKeeps, CheckKeeps, MakeDirKeeps DEF PathsNext
<1>2. QED
  BY <1>1, PathsStart, PTL DEF PathsSpec

\* The components normalize_path has written are names and "..", and the prefix that is
\* being made never goes beyond them.
THEOREM PathsTypeCorrect == PathsSpec => []PathsTypeOK
<1>1. PathsInv => PathsTypeOK
  BY DEF PathsInv
<1>2. QED
  BY <1>1, PathsInvariant, PTL

\* create_directories_from_path returns 0 only when the path is there and everything
\* on the way to it is a directory.
THEOREM DirectoriesAreMade == PathsSpec => []SuccessMeansThere
<1>1. PathsInv => SuccessMeansThere
  <2>1. SUFFICES ASSUME PathsInv, result = "ok", IsPrefix(Root, out)
                 PROVE  /\ out \in dirs \cup files
                        /\ \A n \in Len(Root)..(Len(out) - 1) : SubSeq(out, 1, n) \in dirs
    BY DEF SuccessMeansThere
  <2>2. out \in Seq(Names \cup {".."}) /\ at = Len(out)
    BY <2>1 DEF PathsInv, PathsTypeOK, Reached
  <2>3. SubSeq(out, 1, at) = out
    BY <2>2
  <2>4. QED
    BY <2>1, <2>2, <2>3 DEF PathsInv, Reached
<1>2. QED
  BY <1>1, PathsInvariant, PTL
-----------------------------------------------------------------------------
(* Chunk counts: the arithmetic *)

\* A set of numbers has a smallest one.
LEMMA Smallest ==
    ASSUME NEW T \in SUBSET Nat, T # {}
    PROVE  \E x \in T : \A y \in T : x <= y
<1> DEFINE R == OpToRel(<, Nat)
<1>1. IsWellFoundedOn(R, Nat)
  BY NatLessThanWellFounded
<1>2. \A x, y \in Nat : <<y, x>> \in R <=> y < x
  BY DEF OpToRel
<1> HIDE DEF R
<1>3. PICK x \in T : \A y \in T : ~(<<y, x>> \in R)
  BY <1>1, WFMin, Zenon
<1>4. \A y \in T : ~(y < x)
  BY <1>2, <1>3
<1>5. QED
  BY <1>4

\* Quotient and remainder.
LEMMA DivMod ==
    ASSUME NEW a \in Nat, NEW u \in Nat, u > 0
    PROVE  /\ a \div u \in Nat
           /\ a % u \in 0..(u - 1)
           /\ a = (a \div u) * u + (a % u)
OBVIOUS

\* The product of two numbers is one.
LEMMA ProductType ==
    ASSUME NEW a \in Nat, NEW b \in Nat
    PROVE  a * b \in Nat
OBVIOUS

\* Multiplication is monotonic.
LEMMA ProductGrows ==
    ASSUME NEW a \in Nat, NEW b \in Nat, NEW u \in Nat, a < b
    PROVE  a * u + u <= b * u
<1> DEFINE d == b - a - 1
<1>1. d \in Nat /\ b = a + 1 + d
  OBVIOUS
<1>2. d * u \in Nat
  BY <1>1, ProductType
<1> HIDE DEF d
<1>3. b * u = a * u + u + d * u
  BY <1>1
<1>4. QED
  BY <1>1, <1>2, <1>3, ProductType

\* A multiple divided by its divisor.
LEMMA MultipleDivides ==
    ASSUME NEW k \in Nat, NEW u \in Nat, u > 0
    PROVE  (k * u) \div u = k /\ (k * u) % u = 0
<1> DEFINE q == (k * u) \div u
           r == (k * u) % u
<1>1. k * u \in Nat
  BY ProductType
<1>2. q \in Nat /\ r \in 0..(u - 1) /\ k * u = q * u + r
  BY <1>1, DivMod
<1> HIDE DEF q, r
<1>3. ~(q < k) /\ ~(k < q)
  BY <1>2, ProductGrows, ProductType
<1>4. q = k /\ r = 0
  BY <1>2, <1>3
<1>5. QED
  BY <1>4 DEF q, r
-----------------------------------------------------------------------------
(* Chunk counts: single precision *)

\* Sizes that the floats considered reach.
InRange(x) == x \in Nat /\ \E u \in Ulps : x < Exact * u

\* There is a distance of the floats at x.
LEMMA UlpIs ==
    ASSUME NEW x, InRange(x)
    PROVE  /\ Ulp(x) \in Ulps /\ Ulp(x) \in Nat /\ Ulp(x) > 0
           /\ x < Exact * Ulp(x)
           /\ \A v \in Ulps : v < Ulp(x) => x >= Exact * v
<1> DEFINE T == {u \in Ulps : x < Exact * u}
<1>1. T \in SUBSET Nat /\ T # {}
  BY ChunkCountAssumption DEF InRange
<1> HIDE DEF T
<1>2. PICK u \in T : \A v \in T : u <= v
  BY <1>1, Smallest
<1>3. u \in Ulps /\ x < Exact * u
  BY DEF T
<1>4. ASSUME NEW v \in Ulps, v < u PROVE x >= Exact * v
  <2>1. v \in Nat /\ Exact * v \in Nat /\ x \in Nat /\ u \in Nat
    BY <1>3, ChunkCountAssumption, ProductType DEF InRange
  <2>2. v \notin T
    BY <1>2, <1>4, <2>1
  <2>3. ~(x < Exact * v)
    BY <2>2 DEF T
  <2>4. QED
    BY <2>1, <2>3
<1>5. /\ Ulp(x) \in Ulps /\ x < Exact * Ulp(x)
      /\ \A v \in Ulps : v < Ulp(x) => x >= Exact * v
  BY <1>3, <1>4 DEF Ulp
<1>6. \A v \in Ulps : v \in Nat /\ v > 0
  BY ChunkCountAssumption
<1>7. QED
  BY <1>5, <1>6

\* (float)x is at most half the distance of two floats away, and x itself where x is one.
LEMMA FloatNear ==
    ASSUME NEW x, InRange(x)
    PROVE  /\ Float(x) \in Nat
           /\ 2 * (x - Float(x)) <= Ulp(x)
           /\ 2 * (Float(x) - x) <= Ulp(x)
           /\ x % Ulp(x) = 0 => Float(x) = x
<1> DEFINE u == Ulp(x)
           q == x \div u
           r == x % u
<1>1. u \in Nat /\ u > 0 /\ x \in Nat
  BY UlpIs DEF InRange
<1>2. q \in Nat /\ r \in 0..(u - 1) /\ x = q * u + r
  BY <1>1, DivMod
<1>3. Float(x) = IF 2 * r < u \/ (2 * r = u /\ q % 2 = 0) THEN q * u ELSE (q + 1) * u
  BY DEF Float
<1> HIDE DEF u, q, r
<1>4. q * u \in Nat /\ (q + 1) * u = q * u + u
  BY <1>1, <1>2, ProductType
<1>5. /\ Float(x) \in Nat
      /\ 2 * (x - Float(x)) <= u
      /\ 2 * (Float(x) - x) <= u
      /\ r = 0 => Float(x) = x
  BY <1>1, <1>2, <1>3, <1>4
<1>6. QED
  BY <1>5 DEF u, r

\* Up to 2^24 every number is a float.
LEMMA SmallIsExact ==
    ASSUME NEW x, InRange(x), x <= Exact
    PROVE  Float(x) = x
<1>1. x \in Nat /\ Exact \in Nat \ {0} /\ 1 \in Ulps
  BY ChunkCountAssumption DEF InRange
<1> DEFINE u == Ulp(x)
<1>2. /\ u \in Ulps /\ u \in Nat /\ u > 0
      /\ \A v \in Ulps : v < u => x >= Exact * v
  BY UlpIs
<1> HIDE DEF u
<1>3. CASE u = 1
  <2>1. x % u = 0
    BY <1>1, <1>3, DivMod
  <2>2. QED
    BY <2>1, FloatNear DEF u
<1>4. CASE u # 1
  <2>1. x = Exact
    BY <1>1, <1>2, <1>4
  <2>2. u % 2 = 0 /\ u \div 2 \in Ulps
    BY <1>2, <1>4, ChunkCountAssumption
  <2> DEFINE h == u \div 2
  <2>3. h \in Nat /\ u = h * 2
    BY <1>2, <2>2, DivMod
  <2> HIDE DEF h
  <2>4. ~(1 < h)
    <3>1. SUFFICES ASSUME 1 < h PROVE FALSE
      OBVIOUS
    <3>2. h \in Ulps /\ h < u
      BY <2>2, <2>3, <3>1 DEF h
    <3>3. Exact >= Exact * h
      BY <1>2, <2>1, <3>2
    <3>4. 1 * Exact + Exact <= h * Exact
      BY <1>1, <2>3, <3>1, ProductGrows
    <3>5. QED
      BY <1>1, <2>3, <3>3, <3>4
  <2>5. u = 2
    BY <1>2, <2>3, <2>4
  <2>6. x % u = 0
    BY <2>1, <2>5, ChunkCountAssumption
  <2>7. QED
    BY <2>6, FloatNear DEF u
<1>5. QED
  BY <1>3, <1>4

\* A file of whole chunks has a size that is a float: CHUNK_SIZE is a multiple of every
\* distance.  So the client counts them right.
LEMMA WholeIsExact ==
    ASSUME NEW k \in Nat, InRange(k * ChunkSize)
    PROVE  Float(k * ChunkSize) = k * ChunkSize /\ ChunksHeld(k * ChunkSize) = k
<1> DEFINE x == k * ChunkSize
           u == Ulp(x)
           m == ChunkSize \div u
<1>1. ChunkSize \in Nat /\ ChunkSize > 0
  BY ChunkCountAssumption
<1>2. u \in Ulps /\ u \in Nat /\ u > 0
  BY UlpIs
<1>3. ChunkSize % u = 0
  BY <1>2, ChunkCountAssumption
<1>4. m \in Nat /\ ChunkSize = m * u
  BY <1>1, <1>2, <1>3, DivMod
<1>5. ChunksHeld(x) = Float(x) \div ChunkSize
  BY DEF ChunksHeld
<1>6. 2 * (x - Float(x)) <= u /\ (x % u = 0 => Float(x) = x)
  BY FloatNear
<1> HIDE DEF u, m
<1>7. k * m \in Nat /\ x = (k * m) * u
  BY <1>1, <1>2, <1>4, ProductType
<1>8. x % u = 0
  BY <1>2, <1>7, MultipleDivides
<1>9. Float(x) = x
  BY <1>6, <1>8
<1>10. x \div ChunkSize = k
  BY <1>1, MultipleDivides
<1>11. QED
  BY <1>5, <1>9, <1>10

\* The chunks counted cover the size as a float.
LEMMA ChunksCover ==
    ASSUME NEW x, InRange(x)
    PROVE  /\ ChunksOf(x) \in Nat
           /\ Float(x) <= ChunksOf(x) * ChunkSize
<1> DEFINE a == Float(x) + ChunkSize - 1
           n == a \div ChunkSize
           r == a % ChunkSize
<1>1. ChunkSize \in Nat /\ ChunkSize > 0 /\ Float(x) \in Nat
  BY ChunkCountAssumption, FloatNear
<1>2. a \in Nat
  BY <1>1
<1>3. n \in Nat /\ r \in 0..(ChunkSize - 1) /\ a = n * ChunkSize + r
  BY <1>1, <1>2, DivMod
<1>4. ChunksOf(x) = n
  BY DEF ChunksOf
<1>5. n * ChunkSize \in Nat
  BY <1>1, <1>3, ProductType
<1> HIDE DEF n, r
<1>6. QED
  BY <1>1, <1>3, <1>4, <1>5
\* A multiple of CHUNK_SIZE below (float)x is not above x: it is a float itself.
LEMMA BelowFloat ==
    ASSUME NEW x, InRange(x), NEW k \in Nat, k * ChunkSize < Float(x)
    PROVE  k * ChunkSize <= x
<1> DEFINE u == Ulp(x)
           q == x \div u
           r == x % u
           m == ChunkSize \div u
<1>1. u \in Ulps /\ u \in Nat /\ u > 0 /\ x \in Nat /\ ChunkSize \in Nat
  BY UlpIs, ChunkCountAssumption DEF InRange
<1>2. q \in Nat /\ r \in 0..(u - 1) /\ x = q * u + r
  BY <1>1, DivMod
<1>3. Float(x) = IF 2 * r < u \/ (2 * r = u /\ q % 2 = 0) THEN q * u ELSE (q + 1) * u
  BY DEF Float
<1>4. m \in Nat /\ ChunkSize = m * u
  <2>1. ChunkSize % u = 0
    BY <1>1, ChunkCountAssumption
  <2>2. QED
    BY <1>1, <2>1, DivMod
<1> HIDE DEF u, q, r, m
<1> DEFINE j == k * m
<1>5. j \in Nat /\ k * ChunkSize = j * u
  BY <1>1, <1>4, ProductType
<1> HIDE DEF j
<1>6. q * u \in Nat /\ j * u \in Nat /\ (q + 1) * u = q * u + u
  BY <1>1, <1>2, <1>5, ProductType
<1>7. j * u < q * u + u
  BY <1>1, <1>3, <1>5, <1>6
<1>8. ~(q + 1 <= j)
  <2>1. SUFFICES ASSUME q + 1 <= j PROVE FALSE
    OBVIOUS
  <2>2. q < j
    BY <1>2, <1>5, <2>1
  <2>3. q * u + u <= j * u
    BY <1>1, <1>2, <1>5, <2>2, ProductGrows
  <2>4. QED
    BY <1>1, <1>6, <1>7, <2>3
<1>9. j = q \/ j < q
  BY <1>2, <1>5, <1>8
<1>10. j * u <= q * u
  <2>1. CASE j = q
    BY <1>6, <2>1
  <2>2. CASE j < q
    <3>1. j * u + u <= q * u
      BY <1>1, <1>2, <1>5, <2>2, ProductGrows
    <3>2. QED
      BY <1>1, <1>6, <3>1
  <2>3. QED
    BY <1>9, <2>1, <2>2
<1>11. QED
  BY <1>1, <1>2, <1>5, <1>6, <1>10

\* The chunks the client counts are not more than its bytes as a float.
LEMMA HeldFits ==
    ASSUME NEW x, InRange(x)
    PROVE  ChunksHeld(x) \in Nat /\ ChunksHeld(x) * ChunkSize <= Float(x)
<1> DEFINE k == Float(x) \div ChunkSize
           r == Float(x) % ChunkSize
<1>1. Float(x) \in Nat /\ ChunkSize \in Nat /\ ChunkSize > 0
  BY FloatNear, ChunkCountAssumption
<1>2. k \in Nat /\ r \in 0..(ChunkSize - 1) /\ Float(x) = k * ChunkSize + r
  BY <1>1, DivMod
<1>3. ChunksHeld(x) = k
  BY DEF ChunksHeld
<1> HIDE DEF k, r
<1>4. k * ChunkSize \in Nat
  BY <1>1, <1>2, ProductType
<1>5. QED
  BY <1>1, <1>2, <1>3, <1>4

\* One chunk fewer than are counted does not reach the size as a float.
LEMMA ChunksNeeded ==
    ASSUME NEW x, InRange(x), NEW k \in Nat, k < ChunksOf(x)
    PROVE  k * ChunkSize < Float(x)
<1> DEFINE a == Float(x) + ChunkSize - 1
           n == a \div ChunkSize
           r == a % ChunkSize
<1>1. ChunkSize \in Nat /\ ChunkSize > 0 /\ Float(x) \in Nat
  BY ChunkCountAssumption, FloatNear
<1>2. a \in Nat
  BY <1>1
<1>3. n \in Nat /\ r \in 0..(ChunkSize - 1) /\ a = n * ChunkSize + r
  BY <1>1, <1>2, DivMod
<1>4. ChunksOf(x) = n
  BY DEF ChunksOf
<1> HIDE DEF n, r
<1>5. k * ChunkSize + ChunkSize <= n * ChunkSize
  BY <1>1, <1>3, <1>4, ProductGrows
<1>6. k * ChunkSize \in Nat /\ n * ChunkSize \in Nat
  BY <1>1, <1>3, ProductType
<1>7. QED
  BY <1>1, <1>3, <1>5, <1>6
-----------------------------------------------------------------------------
(* Chunk counts: the attempts *)

Whole(x) == \E k \in Nat : x = k * ChunkSize

\* What the client holds is what it held before, a number of whole chunks, or the file;
\* the local file is never cut, and grows only up to the end of the server's.
HeldIsKnown ==
    /\ size \in Sizes
    /\ old \in Sizes \cup {0}
    /\ held \in Nat
    /\ old <= held /\ held <= Most(size, old)
    /\ held = old \/ held = size \/ Whole(held)

\* Everything counted is in range.
LEMMA HeldInRange ==
    ASSUME HeldIsKnown
    PROVE  /\ size \in Nat /\ old \in Nat /\ held \in Nat
           /\ InRange(size) /\ InRange(old) /\ InRange(held)
<1>1. size \in Nat /\ old \in Nat /\ held \in Nat
  BY ChunkCountAssumption DEF HeldIsKnown
<1>2. \A x \in Sizes : InRange(x)
  BY ChunkCountAssumption DEF InRange
<1>3. \A x, y \in Nat : InRange(y) /\ x <= y => InRange(x)
  <2>1. SUFFICES ASSUME NEW x \in Nat, NEW y \in Nat, InRange(y), x <= y PROVE InRange(x)
    OBVIOUS
  <2>2. PICK u \in Ulps : y < Exact * u
    BY <2>1 DEF InRange
  <2>3. Exact * u \in Nat
    BY ChunkCountAssumption, ProductType
  <2>4. x < Exact * u
    BY <2>1, <2>2, <2>3
  <2>5. QED
    BY <2>4 DEF InRange
<1>4. InRange(size)
  BY <1>2 DEF HeldIsKnown
<1>5. 0 <= size
  BY <1>1
<1>6. InRange(old)
  BY <1>1, <1>2, <1>3, <1>4, <1>5 DEF HeldIsKnown
<1>7. held <= size \/ held <= old
  BY <1>1 DEF HeldIsKnown, Most
<1>8. QED
  BY <1>1, <1>3, <1>4, <1>6, <1>7

\* An attempt appends whole chunks or the rest of the file.  When it leaves nothing to
\* send, the client holds the file, or at least the chunks the server counted, or its
\* own file looks as long as the server's.
LEMMA AttemptKeeps ==
    ASSUME HeldIsKnown, Attempt
    PROVE  /\ HeldIsKnown'
           /\ done' => \/ held' = Most(size, old)
                       \/ ChunksOf(size) * ChunkSize <= held'
                       \/ held' = old /\ Float(size) <= Float(old)
<1> DEFINE n == ChunksOf(size)
           start == IF held > 0 THEN ChunksHeld(held) ELSE 0
<1>1. /\ size \in Nat /\ old \in Nat /\ held \in Nat /\ ChunkSize \in Nat /\ ChunkSize > 0
      /\ InRange(size) /\ InRange(old) /\ InRange(held)
  BY HeldInRange, ChunkCountAssumption
<1>2. n \in Nat /\ Float(size) <= n * ChunkSize
  BY <1>1, ChunksCover
<1>3. PICK stop \in {start, 1, n - 1, n} :
         /\ start <= stop /\ (stop = start \/ stop <= n)
         /\ held' = IF stop = start THEN held
                    ELSE Most(held, Least(size, stop * ChunkSize))
         /\ done' = (stop >= n)
         /\ size' = size /\ old' = old
  BY DEF Attempt
<1>4. ASSUME Whole(held) PROVE start * ChunkSize = held
  <2>1. PICK k \in Nat : held = k * ChunkSize
    BY <1>4 DEF Whole
  <2>2. ChunksHeld(held) = k
    BY <1>1, <2>1, WholeIsExact
  <2>3. CASE held > 0
    BY <2>1, <2>2, <2>3
  <2>4. CASE ~(held > 0)
    BY <1>1, <2>4
  <2>5. QED
    BY <2>3, <2>4
<1>5. start \in Nat /\ start * ChunkSize <= Float(held)
  <2>1. Float(held) \in Nat
    BY <1>1, FloatNear
  <2>2. QED
    BY <1>1, <2>1, HeldFits
<1> HIDE DEF n, start
<1>6. stop \in Nat
  BY <1>2, <1>3, <1>5
<1> DEFINE b == stop * ChunkSize
           c == n * ChunkSize
<1>7. b \in Nat /\ c \in Nat /\ Whole(b)
  BY <1>1, <1>2, <1>6, ProductType DEF Whole
<1>8. stop = n => b = c
  OBVIOUS
<1>9. stop >= n => c <= b
  <2>1. SUFFICES ASSUME stop >= n, stop # n PROVE c <= b
    BY <1>7, <1>8
  <2>2. n < stop
    BY <1>2, <1>6, <2>1
  <2>3. n * ChunkSize + ChunkSize <= stop * ChunkSize
    BY <1>1, <1>2, <1>6, <2>2, ProductGrows
  <2>4. QED
    BY <1>1, <1>7, <2>3
<1>10. stop = start => b <= Float(held) /\ (Whole(held) => b = held)
  BY <1>4, <1>5
<1>11. Float(size) <= c
  BY <1>2
<1>12. held' = IF stop = start THEN held ELSE Most(held, Least(size, b))
  BY <1>3
<1> HIDE DEF b, c
<1>13. HeldIsKnown'
  <2>1. held' \in Nat /\ old <= held' /\ held' <= Most(size, old)
    BY <1>1, <1>7, <1>12 DEF HeldIsKnown, Most, Least
  <2>2. held' \in {held, size, b}
    BY <1>12 DEF Most, Least
  <2>3. held' = old \/ held' = size \/ Whole(held')
    BY <1>7, <2>2 DEF HeldIsKnown
  <2>4. QED
    BY <1>3, <2>1, <2>3 DEF HeldIsKnown, Whole, Most
<1>14. ASSUME done'
       PROVE  \/ held' = Most(size, old)
              \/ c <= held'
              \/ held' = old /\ Float(size) <= Float(old)
  <2>1. stop >= n
    BY <1>3, <1>14
  <2>2. CASE stop # start
    <3>1. stop = n /\ held' = Most(held, Least(size, c))
      BY <1>2, <1>3, <1>6, <1>8, <1>12, <2>1, <2>2
    <3>2. QED
      BY <1>1, <1>7, <3>1 DEF HeldIsKnown, Most, Least
  <2>3. CASE stop = start
    <3>1. held' = held /\ c <= b
      BY <1>9, <1>12, <2>1, <2>3
    <3>2. CASE Whole(held)
      BY <1>1, <1>7, <1>10, <2>3, <3>1, <3>2
    <3>3. CASE held = size
      BY <1>1, <3>1, <3>3 DEF HeldIsKnown, Most
    <3>4. CASE held = old
      <4>1. Float(size) \in Nat /\ Float(held) \in Nat
        BY <1>1, FloatNear
      <4>2. Float(size) <= Float(held)
        BY <1>7, <1>10, <1>11, <2>3, <3>1, <4>1
      <4>3. QED
        BY <3>1, <3>4, <4>2
    <3>5. QED
      BY <3>2, <3>3, <3>4 DEF HeldIsKnown
  <2>4. QED
    BY <2>2, <2>3
<1>15. QED
  BY <1>13, <1>14 DEF n, c

\* A smaller file has no larger distance of floats.
LEMMA UlpGrows ==
    ASSUME NEW x, NEW y, InRange(x), InRange(y), x <= y
    PROVE  Ulp(x) <= Ulp(y)
<1>1. x \in Nat /\ y \in Nat /\ Exact \in Nat
  BY ChunkCountAssumption DEF InRange
<1> DEFINE u == Ulp(x)
           v == Ulp(y)
<1>2. /\ u \in Nat /\ v \in Ulps /\ v \in Nat
      /\ \A w \in Ulps : w < u => x >= Exact * w
      /\ y < Exact * v
  BY UlpIs
<1> HIDE DEF u, v
<1>3. Exact * v \in Nat
  BY <1>1, <1>2, ProductType
<1>4. ~(v < u)
  BY <1>1, <1>2, <1>3
<1>5. QED
  BY <1>2, <1>4 DEF u, v

\* So at most what rounding cost is missing.
LEMMA RestIsSmall ==
    ASSUME HeldIsKnown, held # Most(size, old),
           \/ ChunksOf(size) * ChunkSize <= held
           \/ held = old /\ Float(size) <= Float(old)
    PROVE  /\ size > Exact
           /\ \/ held % ChunkSize = 0 /\ 2 * (size - held) <= Ulp(size)
              \/ held = old /\ size - held <= Ulp(size)
<1> DEFINE c == ChunksOf(size) * ChunkSize
           f == Float(size)
           g == Float(old)
           u == Ulp(size)
           w == Ulp(old)
<1>1. /\ size \in Nat /\ old \in Nat /\ held \in Nat
      /\ InRange(size) /\ InRange(old)
      /\ Exact \in Nat /\ ChunkSize \in Nat /\ ChunkSize > 0
  BY HeldInRange, ChunkCountAssumption
<1>2. held < size /\ old <= held
  BY <1>1 DEF HeldIsKnown, Most
<1>3. /\ f \in Nat /\ g \in Nat /\ u \in Nat /\ w \in Nat /\ c \in Nat
      /\ f <= c /\ 2 * (size - f) <= u /\ 2 * (g - old) <= w
  BY <1>1, FloatNear, UlpIs, ChunksCover, ProductType
<1>4. (size <= Exact => f = size) /\ (old <= Exact => g = old)
  BY <1>1, SmallIsExact
<1>5. w <= u
  BY <1>1, <1>2, UlpGrows
<1>6. c <= held \/ (held = old /\ f <= g)
  OBVIOUS
<1>7. Whole(held) => held % ChunkSize = 0
  BY <1>1, MultipleDivides DEF Whole
<1>8. held = old \/ Whole(held)
  BY <1>1, <1>2 DEF HeldIsKnown
<1> HIDE DEF c, f, g, u, w
<1>9. CASE c <= held
  <2>1. size > Exact /\ 2 * (size - held) <= u /\ size - held <= u
    BY <1>1, <1>2, <1>3, <1>4, <1>9
  <2>2. QED
    BY <1>7, <1>8, <2>1 DEF u
<1>10. CASE held = old /\ f <= g
  <2>1. size > Exact
    BY <1>1, <1>2, <1>3, <1>4, <1>10
  <2>2. size - held <= u
    BY <1>1, <1>2, <1>3, <1>5, <1>10
  <2>3. QED
    BY <1>10, <2>1, <2>2 DEF u
<1>11. QED
  BY <1>6, <1>9, <1>10

\* The inductive invariant of the attempts.
CountInv == HeldIsKnown /\ EndIsThere

\* It holds for files of every size in range.
THEOREM CountInvariant == CountSpec => []CountInv
<1>1. CountInit => CountInv
  <2>1. SUFFICES ASSUME CountInit PROVE CountInv
    OBVIOUS
  <2>2. size \in Nat /\ old \in Nat
    BY <2>1, ChunkCountAssumption DEF CountInit
  <2>3. old <= old /\ old <= Most(size, old)
    BY <2>2 DEF Most
  <2>4. QED
    BY <2>1, <2>2, <2>3 DEF CountInit, CountInv, HeldIsKnown, EndIsThere
<1>2. CountInv /\ [Attempt]_countVars => CountInv'
  <2>1. SUFFICES ASSUME CountInv, [Attempt]_countVars PROVE CountInv'
    OBVIOUS
  <2>2. CASE Attempt
    <3>1. /\ HeldIsKnown' /\ size' = size /\ old' = old
          /\ done' => \/ held' = Most(size, old)
                      \/ ChunksOf(size) * ChunkSize <= held'
                      \/ held' = old /\ Float(size) <= Float(old)
      BY <2>1, <2>2, AttemptKeeps DEF CountInv, Attempt
    <3>2. (HeldIsKnown /\ held # Most(size, old)
             /\ (\/ ChunksOf(size) * ChunkSize <= held
                 \/ held = old /\ Float(size) <= Float(old))
             => /\ size > Exact
                /\ \/ held % ChunkSize = 0 /\ 2 * (size - held) <= Ulp(size)
                   \/ held = old /\ size - held <= Ulp(size))'
      BY RestIsSmall, PTL
    <3>3. QED
      BY <3>1, <3>2 DEF CountInv, EndIsThere
  <2>3. CASE UNCHANGED countVars
    BY <2>1, <2>3 DEF countVars, CountInv, HeldIsKnown, Whole, EndIsThere
  <2>4. QED
    BY <2>1, <2>2, <2>3
<1>3. QED
  BY <1>1, <1>2, PTL DEF CountSpec

\* EndIsThere: when nothing is left to send, the client has the whole file, or all but
\* the bytes that rounding hides, whatever file it had before.
THEOREM EndOfFileArrives == CountSpec => []EndIsThere
<1>1. CountInv => EndIsThere
  BY DEF CountInv
<1>2. QED
  BY <1>1, CountInvariant, PTL

\* NoGap: no attempt resumes beyond the bytes that earlier attempts left; beyond a file
\* of another origin only by what rounding its size up adds.
THEOREM NeverResumesBeyond == CountSpec => []NoGap
<1>1. CountInv => NoGap
  <2> DEFINE k == ChunksHeld(held)
             from == k * ChunkSize
  <2>1. SUFFICES ASSUME HeldIsKnown, held > 0, k < ChunksOf(size)
                 PROVE  \/ from <= held
                        \/ held = old /\ held > Exact /\ 2 * (from - held) <= Ulp(held)
    BY DEF CountInv, NoGap
  <2>2. /\ held \in Nat /\ Exact \in Nat
        /\ InRange(held) /\ InRange(size)
    BY <2>1, HeldInRange, ChunkCountAssumption
  <2>3. /\ k \in Nat /\ from \in Nat /\ from <= Float(held) /\ Float(held) \in Nat
        /\ Ulp(held) \in Nat
    BY <2>2, HeldFits, FloatNear, UlpIs, ProductType, ChunkCountAssumption
  <2>4. from < Float(held) => from <= held
    BY <2>2, <2>3, BelowFloat
  <2>5. 2 * (Float(held) - held) <= Ulp(held) /\ (held <= Exact => Float(held) = held)
    BY <2>2, FloatNear, SmallIsExact
  <2>6. Whole(held) => from = held
    BY <2>2, WholeIsExact DEF Whole
  <2>7. from < Float(size)
    BY <2>1, <2>2, <2>3, ChunksNeeded
  <2> HIDE DEF k, from
  <2>8. CASE Whole(held)
    BY <2>2, <2>6, <2>8
  <2>9. CASE held = size
    BY <2>4, <2>7, <2>9
  <2>10. CASE held = old
    BY <2>2, <2>3, <2>4, <2>5, <2>10
  <2>11. QED
    BY <2>1, <2>8, <2>9, <2>10 DEF HeldIsKnown
<1>2. QED
  BY <1>1, CountInvariant, PTL
-----------------------------------------------------------------------------
(* Paths: the names that no ".." takes back *)

\* A set of numbers between 1 and n is finite and, if there is one, has a largest.
LEMMA Bounded ==
    ASSUME NEW n \in Nat, NEW T \in SUBSET (1..n)
    PROVE  /\ IsFiniteSet(T) /\ Cardinality(T) \in Nat
           /\ T # {} => \E m \in T : \A j \in T : j <= m
<1>1. IsFiniteSet(1..n)
  BY FS_Interval
<1>2. IsFiniteSet(T) /\ Cardinality(T) \in Nat
  BY <1>1, FS_Subset, FS_CardinalityType
<1>3. ASSUME T # {} PROVE \E m \in T : \A j \in T : j <= m
  <2> DEFINE U == {x \in Nat : n - x \in T}
  <2>1. U \in SUBSET Nat
    OBVIOUS
  <2>2. \A t \in T : n - t \in U
    <3>1. SUFFICES ASSUME NEW t \in T PROVE n - t \in Nat /\ n - (n - t) \in T
      OBVIOUS
    <3>2. t \in 1..n
      OBVIOUS
    <3>3. n - t \in Nat /\ n - (n - t) = t
      BY <3>2
    <3>4. QED
      BY <3>3
  <2>3. U # {}
    BY <1>3, <2>2
  <2> HIDE DEF U
  <2>4. PICK x \in U : \A y \in U : x <= y
    BY <2>1, <2>3, Smallest
  <2>5. n - x \in T /\ x \in Nat
    BY DEF U
  <2>6. \A j \in T : x <= n - j /\ j \in 1..n
    BY <2>2, <2>4
  <2>7. \A j \in T : j <= n - x
    BY <2>5, <2>6
  <2>8. QED
    BY <2>5, <2>7
<1>4. QED
  BY <1>2, <1>3

\* Counting one component more.
LEMMA CountNext ==
    ASSUME NEW S, NEW i \in Nat, NEW n \in Nat, 1 <= i, i <= n + 1
    PROVE  /\ Count(i, n, S) \in Nat
           /\ Count(i, n + 1, S) = Count(i, n, S) + (IF input[n + 1] \in S THEN 1 ELSE 0)
<1> DEFINE A == {k \in i..n : input[k] \in S}
           B == {k \in i..(n + 1) : input[k] \in S}
<1>1. A \in SUBSET (1..n) /\ n + 1 \notin A
  OBVIOUS
<1>2. B = IF input[n + 1] \in S THEN A \cup {n + 1} ELSE A
  OBVIOUS
<1>3. Count(i, n, S) = Cardinality(A) /\ Count(i, n + 1, S) = Cardinality(B)
  BY DEF Count
<1> HIDE DEF A, B
<1>4. IsFiniteSet(A) /\ Cardinality(A) \in Nat
  BY <1>1, Bounded
<1>5. Cardinality(A \cup {n + 1}) = Cardinality(A) + 1
  BY <1>1, <1>4, FS_AddElement
<1>6. QED
  BY <1>2, <1>3, <1>4, <1>5

\* Nothing is counted in an empty range.
LEMMA CountNone ==
    ASSUME NEW S, NEW n \in Nat
    PROVE  Count(n + 1, n, S) = 0
<1>1. {k \in (n + 1)..n : input[k] \in S} = {}
  OBVIOUS
<1>2. QED
  BY <1>1, FS_EmptySet DEF Count

\* From a surviving name on, there are as many more names than ".."s as names survive.
Balance(n) ==
    \A i \in Surviving(n) :
        Count(i, n, Names) = Count(i, n, {".."}) + Cardinality({j \in Surviving(n) : j >= i})

\* Survivors after one component more: those before it that still survive, and the
\* component if it is a name.
LEMMA SurvivingNext ==
    ASSUME NEW n \in Nat
    PROVE  Surviving(n + 1) =
             {i \in Surviving(n) : Count(i, n + 1, Names) > Count(i, n + 1, {".."})}
               \cup (IF input[n + 1] \in Names THEN {n + 1} ELSE {})
<1>1. ASSUME NEW i \in 1..n
      PROVE  i \in Surviving(n + 1)
               <=> i \in Surviving(n) /\ Count(i, n + 1, Names) > Count(i, n + 1, {".."})
  <2>1. \A j : j \in i..(n + 1) <=> j \in i..n \/ j = n + 1
    OBVIOUS
  <2>2. i \in 1..(n + 1)
    OBVIOUS
  <2>3. QED
    BY <2>1, <2>2 DEF Surviving
<1>2. n + 1 \in Surviving(n + 1) <=> input[n + 1] \in Names
  <2>1. \A j : j \in (n + 1)..(n + 1) <=> j = n + 1
    OBVIOUS
  <2>2. n + 1 \in 1..(n + 1) /\ n + 1 \in Nat /\ 1 <= n + 1 /\ n + 1 <= n + 1
    OBVIOUS
  <2>3. ".." \notin Names
    BY PathsAssumption
  <2>4. input[n + 1] \in Names =>
           Count(n + 1, n + 1, Names) = 1 /\ Count(n + 1, n + 1, {".."}) = 0
    BY <2>2, <2>3, CountNext, CountNone
  <2>5. QED
    BY <2>1, <2>2, <2>4 DEF Surviving
<1>3. Surviving(n) \subseteq 1..n /\ Surviving(n + 1) \subseteq 1..(n + 1)
  BY DEF Surviving
<1>4. \A i : i \in 1..(n + 1) <=> i \in 1..n \/ i = n + 1
  OBVIOUS
<1>5. n + 1 \notin 1..n
  OBVIOUS
<1> DEFINE A == {i \in Surviving(n) : Count(i, n + 1, Names) > Count(i, n + 1, {".."})}
           B == IF input[n + 1] \in Names THEN {n + 1} ELSE {}
<1>6. A \subseteq 1..n /\ \A i \in 1..n : i \in Surviving(n + 1) <=> i \in A
  BY <1>1, <1>3
<1>7. \A i : i \in B <=> i = n + 1 /\ n + 1 \in Surviving(n + 1)
  BY <1>2
<1> HIDE DEF A, B
<1>8. \A i : i \in Surviving(n + 1) <=> i \in A \cup B
  BY <1>3, <1>4, <1>5, <1>6, <1>7
<1>9. QED
  BY <1>8 DEF A, B

\* The survivors from i on, and up to i.
From(n, i) == {j \in Surviving(n) : j >= i}

UpTo(n, i) == {j \in Surviving(n) : j <= i}

\* How many they are.
LEMMA SurvivorCounts ==
    ASSUME NEW n \in Nat, NEW i \in Surviving(n)
    PROVE  /\ i \in 1..n /\ i \in From(n, i) /\ i \in UpTo(n, i)
           /\ IsFiniteSet(From(n, i)) /\ Cardinality(From(n, i)) \in Nat \ {0}
           /\ IsFiniteSet(UpTo(n, i)) /\ Cardinality(UpTo(n, i)) \in Nat \ {0}
           /\ Count(i, n, Names) \in Nat /\ Count(i, n, {".."}) \in Nat
           /\ Count(i, n + 1, Names)
                = Count(i, n, Names) + (IF input[n + 1] \in Names THEN 1 ELSE 0)
           /\ Count(i, n + 1, {".."})
                = Count(i, n, {".."}) + (IF input[n + 1] = ".." THEN 1 ELSE 0)
<1>1. i \in 1..n /\ Surviving(n) \subseteq 1..n
  BY DEF Surviving
<1>2. i \in From(n, i) /\ i \in UpTo(n, i)
  BY <1>1 DEF From, UpTo
<1>3. From(n, i) \in SUBSET (1..n) /\ UpTo(n, i) \in SUBSET (1..n)
  BY <1>1 DEF From, UpTo
<1>4. /\ IsFiniteSet(From(n, i)) /\ Cardinality(From(n, i)) \in Nat
      /\ IsFiniteSet(UpTo(n, i)) /\ Cardinality(UpTo(n, i)) \in Nat
  BY <1>3, Bounded
<1>5. Cardinality(From(n, i)) # 0 /\ Cardinality(UpTo(n, i)) # 0
  BY <1>2, <1>4, FS_EmptySet
<1>6. i \in Nat /\ 1 <= i /\ i <= n + 1
  BY <1>1
<1>7. /\ Count(i, n, Names) \in Nat /\ Count(i, n, {".."}) \in Nat
      /\ Count(i, n + 1, Names)
           = Count(i, n, Names) + (IF input[n + 1] \in Names THEN 1 ELSE 0)
      /\ Count(i, n + 1, {".."})
           = Count(i, n, {".."}) + (IF input[n + 1] \in {".."} THEN 1 ELSE 0)
  BY <1>6, CountNext
<1>8. QED
  BY <1>1, <1>2, <1>4, <1>5, <1>7

\* A component that is left out takes nothing back.
LEMMA AfterSkipped ==
    ASSUME NEW n \in Nat, Balance(n), input[n + 1] \notin Names, input[n + 1] # ".."
    PROVE  Surviving(n + 1) = Surviving(n) /\ Balance(n + 1)
<1>1. ASSUME NEW i \in Surviving(n)
      PROVE  /\ Count(i, n + 1, Names) = Count(i, n, Names)
             /\ Count(i, n + 1, {".."}) = Count(i, n, {".."})
             /\ Count(i, n, Names) > Count(i, n, {".."})
  <2>1. Count(i, n, Names) = Count(i, n, {".."}) + Cardinality(From(n, i))
    BY DEF Balance, From
  <2>2. QED
    BY <2>1, SurvivorCounts
<1>2. Surviving(n + 1) = Surviving(n)
  BY <1>1, SurvivingNext
<1>3. QED
  BY <1>1, <1>2 DEF Balance

\* A name survives, with all that did before it.
LEMMA AfterName ==
    ASSUME NEW n \in Nat, Balance(n), input[n + 1] \in Names
    PROVE  Surviving(n + 1) = Surviving(n) \cup {n + 1} /\ Balance(n + 1)
<1>1. ".." \notin Names
  BY PathsAssumption
<1>2. ASSUME NEW i \in Surviving(n)
      PROVE  /\ Count(i, n + 1, Names) = Count(i, n, Names) + 1
             /\ Count(i, n + 1, {".."}) = Count(i, n, {".."})
             /\ Count(i, n, Names) = Count(i, n, {".."}) + Cardinality(From(n, i))
             /\ Count(i, n + 1, Names) > Count(i, n + 1, {".."})
             /\ i \in 1..n /\ Count(i, n, {".."}) \in Nat /\ Cardinality(From(n, i)) \in Nat
             /\ IsFiniteSet(From(n, i))
  <2>1. /\ Count(i, n + 1, Names) = Count(i, n, Names) + 1
        /\ Count(i, n + 1, {".."}) = Count(i, n, {".."})
    BY <1>1, SurvivorCounts
  <2>2. Count(i, n, Names) = Count(i, n, {".."}) + Cardinality(From(n, i))
    BY DEF Balance, From
  <2>3. QED
    BY <2>1, <2>2, SurvivorCounts
<1>3. Surviving(n + 1) = Surviving(n) \cup {n + 1}
  BY <1>2, SurvivingNext
<1>4. Surviving(n) \subseteq 1..n /\ n + 1 \notin 1..n
  BY DEF Surviving
<1>5. ASSUME NEW i \in Surviving(n + 1)
      PROVE  Count(i, n + 1, Names) = Count(i, n + 1, {".."}) + Cardinality(From(n + 1, i))
  <2>1. CASE i \in Surviving(n)
    <3>1. From(n + 1, i) = From(n, i) \cup {n + 1} /\ n + 1 \notin From(n, i)
      BY <1>2, <1>3, <1>4, <2>1 DEF From
    <3>2. Cardinality(From(n + 1, i)) = Cardinality(From(n, i)) + 1
      BY <1>2, <2>1, <3>1, FS_AddElement
    <3>3. QED
      BY <1>2, <2>1, <3>2
  <2>2. CASE i = n + 1
    <3>1. From(n + 1, i) = {n + 1}
      BY <1>3, <1>4, <2>2 DEF From
    <3>2. Cardinality(From(n + 1, i)) = 1
      BY <3>1, FS_Singleton
    <3>3. n + 1 \in Nat /\ 1 <= n + 1 /\ n + 1 <= n + 1
      OBVIOUS
    <3>4. Count(i, n + 1, Names) = 1 /\ Count(i, n + 1, {".."}) = 0
      BY <1>1, <2>2, <3>3, CountNext, CountNone
    <3>5. QED
      BY <3>2, <3>4
  <2>3. QED
    BY <1>3, <2>1, <2>2
<1>6. QED
  BY <1>3, <1>5 DEF Balance, From

\* A ".." takes back the last survivor, if there is one.
LEMMA AfterDots ==
    ASSUME NEW n \in Nat, Balance(n), input[n + 1] = ".."
    PROVE  /\ \/ Surviving(n) = {} /\ Surviving(n + 1) = {}
              \/ \E m \in Surviving(n) : /\ \A j \in Surviving(n) : j <= m
                                         /\ Surviving(n + 1) = Surviving(n) \ {m}
           /\ Balance(n + 1)
<1>1. ".." \notin Names
  BY PathsAssumption
<1>2. Surviving(n + 1)
        = {i \in Surviving(n) : Count(i, n + 1, Names) > Count(i, n + 1, {".."})}
  BY <1>1, SurvivingNext
<1>3. CASE Surviving(n) = {}
  BY <1>2, <1>3 DEF Balance
<1>4. CASE Surviving(n) # {}
  <2>1. Surviving(n) \in SUBSET (1..n)
    BY DEF Surviving
  <2>2. PICK m \in Surviving(n) : \A j \in Surviving(n) : j <= m
    BY <1>4, <2>1, Bounded
  <2>3. ASSUME NEW i \in Surviving(n)
        PROVE  /\ Count(i, n + 1, Names) = Count(i, n + 1, {".."}) - 1 + Cardinality(From(n, i))
               /\ Count(i, n + 1, {".."}) \in Nat
               /\ i \in 1..n /\ i <= m /\ m \in From(n, i)
               /\ IsFiniteSet(From(n, i)) /\ Cardinality(From(n, i)) \in Nat \ {0}
               /\ Cardinality(From(n, i) \ {m}) = Cardinality(From(n, i)) - 1
    <3>1. Count(i, n, Names) = Count(i, n, {".."}) + Cardinality(From(n, i))
      BY DEF Balance, From
    <3>2. i <= m /\ m \in From(n, i)
      BY <2>1, <2>2 DEF From
    <3>3. Cardinality(From(n, i) \ {m}) = Cardinality(From(n, i)) - 1
      BY <3>2, SurvivorCounts, FS_RemoveElement
    <3>4. /\ Count(i, n + 1, Names) = Count(i, n, Names)
          /\ Count(i, n + 1, {".."}) = Count(i, n, {".."}) + 1
      BY <1>1, SurvivorCounts
    <3>5. QED
      BY <3>1, <3>2, <3>3, <3>4, SurvivorCounts
  <2>4. ASSUME NEW i \in Surviving(n)
        PROVE  Cardinality(From(n, i)) > 1 <=> i # m
    <3>1. CASE i = m
      <4>1. From(n, i) = {m}
        BY <2>1, <2>2, <3>1 DEF From
      <4>2. QED
        BY <3>1, <4>1, FS_Singleton
    <3>2. CASE i # m
      <4>1. i \in From(n, i) \ {m}
        BY <3>2, SurvivorCounts
      <4>2. IsFiniteSet(From(n, i) \ {m})
        BY <2>3, FS_RemoveElement
      <4>3. Cardinality(From(n, i) \ {m}) # 0
        BY <4>1, <4>2, FS_EmptySet
      <4>4. QED
        BY <2>3, <3>2, <4>3
    <3>3. QED
      BY <3>1, <3>2
  <2>5. ASSUME NEW i \in Surviving(n)
        PROVE  Count(i, n + 1, Names) > Count(i, n + 1, {".."}) <=> i # m
    <3>1. /\ Count(i, n + 1, Names) = Count(i, n + 1, {".."}) - 1 + Cardinality(From(n, i))
          /\ Count(i, n + 1, {".."}) \in Nat /\ Cardinality(From(n, i)) \in Nat \ {0}
      BY <2>3
    <3>2. Cardinality(From(n, i)) > 1 <=> i # m
      BY <2>4
    <3>3. QED
      BY <3>1, <3>2
  <2>6. Surviving(n + 1) = Surviving(n) \ {m}
    BY <1>2, <2>5
  <2>7. ASSUME NEW i \in Surviving(n + 1)
        PROVE  Count(i, n + 1, Names) = Count(i, n + 1, {".."}) + Cardinality(From(n + 1, i))
    <3>1. i \in Surviving(n) /\ From(n + 1, i) = From(n, i) \ {m}
      BY <2>6 DEF From
    <3>2. /\ Count(i, n + 1, Names) = Count(i, n + 1, {".."}) - 1 + Cardinality(From(n, i))
          /\ Count(i, n + 1, {".."}) \in Nat /\ Cardinality(From(n, i)) \in Nat \ {0}
          /\ Cardinality(From(n, i) \ {m}) = Cardinality(From(n, i)) - 1
      BY <2>3, <3>1
    <3>3. Cardinality(From(n + 1, i)) = Cardinality(From(n, i)) - 1
      BY <3>1, <3>2, Zenon
    <3>4. QED
      BY <3>2, <3>3
  <2>8. QED
    BY <2>2, <2>6, <2>7 DEF Balance, From
<1>5. QED
  BY <1>3, <1>4
-----------------------------------------------------------------------------
(* Paths: what normalize_path has written *)

\* The names written are the survivors of the components read, in their order.
Kept(names, n) ==
    /\ Len(names) = Cardinality(Surviving(n))
    /\ \A i \in Surviving(n) : names[Cardinality(UpTo(n, i))] = input[i]

\* One name more.
LEMMA KeptWithName ==
    ASSUME NEW names \in Seq(Names), NEW n \in Nat, Kept(names, n), input[n + 1] \in Names,
           Surviving(n + 1) = Surviving(n) \cup {n + 1}
    PROVE  Kept(Append(names, input[n + 1]), n + 1)
<1> DEFINE c == input[n + 1]
           more == Append(names, c)
<1>1. Surviving(n) \in SUBSET (1..n) /\ n + 1 \notin Surviving(n)
  BY DEF Surviving
<1>2. IsFiniteSet(Surviving(n)) /\ Cardinality(Surviving(n)) = Len(names) /\ Len(names) \in Nat
  BY <1>1, Bounded DEF Kept
<1>3. Cardinality(Surviving(n + 1)) = Len(names) + 1
  BY <1>1, <1>2, FS_AddElement
<1>4. /\ Len(more) = Len(names) + 1 /\ more[Len(names) + 1] = c
      /\ \A k \in 1..Len(names) : more[k] = names[k]
  OBVIOUS
<1> HIDE DEF more
<1>5. ASSUME NEW i \in Surviving(n)
      PROVE  more[Cardinality(UpTo(n + 1, i))] = input[i]
  <2>1. i \in 1..n /\ Cardinality(UpTo(n, i)) \in Nat \ {0}
    BY SurvivorCounts
  <2>2. UpTo(n + 1, i) = UpTo(n, i)
    BY <1>1, <2>1 DEF UpTo
  <2>3. UpTo(n, i) \in SUBSET Surviving(n)
    BY DEF UpTo
  <2>4. Cardinality(UpTo(n, i)) <= Len(names)
    BY <1>2, <2>3, FS_Subset
  <2>5. Cardinality(UpTo(n, i)) \in 1..Len(names)
    BY <1>2, <2>1, <2>4
  <2>6. QED
    BY <1>4, <2>2, <2>5 DEF Kept
<1>6. more[Cardinality(UpTo(n + 1, n + 1))] = c
  <2>1. UpTo(n + 1, n + 1) = Surviving(n + 1)
    BY <1>1 DEF UpTo
  <2>2. QED
    BY <1>3, <1>4, <2>1
<1>7. QED
  BY <1>3, <1>4, <1>5, <1>6 DEF Kept, more

\* The last name less.
LEMMA KeptWithoutLast ==
    ASSUME NEW names \in Seq(Names), NEW n \in Nat, Kept(names, n),
           NEW m \in Surviving(n), \A j \in Surviving(n) : j <= m,
           Surviving(n + 1) = Surviving(n) \ {m}
    PROVE  names # <<>> /\ Kept(Front(names), n + 1)
<1>1. Surviving(n) \in SUBSET (1..n)
  BY DEF Surviving
<1>2. /\ IsFiniteSet(Surviving(n)) /\ Cardinality(Surviving(n)) = Len(names)
      /\ Len(names) \in Nat
  BY <1>1, Bounded DEF Kept
<1>3. Cardinality(Surviving(n + 1)) = Len(names) - 1 /\ IsFiniteSet(Surviving(n + 1))
  BY <1>2, FS_RemoveElement
<1>4. Len(names) # 0
  BY <1>2, FS_EmptySet
<1>5. names # <<>>
  BY <1>4
<1>6. Len(Front(names)) = Len(names) - 1 /\ \A k \in 1..(Len(names) - 1) : Front(names)[k] = names[k]
  BY <1>2, <1>4 DEF Front
<1>7. ASSUME NEW i \in Surviving(n + 1)
      PROVE  Front(names)[Cardinality(UpTo(n + 1, i))] = input[i]
  <2>1. i \in Surviving(n) /\ i # m /\ m \in 1..n
    BY <1>1
  <2>2. i \in 1..n /\ Cardinality(UpTo(n, i)) \in Nat \ {0} /\ i <= m
    BY <2>1, SurvivorCounts
  <2>3. UpTo(n + 1, i) = UpTo(n, i)
    BY <1>1, <2>1, <2>2 DEF UpTo
  <2>4. UpTo(n, i) \in SUBSET Surviving(n + 1)
    BY <2>3 DEF UpTo
  <2>5. Cardinality(UpTo(n, i)) <= Len(names) - 1
    BY <1>3, <2>4, FS_Subset
  <2>6. Cardinality(UpTo(n, i)) \in 1..(Len(names) - 1)
    BY <1>2, <2>2, <2>5
  <2>7. names[Cardinality(UpTo(n, i))] = input[i]
    BY <2>1 DEF Kept
  <2>8. QED
    BY <1>6, <2>3, <2>6, <2>7
<1>8. QED
  BY <1>3, <1>5, <1>6, <1>7 DEF Kept

\* The inductive invariant of normalize_path, next to PathsInv.
Normalizing ==
    /\ Balance(p)
    /\ absolute \/ StaysInside(p) => out \in Seq(Names) /\ Kept(out, p)

\* One component keeps it.
LEMMA ComponentNormalizes ==
    ASSUME PathsInv, Normalizing, Component
    PROVE  Normalizing'
<1> DEFINE c == input[p + 1]
<1>1. /\ input \in Seq(Components) /\ p \in Nat /\ p + 1 \in 1..Len(input)
      /\ p' = p + 1 /\ input' = input /\ absolute' = absolute
  BY DEF Component, PathsInv, PathsTypeOK
<1>2. c \in Components
  BY <1>1
<1>3. Balance(p)
  BY DEF Normalizing
<1>4. ".." \notin Names /\ "" \notin Names /\ "." \notin Names
  BY PathsAssumption
<1>5. Balance(p + 1)
  BY <1>1, <1>2, <1>3, AfterSkipped, AfterName, AfterDots DEF Components
<1>6. ASSUME absolute \/ StaysInside(p + 1)
      PROVE  out' \in Seq(Names) /\ Kept(out', p + 1)
  <2>1. absolute \/ (StaysInside(p) /\ (c = ".." => Surviving(p) # {}))
    <3>1. \A j \in 1..p : j \in 1..(p + 1)
      BY <1>1
    <3>2. p + 1 \in 1..(p + 1) /\ (p + 1) - 1 = p
      BY <1>1
    <3>3. QED
      BY <1>6, <3>1, <3>2 DEF StaysInside
  <2>2. out \in Seq(Names) /\ Kept(out, p)
    BY <2>1 DEF Normalizing
  <2>3. CASE c \in Skipped /\ out' = out
    <3>1. Surviving(p + 1) = Surviving(p)
      BY <1>1, <1>3, <1>4, <2>3, AfterSkipped DEF Skipped
    <3>2. QED
      BY <2>2, <2>3, <3>1 DEF Kept, UpTo
  <2>4. CASE c = ".." /\ Up
    <3>1. \/ Surviving(p) = {} /\ Surviving(p + 1) = {}
          \/ \E m \in Surviving(p) : /\ \A j \in Surviving(p) : j <= m
                                     /\ Surviving(p + 1) = Surviving(p) \ {m}
      BY <1>1, <1>3, <2>4, AfterDots
    <3>2. CASE Surviving(p) = {} /\ Surviving(p + 1) = {}
      <4>1. out = <<>> /\ absolute
        BY <2>1, <2>2, <2>4, <3>2, FS_EmptySet DEF Kept
      <4>2. out' = <<>>
        BY <2>4, <4>1 DEF Up
      <4>3. Kept(<<>>, p + 1) /\ <<>> \in Seq(Names)
        BY <3>2, FS_EmptySet DEF Kept
      <4>4. QED
        BY <4>2, <4>3
    <3>3. CASE \E m \in Surviving(p) : /\ \A j \in Surviving(p) : j <= m
                                       /\ Surviving(p + 1) = Surviving(p) \ {m}
      <4>1. out # <<>> /\ Kept(Front(out), p + 1)
        BY <1>1, <2>2, <3>3, KeptWithoutLast
      <4>2. Front(out) \in Seq(Names)
        BY <2>2, <4>1, FrontType
      <4>3. out' = Front(out)
        BY <2>4, <4>1 DEF Up
      <4>4. QED
        BY <4>1, <4>2, <4>3
    <3>4. QED
      BY <3>1, <3>2, <3>3
  <2>5. CASE c \notin Skipped \cup {".."} /\ out' = Append(out, c)
    <3>1. c \in Names
      BY <1>2, <2>5 DEF Components, Skipped
    <3>2. Surviving(p + 1) = Surviving(p) \cup {p + 1}
      BY <1>1, <1>3, <3>1, AfterName
    <3>3. Kept(Append(out, c), p + 1) /\ Append(out, c) \in Seq(Names)
      BY <1>1, <2>2, <3>1, <3>2, KeptWithName
    <3>4. QED
      BY <2>5, <3>3
  <2>6. QED
    BY <2>3, <2>4, <2>5 DEF Component
<1>7. /\ Balance(p)' = Balance(p + 1)
      /\ StaysInside(p)' = StaysInside(p + 1)
      /\ Kept(out, p)' = Kept(out', p + 1)
  BY <1>1 DEF Balance, Kept, UpTo, StaysInside, Surviving, Count
<1>8. QED
  BY <1>1, <1>5, <1>6, <1>7 DEF Normalizing

\* KeepsWhatSurvives: normalize_path computes what its reference definition says, for
\* every absolute path and every relative one that stays below where it starts.
THEOREM NormalizesRight == PathsSpec => []KeepsWhatSurvives
<1>1. PathsInit => Normalizing
  <2>1. SUFFICES ASSUME PathsInit PROVE Normalizing
    OBVIOUS
  <2>2. p = 0 /\ out = <<>>
    BY <2>1 DEF PathsInit
  <2>3. Surviving(0) = {}
    BY DEF Surviving
  <2>4. <<>> \in Seq(Names) /\ Len(<<>>) = 0
    OBVIOUS
  <2>5. QED
    BY <2>2, <2>3, <2>4, FS_EmptySet DEF Normalizing, Balance, Kept
<1>2. PathsInv /\ Normalizing /\ [PathsNext]_pathVars => Normalizing'
  <2>1. SUFFICES ASSUME PathsInv, Normalizing, [PathsNext]_pathVars PROVE Normalizing'
    OBVIOUS
  <2>2. CASE UNCHANGED <<input, absolute, p, out>>
    <3>1. /\ Balance(p)' = Balance(p)
          /\ StaysInside(p)' = StaysInside(p)
          /\ Kept(out, p)' = Kept(out, p)
      BY <2>2 DEF Balance, Kept, UpTo, StaysInside, Surviving, Count
    <3>2. QED
      BY <2>1, <2>2, <3>1 DEF Normalizing
  <2>3. QED
    BY <2>1, <2>2, ComponentNormalizes DEF PathsNext, Check, MakeDir, Made, pathVars
<1>3. Normalizing => KeepsWhatSurvives
  BY DEF Normalizing, Kept, UpTo, KeepsWhatSurvives
<1>4. QED
  BY <1>1, <1>2, <1>3, PathsInvariant, PTL DEF PathsSpec
=============================================================================
