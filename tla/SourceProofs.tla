---------------------------- MODULE SourceProofs ----------------------------
(***************************************************************************)
(* Proofs about what a job is made of: the modules staged beside it        *)
(* (ModuleGraph, any corpus and any imports), the vars its for heads get   *)
(* (Hoist, heads of any length), and the keys that stand for its source in *)
(* the two caches (Freshness, any jobs and ports and any number of edits). *)
(***************************************************************************)
EXTENDS ModuleGraph, Freshness, FiniteSetTheorems, SequenceTheorems,
        WellFoundedInduction, TLAPS

-----------------------------------------------------------------------------
(***************************************************************************)
(* Induction, without a predicate for a parameter.                         *)
(***************************************************************************)

\* A set of numbers that is not empty has a least element: induction, without
\* a predicate for a parameter.
LEMMA Least ==
    ASSUME NEW T \in SUBSET Nat, T # {}
    PROVE  \E x \in T : \A y \in T : x <= y
<1>1. IsWellFoundedOn(OpToRel(<, Nat), Nat)
  BY NatLessThanWellFounded
<1>2. PICK x \in T : \A y \in T : ~(<<y, x>> \in OpToRel(<, Nat))
  BY <1>1, WFMin
<1>3. \A y \in T : ~(y < x)
  BY <1>2 DEF OpToRel
<1> QED BY <1>3

\* Induction up to N, for what fails on the numbers of a set.
LEMMA UpTo ==
    ASSUME NEW N \in Nat, NEW T, T \subseteq 0..N, 0 \notin T,
           \A n \in 1..N : n \in T => n - 1 \in T
    PROVE  T = {}
<1> SUFFICES ASSUME T # {} PROVE FALSE
  OBVIOUS
<1>1. T \in SUBSET Nat
  OBVIOUS
<1>2. PICK x \in T : \A y \in T : x <= y
  BY <1>1, Least
<1>3. x \in 1..N /\ ~(x <= x - 1)
  OBVIOUS
<1> QED BY <1>2, <1>3

(***************************************************************************)
(* Paths.                                                                  *)
(***************************************************************************)

\* No component is "." or "..".
Plain(s) == \A n \in 1..Len(s) : s[n] \notin {".", ".."}

\* A path climbs if it begins with "..".
Ups(s) == s # <<>> /\ s[1] = ".."

\* u is the function Clean defines: u[n] is what the first n components lead to.
Cleans(u, path) ==
    u = [n \in 0..Len(path) |-> IF n = 0 THEN <<>> ELSE Into(u[n - 1], path[n])]

\* All but the last component, and the last.
LEMMA FrontFacts ==
    ASSUME NEW a \in Seq(STRING), a # <<>>
    PROVE  /\ Front(a) \in Seq(STRING) /\ Len(a) \in Nat \ {0} /\ Len(Front(a)) = Len(a) - 1
           /\ \A n \in 1..(Len(a) - 1) : Front(a)[n] = a[n]
           /\ Last(a) = a[Len(a)] /\ Last(a) \in STRING
<1>1. Len(a) \in Nat \ {0}
  OBVIOUS
<1>2. Front(a) = SubSeq(a, 1, Len(a) - 1)
  BY DEF Front
<1>3. Front(a) = [n \in 1..(Len(a) - 1) |-> a[n]]
  BY <1>1, <1>2
<1>4. \A n \in 1..(Len(a) - 1) : a[n] \in STRING
  BY <1>1
<1>5. Front(a) \in Seq(STRING) /\ Len(Front(a)) = Len(a) - 1
  BY <1>1, <1>3, <1>4
<1> QED BY <1>1, <1>3, <1>5 DEF Last

LEMMA IntoType ==
    ASSUME NEW a \in Seq(STRING), NEW c \in STRING PROVE Into(a, c) \in Seq(STRING)
<1>1. Append(a, c) \in Seq(STRING)
  BY AppendProperties
<1>2. CASE a # <<>>
  <2>1. Front(a) \in Seq(STRING)
    BY <1>2, FrontFacts
  <2> QED BY <1>1, <2>1, Zenon DEF Into
<1>3. CASE a = <<>>
  <2>1. Into(a, c) \in {a, Append(a, c)}
    BY <1>3, Zenon DEF Into
  <2> QED BY <1>1, <2>1
<1> QED BY <1>2, <1>3

\* No component leads back down.
LEMMA IntoUps ==
    ASSUME NEW a \in Seq(STRING), NEW c \in STRING, Ups(a) PROVE Ups(Into(a, c))
<1>1. CASE c = ".." /\ Last(a) # ".."
  <2>1. Len(a) > 1
    BY <1>1 DEF Ups, Last
  <2>2. Front(a) # <<>> /\ Front(a)[1] = a[1]
    <3>1. Len(Front(a)) = Len(a) - 1 /\ Front(a)[1] = a[1] /\ Front(a) \in Seq(STRING)
      BY <2>1, FrontFacts
    <3>2. Len(Front(a)) # 0
      BY <2>1, <3>1
    <3> QED BY <3>1, <3>2
  <2> QED BY <1>1, <2>2 DEF Into, Ups
<1>2. CASE c = "."
  BY <1>2 DEF Into
<1>3. CASE c # "." /\ ~(c = ".." /\ Last(a) # "..")
  <2>1. Into(a, c) = Append(a, c)
    BY <1>3 DEF Into
  <2> QED BY <2>1 DEF Ups
<1> QED BY <1>1, <1>2, <1>3

\* The same of a path below a directory.
LEMMA FrontOfConcat ==
    ASSUME NEW d \in Seq(STRING), NEW a \in Seq(STRING), a # <<>>
    PROVE  d \o a # <<>> /\ Last(d \o a) = Last(a) /\ Front(d \o a) = d \o Front(a)
BY DEF Last, Front

\* Sequences of one element, and elements at the end.
LEMMA Single == ASSUME NEW S, NEW e \in S PROVE <<e>> \in Seq(S)
OBVIOUS

LEMMA AppendToConcat ==
    ASSUME NEW d \in Seq(STRING), NEW a \in Seq(STRING), NEW c \in STRING
    PROVE  Append(d \o a, c) = d \o Append(a, c)
<1>1. d \o a \in Seq(STRING) /\ <<c>> \in Seq(STRING)
  <2>1. d \o a \in Seq(STRING)
    BY ConcatProperties
  <2>2. <<c>> \in Seq(STRING)
    BY Single
  <2> QED BY <2>1, <2>2
<1>2. Append(d \o a, c) = (d \o a) \o <<c>> /\ Append(a, c) = a \o <<c>>
  BY <1>1, AppendIsConcat
<1> QED BY <1>1, <1>2, ConcatAssociative

\* A component that does not climb leads down in any directory.
LEMMA IntoPlain ==
    ASSUME NEW a \in Seq(STRING), NEW c \in STRING, Plain(a), ~Ups(Into(a, c)),
           NEW d \in Seq(STRING)
    PROVE  Plain(Into(a, c)) /\ Into(d \o a, c) = d \o Into(a, c)
<1>1. CASE c = "."
  BY <1>1 DEF Into
<1>2. CASE c = ".."
  <2>1. a # <<>>
    <3> SUFFICES ASSUME a = <<>> PROVE FALSE
      OBVIOUS
    <3>1. Into(a, c) = <<c>>
      BY <1>2 DEF Into
    <3> QED BY <1>2, <3>1 DEF Ups
  <2>2. Len(a) \in 1..Len(a) /\ Last(a) # ".."
    BY <2>1 DEF Plain, Last
  <2>3. Into(a, c) = Front(a)
    BY <1>2, <2>1, <2>2 DEF Into
  <2>4. Into(d \o a, c) = Front(d \o a)
    BY <1>2, <2>1, <2>2, FrontOfConcat DEF Into
  <2>5. Plain(Front(a))
    BY <2>1 DEF Plain, Front
  <2> QED BY <2>1, <2>3, <2>4, <2>5, FrontOfConcat
<1>3. CASE c \notin {".", ".."}
  <2>1. Into(a, c) = Append(a, c) /\ Into(d \o a, c) = Append(d \o a, c)
    BY <1>3 DEF Into
  <2>2. Plain(Append(a, c))
    BY <1>3 DEF Plain
  <2>3. Append(d \o a, c) = d \o Append(a, c)
    BY AppendToConcat
  <2> QED BY <2>1, <2>2, <2>3
<1> QED BY <1>1, <1>2, <1>3

\* There is such a function, and Clean reads it.
LEMMA CleansExists ==
    ASSUME NEW path \in Seq(STRING) PROVE \E u : Cleans(u, path)
<1> DEFINE Upto(u, k) == u = [n \in 0..k |-> IF n = 0 THEN <<>> ELSE Into(u[n - 1], path[n])]
           T == {k \in 0..Len(path) : ~ \E u : Upto(u, k)}
<1>0. Len(path) \in Nat
  OBVIOUS
<1>1. 0 \notin T
  <2>1. Upto([n \in 0..0 |-> <<>>], 0)
    OBVIOUS
  <2> QED BY <2>1
<1>2. ASSUME NEW k \in 1..Len(path), k - 1 \notin T PROVE k \notin T
  <2>1. k - 1 \in 0..Len(path) /\ k \in Nat
    BY <1>0
  <2>2. PICK u : Upto(u, k - 1)
    BY <1>2, <2>1, Zenon
  <2> DEFINE g == [n \in 0..k |-> IF n = 0 THEN <<>> ELSE Into(u[n - 1], path[n])]
  <2>3. ASSUME NEW n \in 0..(k - 1) PROVE g[n] = u[n]
    <3>1. n \in 0..k
      BY <2>1
    <3> QED BY <2>2, <3>1, Zenon
  <2>4. ASSUME NEW n \in 0..k, n # 0 PROVE g[n - 1] = u[n - 1]
    <3>1. n - 1 \in 0..(k - 1)
      BY <2>1, <2>4
    <3> QED BY <2>3, <3>1, Zenon
  <2>5. ASSUME NEW n \in 0..k
        PROVE  (IF n = 0 THEN <<>> ELSE Into(u[n - 1], path[n]))
                  = (IF n = 0 THEN <<>> ELSE Into(g[n - 1], path[n]))
    BY <2>4, Zenon
  <2>6. Upto(g, k)
    BY <2>5, Zenon
  <2> QED BY <2>6, Zenon
<1> HIDE DEF Upto
<1>3. T = {}
  BY <1>0, <1>1, <1>2, UpTo
<1>4. Len(path) \notin T
  BY <1>3
<1>5. \E u : Upto(u, Len(path))
  BY <1>0, <1>4
<1> QED BY <1>5 DEF Cleans, Upto

LEMMA CleanIs ==
    ASSUME NEW path \in Seq(STRING)
    PROVE  \E u : Cleans(u, path) /\ Clean(path) = u[Len(path)]
<1> DEFINE u == CHOOSE u : Cleans(u, path)
<1>1. Cleans(u, path)
  BY CleansExists
<1>2. Clean(path) = u[Len(path)]
  BY Zenon DEF Clean, Cleans
<1> QED BY <1>1, <1>2

\* What the function says at each place.
LEMMA CleansAt ==
    ASSUME NEW path \in Seq(STRING), NEW u, Cleans(u, path)
    PROVE  /\ u[0] = <<>>
           /\ \A n \in 1..Len(path) : u[n] = Into(u[n - 1], path[n]) /\ path[n] \in STRING
           /\ \A n \in 0..Len(path) : u[n] \in Seq(STRING)
<1>0. Len(path) \in Nat
  OBVIOUS
<1>1. u[0] = <<>>
  BY <1>0 DEF Cleans
<1>2. ASSUME NEW n \in 1..Len(path) PROVE u[n] = Into(u[n - 1], path[n])
  <2>1. n \in 0..Len(path) /\ n # 0
    BY <1>0
  <2> QED BY <2>1, Zenon DEF Cleans
<1>3. \A n \in 1..Len(path) : path[n] \in STRING
  OBVIOUS
<1> DEFINE T == {n \in 0..Len(path) : u[n] \notin Seq(STRING)}
<1>4. 0 \notin T
  <2>1. <<>> \in Seq(STRING)
    OBVIOUS
  <2> QED BY <1>1, <2>1
<1>5. ASSUME NEW n \in 1..Len(path), n - 1 \notin T PROVE n \notin T
  <2>1. n - 1 \in 0..Len(path)
    BY <1>0
  <2> QED BY <1>2, <1>3, <1>5, <2>1, IntoType
<1>6. T = {}
  BY <1>0, <1>4, <1>5, UpTo
<1> QED BY <1>1, <1>2, <1>3, <1>6

LEMMA CleanType ==
    ASSUME NEW path \in Seq(STRING) PROVE Clean(path) \in Seq(STRING)
<1>1. PICK u : Cleans(u, path) /\ Clean(path) = u[Len(path)]
  BY CleanIs
<1>2. Len(path) \in 0..Len(path)
  OBVIOUS
<1> QED BY <1>1, <1>2, CleansAt

\* The name of a file stays.
LEMMA CleanNotEmpty ==
    ASSUME NEW path \in Paths PROVE Clean(path) \in Seq(STRING) /\ Clean(path) # <<>>
<1>1. path \in Seq(STRING) /\ path # <<>> /\ Last(path) \notin {".", ".."}
  BY DEF Paths
<1>2. PICK u : Cleans(u, path) /\ Clean(path) = u[Len(path)]
  BY <1>1, CleanIs
<1> DEFINE n == Len(path)
<1>3. n \in 1..n /\ n - 1 \in 0..n
  BY <1>1
<1>4. u[n] = Into(u[n - 1], path[n]) /\ u[n - 1] \in Seq(STRING)
  BY <1>1, <1>2, <1>3, CleansAt
<1>5. Into(u[n - 1], path[n]) = Append(u[n - 1], path[n])
  BY <1>1 DEF Into, Last
<1> QED BY <1>1, <1>2, <1>4, <1>5, CleanType

\* What climbs once has climbed in the end.
LEMMA ClimbsOnce ==
    ASSUME NEW path \in Seq(STRING), NEW u, Cleans(u, path), ~Ups(u[Len(path)])
    PROVE  \A n \in 0..Len(path) : ~Ups(u[n])
<1> SUFFICES ASSUME NEW m \in 0..Len(path), Ups(u[m]) PROVE FALSE
  OBVIOUS
<1>0. Len(path) \in Nat
  OBVIOUS
<1> DEFINE N == Len(path)
           T == {n \in 0..N : m <= n /\ ~Ups(u[n])}
<1>1. 0 \notin T
  OBVIOUS
<1>2. ASSUME NEW n \in 1..N, n - 1 \notin T PROVE n \notin T
  <2> SUFFICES ASSUME m <= n, n # m PROVE Ups(u[n])
    OBVIOUS
  <2>1. n - 1 \in 0..N /\ m <= n - 1
    BY <1>0
  <2>2. Ups(u[n - 1])
    BY <1>2, <2>1
  <2> QED BY <2>1, <2>2, CleansAt, IntoUps
<1>3. T = {}
  BY <1>0, <1>1, <1>2, UpTo
<1>4. N \in T
  BY <1>0
<1> QED BY <1>3, <1>4

\* A path that does not climb leads, from any directory, down.
LEMMA CleanBelow ==
    ASSUME NEW path \in Seq(STRING), ~Ups(Clean(path)),
           NEW d \in Seq(STRING), Plain(d)
    PROVE  Plain(Clean(path)) /\ Clean(d \o path) = d \o Clean(path)
<1> DEFINE p == d \o path
           N == Len(path)
           L == Len(d)
<1>0. /\ p \in Seq(STRING) /\ N \in Nat /\ L \in Nat /\ Len(p) = L + N
      /\ \A n \in 1..L : p[n] = d[n]
      /\ \A n \in 1..N : p[L + n] = path[n]
  OBVIOUS
<1>1. PICK u : Cleans(u, path) /\ Clean(path) = u[N]
  BY CleanIs
<1>2. PICK w : Cleans(w, p) /\ Clean(p) = w[L + N]
  BY <1>0, CleanIs
<1> HIDE DEF p
<1>3. \A n \in 0..N : u[n] \in Seq(STRING) /\ ~Ups(u[n])
  BY <1>1, ClimbsOnce, CleansAt
<1>4. u[0] = <<>> /\ \A n \in 1..N : u[n] = Into(u[n - 1], path[n]) /\ path[n] \in STRING
  BY <1>1, CleansAt
<1>5. w[0] = <<>> /\ \A n \in 1..(L + N) : w[n] = Into(w[n - 1], p[n])
  <2>1. /\ w[0] = <<>>
        /\ \A n \in 1..Len(p) : w[n] = Into(w[n - 1], p[n]) /\ p[n] \in STRING
    BY <1>0, <1>2, CleansAt
  <2>2. Len(p) = L + N
    BY <1>0
  <2> QED BY <2>1, <2>2
<1>6. \A n \in 0..L : w[n] = SubSeq(d, 1, n)
  <2> DEFINE T == {n \in 0..L : w[n] # SubSeq(d, 1, n)}
  <2>1. 0 \notin T
    <3>1. SubSeq(d, 1, 0) = <<>>
      OBVIOUS
    <3> QED BY <1>5, <3>1
  <2>2. ASSUME NEW n \in 1..L, n - 1 \notin T PROVE n \notin T
    <3>1. n - 1 \in 0..L /\ n \in 1..(L + N)
      BY <1>0
    <3>2. w[n] = Into(SubSeq(d, 1, n - 1), d[n])
      BY <1>0, <1>5, <2>2, <3>1
    <3>3. d[n] \notin {".", ".."}
      BY DEF Plain
    <3>4. Into(SubSeq(d, 1, n - 1), d[n]) = Append(SubSeq(d, 1, n - 1), d[n])
      BY <3>3 DEF Into
    <3>5. Append(SubSeq(d, 1, n - 1), d[n]) = SubSeq(d, 1, n)
      BY <1>0
    <3> QED BY <3>2, <3>4, <3>5
  <2>3. T = {}
    BY <1>0, <2>1, <2>2, UpTo
  <2> QED BY <2>3
<1>7. w[L] = d
  BY <1>0, <1>6
<1>8. \A n \in 0..N : Plain(u[n]) /\ w[L + n] = d \o u[n]
  <2> DEFINE T == {n \in 0..N : ~(Plain(u[n]) /\ w[L + n] = d \o u[n])}
  <2>1. 0 \notin T
    <3>1. L + 0 = L /\ d \o <<>> = d /\ Plain(<<>>)
      BY <1>0 DEF Plain
    <3> QED BY <1>4, <1>7, <3>1
  <2>2. ASSUME NEW n \in 1..N, n - 1 \notin T PROVE n \notin T
    <3>1. n - 1 \in 0..N /\ L + n \in 1..(L + N) /\ (L + n) - 1 = L + (n - 1)
      BY <1>0
    <3>2. Plain(u[n - 1]) /\ w[L + (n - 1)] = d \o u[n - 1]
      BY <2>2, <3>1
    <3>3. w[L + n] = Into(d \o u[n - 1], path[n])
      <4>1. w[L + n] = Into(w[(L + n) - 1], p[L + n])
        BY <1>5, <3>1
      <4>2. p[L + n] = path[n]
        BY <1>0
      <4> QED BY <3>1, <3>2, <4>1, <4>2, Zenon
    <3>4. u[n] = Into(u[n - 1], path[n]) /\ ~Ups(u[n]) /\ u[n - 1] \in Seq(STRING)
          /\ path[n] \in STRING
      BY <1>3, <1>4, <3>1
    <3>5. Plain(u[n]) /\ Into(d \o u[n - 1], path[n]) = d \o u[n]
      <4> DEFINE a == u[n - 1]
                 c == path[n]
      <4>1. /\ a \in Seq(STRING) /\ c \in STRING /\ Plain(a) /\ ~Ups(Into(a, c))
            /\ u[n] = Into(a, c)
        BY <3>2, <3>4
      <4> HIDE DEF a, c
      <4>2. Plain(Into(a, c)) /\ Into(d \o a, c) = d \o Into(a, c)
        BY <4>1, IntoPlain
      <4> QED BY <4>1, <4>2 DEF a, c
    <3> QED BY <3>3, <3>5
  <2>3. T = {}
    BY <1>0, <2>1, <2>2, UpTo
  <2> QED BY <2>3
<1>9. N \in 0..N
  BY <1>0
<1> QED BY <1>1, <1>2, <1>8, <1>9 DEF p

(***************************************************************************)
(* The specifiers of a source.                                             *)
(***************************************************************************)

\* u is the function RelativeSpecifiers defines.
Notes(u, imports) ==
    u = [n \in 0..Len(imports) |-> IF n = 0 THEN <<>> ELSE Noted(u[n - 1], imports[n])]

\* There is such a function.
LEMMA NotesExists ==
    ASSUME NEW imports \in Seq(Specifiers) PROVE \E u : Notes(u, imports)
<1> DEFINE Upto(u, k) ==
               u = [n \in 0..k |-> IF n = 0 THEN <<>> ELSE Noted(u[n - 1], imports[n])]
           T == {k \in 0..Len(imports) : ~ \E u : Upto(u, k)}
<1>0. Len(imports) \in Nat
  OBVIOUS
<1>1. 0 \notin T
  <2>1. Upto([n \in 0..0 |-> <<>>], 0)
    OBVIOUS
  <2> QED BY <2>1
<1>2. ASSUME NEW k \in 1..Len(imports), k - 1 \notin T PROVE k \notin T
  <2>1. k - 1 \in 0..Len(imports) /\ k \in Nat
    BY <1>0
  <2>2. PICK u : Upto(u, k - 1)
    BY <1>2, <2>1, Zenon
  <2> DEFINE g == [n \in 0..k |-> IF n = 0 THEN <<>> ELSE Noted(u[n - 1], imports[n])]
  <2>3. ASSUME NEW n \in 0..(k - 1) PROVE g[n] = u[n]
    <3>1. n \in 0..k
      BY <2>1
    <3> QED BY <2>2, <3>1, Zenon
  <2>4. ASSUME NEW n \in 0..k, n # 0 PROVE g[n - 1] = u[n - 1]
    <3>1. n - 1 \in 0..(k - 1)
      BY <2>1, <2>4
    <3> QED BY <2>3, <3>1, Zenon
  <2>5. ASSUME NEW n \in 0..k
        PROVE  (IF n = 0 THEN <<>> ELSE Noted(u[n - 1], imports[n]))
                  = (IF n = 0 THEN <<>> ELSE Noted(g[n - 1], imports[n]))
    BY <2>4, Zenon
  <2>6. Upto(g, k)
    BY <2>5, Zenon
  <2> QED BY <2>6, Zenon
<1> HIDE DEF Upto
<1>3. T = {}
  BY <1>0, <1>1, <1>2, UpTo
<1>4. Len(imports) \notin T
  BY <1>3
<1>5. \E u : Upto(u, Len(imports))
  BY <1>0, <1>4
<1> QED BY <1>5 DEF Notes, Upto

\* One more specifier.
LEMMA NotedFacts ==
    ASSUME NEW seen \in Seq(Specifiers), NEW s \in Specifiers
    PROVE  /\ Noted(seen, s) \in Seq(Specifiers)
           /\ Range(Noted(seen, s)) = Range(seen) \cup {x \in {s} : x.rel}
<1>1. CASE s.rel /\ ~Contains(seen, s)
  <2>1. Noted(seen, s) = Append(seen, s)
    BY <1>1 DEF Noted
  <2>2. Append(seen, s) = seen \o <<s>> /\ <<s>> \in Seq(Specifiers)
    BY AppendIsConcat, Single
  <2>3. Range(seen \o <<s>>) = Range(seen) \cup Range(<<s>>)
    BY <2>2, RangeConcatenation
  <2>4. Range(<<s>>) = {s}
    BY DEF Range
  <2>5. Append(seen, s) \in Seq(Specifiers)
    BY AppendProperties
  <2> QED BY <1>1, <2>1, <2>2, <2>3, <2>4, <2>5
<1>2. CASE ~s.rel
  BY <1>2 DEF Noted
<1>3. CASE Contains(seen, s)
  <2>1. s \in Range(seen)
    BY <1>3 DEF Contains, Range
  <2> QED BY <1>3, <2>1 DEF Noted
<1> QED BY <1>1, <1>2, <1>3

\* Of the specifiers of a source, the relative ones are followed.
LEMMA SpecifiersRead ==
    ASSUME NEW imports \in Seq(Specifiers)
    PROVE  /\ RelativeSpecifiers(imports) \in Seq(Specifiers)
           /\ Range(RelativeSpecifiers(imports)) = {s \in Range(imports) : s.rel}
<1> DEFINE u == CHOOSE u : Notes(u, imports)
           N == Len(imports)
           Read(n) == {s \in {imports[k] : k \in 1..n} : s.rel}
           Good(n) == u[n] \in Seq(Specifiers) /\ Range(u[n]) = Read(n)
           T == {n \in 0..N : ~Good(n)}
<1>0. N \in Nat /\ \A k \in 1..N : imports[k] \in Specifiers
  OBVIOUS
<1>1. Notes(u, imports)
  BY NotesExists
<1>2. RelativeSpecifiers(imports) = u[N]
  BY Zenon DEF RelativeSpecifiers, Notes
<1> HIDE DEF u
<1>3. u[0] = <<>>
  BY <1>0, <1>1 DEF Notes
<1>4. ASSUME NEW n \in 1..N PROVE u[n] = Noted(u[n - 1], imports[n])
  <2>1. n \in 0..N /\ n # 0
    BY <1>0
  <2> QED BY <1>1, <2>1, Zenon DEF Notes
<1>5. 0 \notin T
  <2>1. <<>> \in Seq(Specifiers)
    OBVIOUS
  <2>2. Range(<<>>) = {}
    BY DEF Range
  <2>3. Read(0) = {}
    OBVIOUS
  <2> QED BY <1>3, <2>1, <2>2, <2>3
<1>6. ASSUME NEW n \in 1..N, n - 1 \notin T PROVE n \notin T
  <2>1. n - 1 \in 0..N /\ 1..n = 1..(n - 1) \cup {n}
    BY <1>0
  <2>2. Good(n - 1)
    BY <1>6, <2>1
  <2>3. Read(n) = Read(n - 1) \cup {x \in {imports[n]} : x.rel}
    BY <2>1
  <2>4. Noted(u[n - 1], imports[n]) \in Seq(Specifiers)
        /\ Range(Noted(u[n - 1], imports[n])) = Range(u[n - 1]) \cup {x \in {imports[n]} : x.rel}
    BY <1>0, <2>2, NotedFacts
  <2> QED BY <1>4, <2>2, <2>3, <2>4
<1> HIDE DEF Good
<1>7. T = {}
  BY <1>0, <1>5, <1>6, UpTo
<1>8. Good(N)
  BY <1>0, <1>7
<1>9. Read(N) = {s \in Range(imports) : s.rel}
  BY <1>0 DEF Range
<1> QED BY <1>2, <1>8, <1>9 DEF Good

(***************************************************************************)
(* The module graph: the inductive invariant.                              *)
(***************************************************************************)

Works == [dir : Seq(STRING), specs : Seq(Specifiers)]

\* The files staged so far, those under a name, and those of the corpus there.
Froms    == {out[n].from : n \in DOMAIN out}
Held(v)  == {out[n].from : n \in {m \in DOMAIN out : out[m].name = v}}
There(v) == {g \in Files : Place[g].path = v}

TypeInv ==
    /\ corpus \in Corpora
    /\ pc \in {"walk", "staged"}
    /\ queue \in Seq(Works)
    /\ out \in Seq([name : Seq(STRING), from : Files])

\* A work is what is left of the imports of the test or of a staged file.
Importer(w) ==
    \E f \in {Entry} \cup Froms : w.dir = Dir(f) /\ Range(w.specs) \subseteq Imports(f)
WorksAreOfFiles == \A q \in DOMAIN queue : Importer(queue[q])

\* A name is taken when it is staged; names and files are below the test's directory.
NamesAreTaken ==
    /\ EntryName \in visited
    /\ \A n \in DOMAIN out :
          /\ out[n].name \in visited /\ out[n].name # EntryName
          /\ Head(out[n].name) # ".."
          /\ Plain(Place[out[n].from].path)
    /\ \A m, n \in DOMAIN out : out[m].name = out[n].name => m = n

\* The tree holds the modules under their names, and the test.
TreeIsWritten ==
    Staged =>
        /\ queue = <<>>
        /\ DOMAIN tree = {out[n].name : n \in DOMAIN out} \cup {EntryName}
        /\ tree[EntryName] = Entry
        /\ \A n \in DOMAIN out : tree[out[n].name] = out[n].from

\* Under the name v there is what the corpus has at that path.
Resolved(v) == v = EntryName \/ Held(v) = There(v)

\* While the test's own imports are at the head, every name taken is resolved;
\* each of its imports is still there or resolved.
Opening == queue # <<>> /\ Head(queue).dir = <<>> /\ \A v \in visited : Resolved(v)
OwnFirst ==
    OneExtension => \A s \in Imports(Entry) : ~Climbs(s) =>
        \/ StagedName(s) \in visited /\ Resolved(StagedName(s))
        \/ Opening /\ s \in Range(Head(queue).specs)

\* Among siblings every name is resolved and every import is taken or to come.
Siblings ==
    OneExtension /\ Flat =>
        /\ Froms \subseteq Beside
        /\ \A v \in visited : Resolved(v)
        /\ \A f \in {Entry} \cup Froms : \A s \in Imports(f) :
              s.path \in visited \/ \E q \in DOMAIN queue : s \in Range(queue[q].specs)

\* Nothing is staged that the test does not reach.
Reached == \A S \in SUBSET Files : Entry \in S /\ Closed(S) => Froms \subseteq S

Inv ==
    /\ TypeInv /\ WorksAreOfFiles /\ NamesAreTaken /\ TreeIsWritten
    /\ OwnFirst /\ Siblings /\ Reached

(***************************************************************************)
(* The corpus.                                                             *)
(***************************************************************************)

\* A path ends in the name of a file.
LEMMA PathFacts ==
    ASSUME NEW p \in Paths
    PROVE  p \in Seq(STRING) /\ p # <<>> /\ Len(p) \in Nat \ {0} /\ Front(p) \in Seq(STRING)
           /\ p[Len(p)] \notin {".", ".."}
<1>1. p \in Seq(STRING) /\ p # <<>> /\ Last(p) \notin {".", ".."}
  BY DEF Paths
<1> QED BY <1>1, FrontFacts

\* A path of one component is the name of a file in the test's directory.
LEMMA OneComponent ==
    ASSUME NEW p \in Paths, Len(p) = 1
    PROVE  Front(p) = <<>> /\ Clean(p) = p /\ Head(p) # ".."
<1>1. p \in Seq(STRING) /\ p # <<>> /\ p[1] \notin {".", ".."} /\ Front(p) \in Seq(STRING)
  BY PathFacts
<1>2. Len(Front(p)) = 0
  BY <1>1, FrontFacts
<1>3. PICK u : Cleans(u, p) /\ Clean(p) = u[Len(p)]
  BY <1>1, CleanIs
<1>4. u[0] = <<>> /\ u[1] = Into(u[0], p[1]) /\ p[1] \in STRING
  <2>1. 1 \in 1..Len(p) /\ 1 - 1 = 0
    OBVIOUS
  <2>2. u[0] = <<>> /\ \A n \in 1..Len(p) : u[n] = Into(u[n - 1], p[n]) /\ p[n] \in STRING
    BY <1>1, <1>3, CleansAt
  <2> QED BY <2>1, <2>2
<1>5. u[1] = Append(<<>>, p[1])
  BY <1>1, <1>4 DEF Into
<1>6. Append(<<>>, p[1]) = p
  <2>1. <<>> \in Seq(STRING) /\ Len(<<>>) = 0
    BY EmptySeq
  <2> DEFINE x == Append(<<>>, p[1])
  <2>2. x \in Seq(STRING) /\ Len(x) = 1 /\ x[1] = p[1]
    BY <1>4, <2>1, AppendProperties
  <2> HIDE DEF x
  <2>3. x = p
    BY <1>1, <2>2, SeqEqual
  <2> QED BY <2>3 DEF x
<1>7. Head(p) = p[1]
  BY <1>1
<1>8. Front(p) = <<>>
  BY <1>1, <1>2, EmptySeq
<1> QED BY <1>1, <1>3, <1>5, <1>6, <1>7, <1>8

\* The files there have places of their own, and the test is one of them.
LEMMA FileFacts ==
    ASSUME corpus \in Corpora
    PROVE  /\ Entry \in Files /\ Dir(Entry) = <<>> /\ EntryName # <<>>
           /\ \A f \in Files :
                 Place[f] \in Places /\ Place[f].path \in Paths /\ Dir(f) \in Seq(STRING)
           /\ \A f, g \in Files : Place[f] = Place[g] => f = g
<1>1. /\ Entry \in DOMAIN Place /\ Len(Place[Entry].path) = 1
      /\ Place \in [DOMAIN Place -> Places] /\ IsInjective(Place)
      /\ corpus[Entry].there
  BY ModuleGraphAssumption
<1>2. \A f \in DOMAIN Place : Place[f] \in Places
  BY <1>1
<1>3. \A f \in DOMAIN Place : Place[f].path \in Paths
  BY <1>2 DEF Places
<1>4. \A f \in DOMAIN Place : Dir(f) \in Seq(STRING)
  BY <1>3, PathFacts DEF Dir
<1>5. Dir(Entry) = <<>> /\ EntryName # <<>>
  BY <1>1, <1>3, OneComponent, PathFacts DEF Dir, EntryName
<1>6. \A f, g \in DOMAIN Place : Place[f] = Place[g] => f = g
  BY <1>1 DEF IsInjective
<1> QED BY <1>1, <1>2, <1>3, <1>4, <1>5, <1>6 DEF Files

\* What is queued of a file is what it imports.
LEMMA ImportFacts ==
    ASSUME corpus \in Corpora, NEW f \in Files
    PROVE  /\ RelativeSpecifiers(corpus[f].imports) \in Seq(Specifiers)
           /\ Range(RelativeSpecifiers(corpus[f].imports)) = Imports(f)
           /\ \A s \in Imports(f) : s \in Specifiers /\ s.path \in Paths /\ s.ext \in {"js", "ts"}
<1>1. corpus[f].imports \in Seq(Specifiers)
  BY ModuleGraphAssumption DEF Files
<1>2. /\ RelativeSpecifiers(corpus[f].imports) \in Seq(Specifiers)
      /\ Range(RelativeSpecifiers(corpus[f].imports)) = Imports(f)
  BY <1>1, SpecifiersRead DEF Imports
<1>3. Imports(f) \subseteq Specifiers
  BY <1>1, RangeOfSeq DEF Imports
<1> QED BY <1>2, <1>3 DEF Specifiers

\* The place read is the place asked for, up to the extension.
LEMMA ReadFacts ==
    ASSUME corpus \in Corpora, NEW p \in Seq(STRING), NEW e \in {"js", "ts"},
           NEW f \in ReadModuleFile([path |-> p, ext |-> e])
    PROVE  /\ f \in Files /\ Place[f].path = p
           /\ ReadModuleFile([path |-> p, ext |-> e]) = {f}
<1> DEFINE At(place) == {x \in Files : Place[x] = place}
           t == [path |-> p, ext |-> e]
           b == [path |-> p, ext |-> "ts"]
<1>1. [t EXCEPT !.ext = "ts"] = b
  OBVIOUS
<1>2. ReadModuleFile(t) = IF At(t) # {} THEN At(t) ELSE At(b)
  <2> DEFINE c == [t EXCEPT !.ext = "ts"]
  <2>1. ReadModuleFile(t) = IF At(t) # {} THEN At(t) ELSE At(c)
    BY Zenon DEF ReadModuleFile
  <2>2. c = b
    BY <1>1
  <2> HIDE DEF c, b, t, At
  <2> QED BY <2>1, <2>2
<1>3. ReadModuleFile(t) = At(t) \/ ReadModuleFile(t) = At(b)
  BY <1>2
<1>4. f \in Files /\ Place[f].path = p
  BY <1>3
<1>5. \A x, y \in Files : Place[x] = Place[y] => x = y
  BY FileFacts
<1> QED BY <1>3, <1>4, <1>5

\* With one extension per path, an import means what is at the path.
LEMMA MeansFacts ==
    ASSUME corpus \in Corpora, OneExtension, NEW f \in Files, NEW s \in Imports(f)
    PROVE  Means(f, s) = There(Clean(Dir(f) \o s.path))
<1> DEFINE p == Clean(Dir(f) \o s.path)
           At(place) == {x \in Files : Place[x] = place}
           t == [path |-> p, ext |-> s.ext]
           b == [path |-> p, ext |-> "ts"]
<1>0. /\ Dir(f) \in Seq(STRING) /\ s.path \in Seq(STRING) /\ s.ext \in {"js", "ts"}
  BY FileFacts, ImportFacts, PathFacts
<1>1. p \in Seq(STRING)
  BY <1>0, ConcatProperties, CleanType
<1>2. Means(f, s) = ReadModuleFile(t) /\ Target(Dir(f), s).path = p
  BY DEF Means, Target
<1>3. ReadModuleFile(t) = IF At(t) # {} THEN At(t) ELSE At(b)
  BY DEF ReadModuleFile
<1>4. \A g \in Files : Place[g].ext \in {"js", "ts"}
                         /\ Place[g] = [path |-> Place[g].path, ext |-> Place[g].ext]
  BY FileFacts DEF Places
<1>5. \A g \in Files : Place[g].path = p /\ s.ext = "ts" => Place[g].ext = "ts"
  BY <1>2 DEF OneExtension
<1>6. \A g, h \in Files : Place[g].path = Place[h].path => g = h
  BY DEF OneExtension
<1> HIDE DEF p
<1>7. ASSUME NEW g \in ReadModuleFile(t) PROVE g \in There(p)
  BY <1>0, <1>1, <1>7, ReadFacts DEF There
<1>8. ASSUME NEW g \in There(p) PROVE g \in ReadModuleFile(t)
  <2>1. g \in Files /\ Place[g].path = p
    BY <1>8 DEF There
  <2>2. CASE Place[g].ext = s.ext
    <3>1. Place[g] = t
      BY <1>4, <2>1, <2>2, Zenon
    <3>2. g \in At(t)
      BY <2>1, <3>1
    <3> QED BY <1>3, <3>2
  <2>3. CASE Place[g].ext # s.ext
    <3>1. Place[g].ext = "ts" /\ s.ext = "js"
      <4>1. Place[g].ext \in {"js", "ts"} /\ (s.ext = "ts" => Place[g].ext = "ts")
        BY <1>4, <1>5, <2>1, Zenon
      <4> QED BY <1>0, <2>3, <4>1
    <3>2. g \in At(b)
      BY <1>4, <2>1, <3>1
    <3>3. At(t) = {}
      <4> SUFFICES ASSUME NEW h \in At(t) PROVE FALSE
        OBVIOUS
      <4>1. h \in Files /\ Place[h].path = p /\ Place[h].ext = "js"
        BY <3>1
      <4>2. h = g
        BY <1>6, <2>1, <4>1
      <4> QED BY <3>1, <4>1, <4>2
    <3> QED BY <1>3, <3>2, <3>3
  <2> QED BY <2>2, <2>3
<1>9. ReadModuleFile(t) = There(p)
  BY <1>7, <1>8
<1> QED BY <1>2, <1>9 DEF p

\* A sibling is imported under its own name.
LEMMA SiblingFacts ==
    ASSUME corpus \in Corpora, Flat, NEW f \in Beside, NEW s \in Imports(f)
    PROVE  /\ Dir(f) = <<>> /\ StagedName(s) = s.path /\ ~Climbs(s)
           /\ Clean(Dir(f) \o s.path) = s.path /\ Len(s.path) = 1
<1>1. f \in Files /\ Len(Place[f].path) = 1 /\ Len(s.path) = 1
  BY DEF Beside, Flat
<1>2. Place[f].path \in Paths /\ s.path \in Paths /\ s.path \in Seq(STRING)
  BY <1>1, FileFacts, ImportFacts, PathFacts
<1>3. Dir(f) = <<>>
  BY <1>1, <1>2, OneComponent DEF Dir
<1>4. Clean(s.path) = s.path /\ Head(s.path) # ".."
  BY <1>1, <1>2, OneComponent
<1>5. Dir(f) \o s.path = s.path
  BY <1>2, <1>3, ConcatEmptySeq
<1> QED BY <1>1, <1>3, <1>4, <1>5 DEF StagedName, Climbs

\* What only depends on the corpus stays.
LEMMA SameCorpus ==
    ASSUME corpus' = corpus
    PROVE  /\ Files' = Files /\ OneExtension' = OneExtension /\ Flat' = Flat /\ Beside' = Beside
           /\ \A f : Imports(f)' = Imports(f)
           /\ \A v : There(v)' = There(v)
           /\ \A f, s : Means(f, s)' = Means(f, s)
           /\ \A S : Closed(S)' = Closed(S)
<1>1. Files' = Files
  BY DEF Files
<1>2. \A f : Imports(f)' = Imports(f)
  BY DEF Imports
<1>3. Beside' = Beside
  BY <1>1 DEF Beside
<1>4. \A v : There(v)' = There(v)
  BY <1>1 DEF There
<1>5. \A t : ReadModuleFile(t)' = ReadModuleFile(t)
  BY <1>1 DEF ReadModuleFile
<1>6. \A f, s : Means(f, s)' = Means(f, s)
  BY <1>5 DEF Means, Dir, Target
<1>7. OneExtension' = OneExtension
  BY <1>1, <1>2 DEF OneExtension, Dir, Target
<1>8. Flat' = Flat
  BY <1>2, <1>3 DEF Flat
<1>9. \A S : Closed(S)' = Closed(S)
  BY <1>2, <1>6 DEF Closed
<1> QED BY <1>1, <1>2, <1>3, <1>4, <1>6, <1>7, <1>8, <1>9

(***************************************************************************)
(* The worklist.                                                           *)
(***************************************************************************)

\* Q is the worklist without its first specifier, with perhaps more at its end.
Shorter(Q) ==
    /\ Q \in Seq(Works) /\ Len(Q) >= Len(queue) /\ Len(queue) \in Nat \ {0}
    /\ Q[1].dir = queue[1].dir
    /\ Range(queue[1].specs) = {Spec1} \cup Range(Q[1].specs)
    /\ \A q \in 2..Len(queue) : Q[q] = queue[q]

\* The work at hand.
LEMMA AtHand ==
    ASSUME TypeInv, AtSpecifier
    PROVE  /\ pc = "walk" /\ queue # <<>> /\ Len(queue) \in Nat \ {0} /\ Head(queue) = queue[1]
           /\ queue[1] \in Works /\ queue[1].dir \in Seq(STRING)
           /\ queue[1].specs \in Seq(Specifiers) /\ queue[1].specs # <<>>
           /\ Spec1 = Head(queue[1].specs)
           /\ Range(queue[1].specs) = {Spec1} \cup Range(Tail(queue[1].specs))
           /\ Tail(queue[1].specs) \in Seq(Specifiers)
<1>1. pc = "walk" /\ queue # <<>> /\ Head(queue).specs # <<>> /\ queue \in Seq(Works)
  BY DEF AtSpecifier, TypeInv
<1>2. Len(queue) \in Nat \ {0} /\ Head(queue) = queue[1]
  BY <1>1
<1>3. queue[1] \in Works
  BY <1>1, <1>2
<1>4. queue[1].dir \in Seq(STRING) /\ queue[1].specs \in Seq(Specifiers)
  BY <1>3 DEF Works
<1>5. Spec1 = Head(queue[1].specs) /\ queue[1].specs # <<>>
  BY <1>1, <1>2 DEF Spec1
<1> DEFINE s == queue[1].specs
<1>6. /\ Tail(s) \in Seq(Specifiers) /\ Range(s) = {Head(s)} \cup Range(Tail(s))
  <2> HIDE DEF s
  <2>1. s \in Seq(Specifiers) /\ s # <<>>
    BY <1>4, <1>5 DEF s
  <2>2. <<Head(s)>> \o Tail(s) = s /\ Tail(s) \in Seq(Specifiers) /\ Head(s) \in Specifiers
    <3>1. Tail(s) \in Seq(Specifiers) /\ Head(s) \in Specifiers
      BY <2>1, HeadTailProperties
    <3>2. <<Head(s)>> \o Tail(s) = s
      BY <2>1
    <3> QED BY <3>1, <3>2
  <2>3. <<Head(s)>> \in Seq(Specifiers)
    BY <2>2, Single
  <2>4. Range(<<Head(s)>> \o Tail(s)) = Range(<<Head(s)>>) \cup Range(Tail(s))
    BY <2>2, <2>3, RangeConcatenation
  <2>5. Range(<<Head(s)>>) = {Head(s)}
    BY DEF Range
  <2> QED BY <2>2, <2>4, <2>5
<1> QED BY <1>1, <1>2, <1>3, <1>4, <1>5, <1>6

\* A work with other specifiers, and a sequence with one more at its head.
LEMMA WithSpecs ==
    ASSUME NEW A, NEW B, NEW x \in [dir : A, specs : B], NEW y
    PROVE  [x EXCEPT !.specs = y] = [dir |-> x.dir, specs |-> y]
OBVIOUS

LEMMA OneBefore ==
    ASSUME NEW S, NEW e \in S, NEW b \in Seq(S)
    PROVE  /\ <<e>> \o b \in Seq(S) /\ Len(<<e>> \o b) = 1 + Len(b)
           /\ (<<e>> \o b)[1] = e
           /\ \A n \in 2..(1 + Len(b)) : (<<e>> \o b)[n] = b[n - 1]
OBVIOUS

\* The worklist after a specifier is read, and after its module is staged.
LEMMA RestFacts ==
    ASSUME TypeInv, AtSpecifier
    PROVE  Shorter(Rest) /\ Len(Rest) = Len(queue)
<1> DEFINE w == [dir |-> queue[1].dir, specs |-> Tail(queue[1].specs)]
<1>1. w \in Works
  BY AtHand DEF Works
<1>2. [Head(queue) EXCEPT !.specs = Tail(@)] = w
  <2>1. Head(queue) = queue[1] /\ queue[1] \in Works
    BY AtHand
  <2>2. [queue[1] EXCEPT !.specs = Tail(queue[1].specs)] = w
    <3> DEFINE x == queue[1]
               y == Tail(queue[1].specs)
    <3>1. x \in [dir : Seq(STRING), specs : Seq(Specifiers)]
      BY <2>1 DEF Works
    <3> HIDE DEF x, y
    <3>2. [x EXCEPT !.specs = y] = [dir |-> x.dir, specs |-> y]
      BY <3>1, WithSpecs
    <3> QED BY <3>2 DEF x, y
  <2> QED BY <2>1, <2>2
<1>3. Rest = <<w>> \o Tail(queue)
  BY <1>2 DEF Rest
<1>4. queue \in Seq(Works) /\ queue # <<>> /\ Len(queue) \in Nat \ {0}
  BY AtHand DEF TypeInv
<1> DEFINE b == Tail(queue)
<1>5. b \in Seq(Works) /\ Len(b) = Len(queue) - 1
      /\ \A n \in 1..Len(b) : b[n] = queue[n + 1]
  BY <1>4, HeadTailProperties
<1> HIDE DEF w, b
<1>6. /\ <<w>> \o b \in Seq(Works) /\ Len(<<w>> \o b) = 1 + Len(b)
      /\ (<<w>> \o b)[1] = w
      /\ \A n \in 2..(1 + Len(b)) : (<<w>> \o b)[n] = b[n - 1]
  BY <1>1, <1>5, OneBefore
<1>7. Rest = <<w>> \o b /\ 1 + Len(b) = Len(queue)
  BY <1>3, <1>4, <1>5 DEF b
<1> DEFINE x == <<w>> \o b
<1> HIDE DEF x
<1>8. Rest \in Seq(Works) /\ Len(Rest) = Len(queue) /\ Rest[1] = w
      /\ \A q \in 2..Len(queue) : Rest[q] = queue[q]
  <2>1. /\ x \in Seq(Works) /\ Len(x) = Len(queue) /\ x[1] = w /\ Rest = x
        /\ \A n \in 2..Len(queue) : x[n] = b[n - 1]
    BY <1>6, <1>7, Zenon DEF x
  <2>2. ASSUME NEW q \in 2..Len(queue) PROVE x[q] = queue[q]
    <3>1. q - 1 \in 1..Len(b) /\ (q - 1) + 1 = q
      BY <1>4, <1>5
    <3>2. b[q - 1] = queue[q]
      BY <1>5, <3>1
    <3> QED BY <2>1, <3>2
  <2> QED BY <2>1, <2>2
<1>9. w.dir = queue[1].dir /\ w.specs = Tail(queue[1].specs)
  BY DEF w
<1>10. Range(queue[1].specs) = {Spec1} \cup Range(Rest[1].specs)
  BY <1>8, <1>9, AtHand
<1> QED BY <1>4, <1>8, <1>9, <1>10 DEF Shorter

LEMMA FollowFacts ==
    ASSUME TypeInv, AtSpecifier, NEW g \in Files
    PROVE  /\ Shorter(Rest \o Follow(g)) /\ Len(Rest \o Follow(g)) = Len(queue) + 1
           /\ LET added == (Rest \o Follow(g))[Len(queue) + 1]
              IN  added.dir = Dir(g) /\ Range(added.specs) = Imports(g)
<1> DEFINE w == [dir |-> Dir(g), specs |-> RelativeSpecifiers(corpus[g].imports)]
           a == Rest
           b == Follow(g)
<1>1. w \in Works /\ Range(w.specs) = Imports(g) /\ w.dir = Dir(g)
  BY FileFacts, ImportFacts DEF TypeInv, Works
<1>2. Follow(g) = <<w>>
  BY DEF Follow
<1>3. b \in Seq(Works) /\ Len(b) = 1 /\ b[1] = w
  BY <1>1, <1>2, Single
<1>4. a \in Seq(Works) /\ Len(a) = Len(queue) /\ Len(queue) \in Nat \ {0}
  BY RestFacts DEF Shorter
<1> HIDE DEF a, b, w
<1>5. /\ a \o b \in Seq(Works) /\ Len(a \o b) = Len(queue) + 1
      /\ \A n \in 1..(Len(a) + Len(b)) :
            (a \o b)[n] = IF n <= Len(a) THEN a[n] ELSE b[n - Len(a)]
  <2>1. /\ a \o b \in Seq(Works) /\ Len(a \o b) = Len(a) + Len(b)
        /\ \A n \in 1..(Len(a) + Len(b)) :
              (a \o b)[n] = IF n <= Len(a) THEN a[n] ELSE b[n - Len(a)]
    BY <1>3, <1>4, ConcatProperties, Zenon
  <2> QED BY <1>3, <1>4, <2>1
<1>6. \A n \in 1..Len(queue) : (a \o b)[n] = a[n]
  BY <1>3, <1>4, <1>5
<1>7. (a \o b)[Len(queue) + 1] = w
  <2>1. Len(queue) + 1 \in 1..(Len(a) + Len(b)) /\ ~(Len(queue) + 1 <= Len(a))
        /\ (Len(queue) + 1) - Len(a) = 1
    BY <1>3, <1>4
  <2> QED BY <1>3, <1>5, <2>1
<1>8. Shorter(a \o b)
  <2>1. Shorter(a)
    BY RestFacts DEF a
  <2>2. (a \o b)[1] = a[1] /\ \A q \in 2..Len(queue) : (a \o b)[q] = a[q]
    BY <1>4, <1>6
  <2> QED BY <1>4, <1>5, <2>1, <2>2 DEF Shorter
<1>9. Shorter(Rest \o Follow(g)) /\ Len(Rest \o Follow(g)) = Len(queue) + 1
      /\ (Rest \o Follow(g))[Len(queue) + 1] = w
  BY <1>5, <1>7, <1>8 DEF a, b
<1> QED BY <1>1, <1>9

\* What is staged is in the corpus, in a directory that is plain if its path is.
LEMMA FromsAreFiles == ASSUME TypeInv PROVE Froms \subseteq Files
<1> DEFINE R == [name : Seq(STRING), from : Files]
<1>1. \A r \in R : r.from \in Files
  OBVIOUS
<1>2. out \in Seq(R)
  BY DEF TypeInv
<1> HIDE DEF R
<1>3. \A n \in DOMAIN out : out[n] \in R
  BY <1>2
<1> QED BY <1>1, <1>3 DEF Froms

LEMMA PlainFront == ASSUME NEW p \in Paths, Plain(p) PROVE Plain(Front(p))
<1>1. p \in Seq(STRING) /\ p # <<>>
  BY PathFacts
<1>2. /\ Len(p) \in Nat \ {0} /\ Len(Front(p)) = Len(p) - 1
      /\ \A n \in 1..(Len(p) - 1) : Front(p)[n] = p[n]
  BY <1>1, FrontFacts
<1> QED BY <1>2 DEF Plain

\* The specifier at hand is an import of the test or of a staged file.
LEMMA SpecFacts ==
    ASSUME Inv, AtSpecifier
    PROVE  \E f \in {Entry} \cup Froms :
              /\ f \in Files /\ Spec1 \in Imports(f)
              /\ queue[1].dir = Dir(f) /\ Head(queue).dir = Dir(f) /\ Plain(Dir(f))
              /\ Range(queue[1].specs) \subseteq Imports(f)
<1>1. TypeInv /\ WorksAreOfFiles /\ NamesAreTaken
  BY DEF Inv
<1>2. 1 \in DOMAIN queue /\ Head(queue) = queue[1]
  BY <1>1, AtHand DEF TypeInv
<1>3. PICK f \in {Entry} \cup Froms :
         queue[1].dir = Dir(f) /\ Range(queue[1].specs) \subseteq Imports(f)
  BY <1>1, <1>2 DEF WorksAreOfFiles, Importer
<1>4. Spec1 \in Imports(f)
  BY <1>1, <1>3, AtHand
<1>5. f \in Files
  BY <1>1, FromsAreFiles, FileFacts DEF TypeInv
<1>6. Plain(Dir(f))
  <2>1. CASE f = Entry
    <3>1. Dir(f) = <<>>
      BY <1>1, <2>1, FileFacts DEF TypeInv
    <3> QED BY <3>1 DEF Plain
  <2>2. CASE f \in Froms
    <3>1. Plain(Place[f].path)
      BY <1>1, <2>2 DEF NamesAreTaken, Froms
    <3>2. Place[f].path \in Paths
      BY <1>1, <1>5, FileFacts DEF TypeInv
    <3> QED BY <3>1, <3>2, PlainFront DEF Dir
  <2> QED BY <2>1, <2>2
<1> QED BY <1>2, <1>3, <1>4, <1>5, <1>6

(***************************************************************************)
(* The steps of the walk.  Each takes the first specifier off the worklist *)
(* and perhaps its name; Stage adds a module too.                          *)
(***************************************************************************)

\* The parts of the invariant the walk itself is about.
WalkInv ==
    TypeInv /\ WorksAreOfFiles /\ NamesAreTaken /\ OwnFirst /\ Siblings /\ Reached

\* A work of the shorter worklist is a work of the worklist, or at the end.
LEMMA ShorterWorks ==
    ASSUME Inv, AtSpecifier, NEW Q, Shorter(Q), NEW q \in 1..Len(queue)
    PROVE  Importer(Q[q]) /\ Range(Q[q].specs) \subseteq Range(queue[q].specs)
           /\ Range(queue[q].specs) \subseteq {Spec1} \cup Range(Q[q].specs)
<1>1. Importer(queue[q])
  BY DEF Inv, TypeInv, WorksAreOfFiles
<1>2. Q[q].dir = queue[q].dir /\ Range(Q[q].specs) \subseteq Range(queue[q].specs)
      /\ Range(queue[q].specs) \subseteq {Spec1} \cup Range(Q[q].specs)
  <2>1. CASE q = 1
    BY <2>1 DEF Shorter
  <2>2. CASE q # 1
    <3>1. q \in 2..Len(queue)
      BY <2>2 DEF Shorter
    <3> QED BY <3>1 DEF Shorter
  <2> QED BY <2>1, <2>2
<1> QED BY <1>1, <1>2 DEF Importer

\* What a step that leaves the modules alone keeps.
LEMMA SameModules ==
    ASSUME Inv, corpus' = corpus, out' = out
    PROVE  /\ Froms' = Froms /\ \A v : Held(v)' = Held(v)
           /\ \A v : Resolved(v)' = Resolved(v)
           /\ Reached'
           /\ \A w : Importer(w)' = Importer(w)
<1>1. Froms' = Froms /\ \A v : Held(v)' = Held(v)
  BY DEF Froms, Held
<1>2. \A v : Resolved(v)' = Resolved(v)
  BY <1>1, SameCorpus DEF Resolved, EntryName
<1>3. Reached'
  BY <1>1, SameCorpus DEF Inv, Reached
<1>4. \A w : Importer(w)' = Importer(w)
  BY <1>1, SameCorpus DEF Importer, Dir
<1> QED BY <1>1, <1>2, <1>3, <1>4

\* A name not taken holds nothing.
LEMMA NotHeld ==
    ASSUME NamesAreTaken, NEW v, v \notin visited
    PROVE  Held(v) = {} /\ v # EntryName
BY DEF NamesAreTaken, Held

\* The specifier at hand, if its name may be taken.
LEMMA NameFacts ==
    ASSUME Inv, AtSpecifier, NEW f \in Files, Spec1 \in Imports(f), Plain(Dir(f))
    PROVE  /\ Spec1.path \in Seq(STRING) /\ Spec1.ext \in {"js", "ts"}
           /\ StagedName(Spec1) \in Seq(STRING) /\ StagedName(Spec1) # <<>>
           /\ Clean(Dir(f) \o Spec1.path) \in Seq(STRING)
           /\ ~Climbs(Spec1) =>
                 /\ Plain(StagedName(Spec1))
                 /\ Clean(Dir(f) \o Spec1.path) = Dir(f) \o StagedName(Spec1)
<1> DEFINE p == Spec1.path
           d == Dir(f)
<1>1. p \in Paths /\ p \in Seq(STRING) /\ Spec1.ext \in {"js", "ts"} /\ d \in Seq(STRING)
  BY ImportFacts, PathFacts, FileFacts DEF Inv, TypeInv
<1>2. Clean(p) \in Seq(STRING) /\ Clean(p) # <<>>
  BY <1>1, CleanNotEmpty
<1>3. d \o p \in Seq(STRING)
  BY <1>1, ConcatProperties
<1>4. Clean(d \o p) \in Seq(STRING)
  BY <1>3, CleanType
<1>5. Climbs(Spec1) = Ups(Clean(p))
  BY <1>2 DEF Climbs, StagedName, Ups
<1>6. ~Climbs(Spec1) => Plain(Clean(p)) /\ Clean(d \o p) = d \o Clean(p)
  BY <1>1, <1>5, CleanBelow
<1> QED BY <1>1, <1>2, <1>4, <1>6 DEF StagedName

\* In the test's own directory, or among siblings, the name is the path.
LEMMA NameIsPath ==
    ASSUME Inv, AtSpecifier, NEW f \in Files, Spec1 \in Imports(f), Plain(Dir(f)),
           Dir(f) = <<>>
    PROVE  Clean(Dir(f) \o Spec1.path) = StagedName(Spec1)
<1>1. Spec1.path \in Seq(STRING)
  BY NameFacts
<1>2. <<>> \o Spec1.path = Spec1.path
  BY <1>1, ConcatEmptySeq
<1> QED BY <1>2 DEF StagedName

\* The importer at hand is a sibling.
LEMMA AmongSiblings ==
    ASSUME Inv, AtSpecifier, OneExtension, Flat, NEW f \in {Entry} \cup Froms
    PROVE  f \in Beside /\ f \in Files
<1>1. Entry \in Beside
  BY FileFacts, ModuleGraphAssumption DEF Inv, TypeInv, Beside
<1>2. Froms \subseteq Beside
  BY DEF Inv, Siblings
<1> QED BY <1>1, <1>2 DEF Beside

\* A step that takes the specifier off without staging a module.
LEMMA WithoutModule ==
    ASSUME Inv, AtSpecifier, queue' = Rest, UNCHANGED <<corpus, out, tree, pc>>,
           visited \subseteq visited', visited' \subseteq visited \cup {StagedName(Spec1)},
           StagedName(Spec1) \in visited' \/ Climbs(Spec1),
           \A v \in visited' \ visited :
               v # EntryName /\ (OneExtension /\ Head(queue).dir = <<>> => Resolved(v))
    PROVE  WalkInv'
<1>0. TypeInv /\ WorksAreOfFiles /\ NamesAreTaken /\ OwnFirst /\ Siblings /\ Reached
  BY DEF Inv
<1>1. Shorter(Rest) /\ Len(Rest) = Len(queue)
  BY <1>0, RestFacts
<1>2. /\ Len(queue) \in Nat \ {0} /\ Head(queue) = queue[1] /\ queue # <<>>
      /\ Rest \in Seq(Works) /\ Rest # <<>> /\ Head(Rest) = Rest[1]
      /\ Rest[1].dir = queue[1].dir /\ DOMAIN queue = 1..Len(queue) /\ DOMAIN Rest = 1..Len(queue)
  <2>1. Len(queue) \in Nat \ {0} /\ Head(queue) = queue[1] /\ queue # <<>> /\ queue \in Seq(Works)
    BY <1>0, AtHand DEF TypeInv
  <2>2. Rest \in Seq(Works) /\ Rest[1].dir = queue[1].dir
    BY <1>1 DEF Shorter
  <2>3. Rest # <<>>
    BY <1>1, <2>1, <2>2
  <2>4. Head(Rest) = Rest[1]
    BY <2>2, <2>3
  <2>5. DOMAIN queue = 1..Len(queue) /\ DOMAIN Rest = 1..Len(queue)
    BY <1>1, <2>1, <2>2
  <2> QED BY <2>1, <2>2, <2>3, <2>4, <2>5
<1>3. PICK f \in {Entry} \cup Froms :
         /\ f \in Files /\ Spec1 \in Imports(f)
         /\ queue[1].dir = Dir(f) /\ Head(queue).dir = Dir(f) /\ Plain(Dir(f))
         /\ Range(queue[1].specs) \subseteq Imports(f)
  BY SpecFacts
<1>4. TypeInv'
  <2>1. Files' = Files
    BY SameCorpus
  <2> QED BY <1>0, <1>2, <2>1 DEF TypeInv
<1>5. WorksAreOfFiles'
  <2>1. \A q \in 1..Len(queue) : Importer(Rest[q])
    BY <1>1, ShorterWorks
  <2> QED BY <1>2, <2>1, SameModules DEF WorksAreOfFiles
<1>6. NamesAreTaken'
  <2>1. EntryName' = EntryName
    BY DEF EntryName
  <2> QED BY <1>0, <2>1 DEF NamesAreTaken
<1>7. ASSUME OneExtension, Opening PROVE Opening'
  BY <1>2, <1>7, SameModules DEF Opening
<1>8. OwnFirst'
  <2> SUFFICES ASSUME OneExtension, NEW s \in Imports(Entry), ~Climbs(s)
               PROVE  \/ StagedName(s) \in visited' /\ Resolved(StagedName(s))
                      \/ Opening' /\ s \in Range(Head(Rest).specs)
    BY SameCorpus, SameModules DEF OwnFirst
  <2>1. CASE StagedName(s) \in visited /\ Resolved(StagedName(s))
    BY <2>1
  <2>2. CASE Opening /\ s \in Range(Head(queue).specs)
    <3>1. Opening' /\ \A v \in visited' : Resolved(v)
      BY <1>7, <2>2, SameModules DEF Opening
    <3>2. CASE s = Spec1
      BY <3>1, <3>2
    <3>3. CASE s # Spec1
      BY <1>1, <1>2, <2>2, <3>1, <3>3 DEF Shorter
    <3> QED BY <3>2, <3>3
  <2> QED BY <1>0, <2>1, <2>2 DEF OwnFirst
<1>9. Siblings'
  <2> SUFFICES ASSUME OneExtension, Flat
               PROVE  /\ Froms \subseteq Beside
                      /\ \A v \in visited' : Resolved(v)
                      /\ \A h \in {Entry} \cup Froms : \A s \in Imports(h) :
                            s.path \in visited' \/ \E q \in DOMAIN Rest : s \in Range(Rest[q].specs)
    BY SameCorpus, SameModules DEF Siblings
  <2>1. /\ Froms \subseteq Beside
        /\ \A v \in visited : Resolved(v)
        /\ \A h \in {Entry} \cup Froms : \A s \in Imports(h) :
              s.path \in visited \/ \E q \in DOMAIN queue : s \in Range(queue[q].specs)
    BY <1>0 DEF Siblings
  <2>2. f \in Beside /\ Dir(f) = <<>> /\ StagedName(Spec1) = Spec1.path /\ ~Climbs(Spec1)
    BY <1>0, <1>3, AmongSiblings, SiblingFacts DEF TypeInv
  <2>3. \A v \in visited' : Resolved(v)
    BY <1>3, <2>1, <2>2
  <2>4. ASSUME NEW h \in {Entry} \cup Froms, NEW s \in Imports(h)
        PROVE  s.path \in visited' \/ \E q \in DOMAIN Rest : s \in Range(Rest[q].specs)
    <3>1. CASE s.path \in visited
      BY <3>1
    <3>2. CASE s = Spec1
      BY <2>2, <3>2
    <3>3. CASE s # Spec1 /\ \E q \in DOMAIN queue : s \in Range(queue[q].specs)
      <4>1. PICK q \in DOMAIN queue : s \in Range(queue[q].specs)
        BY <3>3
      <4>2. s \in Range(Rest[q].specs)
        BY <1>1, <1>2, <3>3, <4>1, ShorterWorks
      <4> QED BY <1>2, <4>2
    <3> QED BY <2>1, <3>1, <3>2, <3>3
  <2> QED BY <2>1, <2>3, <2>4
<1>10. Reached'
  BY SameModules
<1> QED BY <1>4, <1>5, <1>6, <1>8, <1>9, <1>10 DEF WalkInv

\* Each step of the walk.
LEMMA SkipKeeps == ASSUME Inv, Skip PROVE WalkInv'
<1>1. AtSpecifier /\ queue' = Rest /\ UNCHANGED <<corpus, visited, out, tree, pc>>
      /\ (Climbs(Spec1) \/ StagedName(Spec1) \in visited)
  BY DEF Skip
<1>2. \A v \in visited' \ visited :
          v # EntryName /\ (OneExtension /\ Head(queue).dir = <<>> => Resolved(v))
  BY <1>1
<1>3. visited \subseteq visited' /\ visited' \subseteq visited \cup {StagedName(Spec1)}
      /\ (StagedName(Spec1) \in visited' \/ Climbs(Spec1))
  BY <1>1
<1> QED BY <1>1, <1>2, <1>3, WithoutModule

LEMMA MissingKeeps == ASSUME Inv, Missing PROVE WalkInv'
<1> DEFINE v == StagedName(Spec1)
<1>1. /\ AtSpecifier /\ queue' = Rest /\ UNCHANGED <<corpus, out, tree, pc>>
      /\ v \notin visited /\ visited' = visited \cup {v}
      /\ ReadModuleFile(Target(Head(queue).dir, Spec1)) = {}
  BY DEF Missing
<1>2. PICK f \in {Entry} \cup Froms :
         /\ f \in Files /\ Spec1 \in Imports(f)
         /\ queue[1].dir = Dir(f) /\ Head(queue).dir = Dir(f) /\ Plain(Dir(f))
         /\ Range(queue[1].specs) \subseteq Imports(f)
  BY <1>1, SpecFacts
<1>3. Held(v) = {} /\ v # EntryName
  BY <1>1, NotHeld DEF Inv
<1>4. ASSUME OneExtension, Head(queue).dir = <<>> PROVE Resolved(v)
  <2>1. Means(f, Spec1) = {}
    BY <1>1, <1>2 DEF Means
  <2>2. Means(f, Spec1) = There(Clean(Dir(f) \o Spec1.path))
    BY <1>2, <1>4, MeansFacts DEF Inv, TypeInv
  <2>3. Clean(Dir(f) \o Spec1.path) = v
    BY <1>1, <1>2, <1>4, NameIsPath
  <2> QED BY <1>3, <2>1, <2>2, <2>3 DEF Resolved
<1>5. visited \subseteq visited' /\ visited' \subseteq visited \cup {StagedName(Spec1)}
      /\ (StagedName(Spec1) \in visited' \/ Climbs(Spec1))
  BY <1>1
<1>6. \A x \in visited' \ visited :
          x # EntryName /\ (OneExtension /\ Head(queue).dir = <<>> => Resolved(x))
  BY <1>1, <1>3, <1>4
<1> QED BY <1>1, <1>5, <1>6, WithoutModule

\* One more module.
LEMMA OneMore ==
    ASSUME NEW S, NEW a \in Seq(S), NEW e \in S, NEW b, b = Append(a, e)
    PROVE  /\ b \in Seq(S) /\ DOMAIN b = DOMAIN a \cup {Len(a) + 1}
           /\ Len(a) + 1 \notin DOMAIN a /\ b[Len(a) + 1] = e
           /\ \A n \in DOMAIN a : b[n] = a[n]
<1>1. /\ b \in Seq(S) /\ Len(b) = Len(a) + 1 /\ Len(a) \in Nat
      /\ \A n \in 1..Len(a) : b[n] = a[n]
      /\ b[Len(a) + 1] = e
  BY AppendProperties
<1>2. DOMAIN b = 1..Len(b) /\ DOMAIN a = 1..Len(a)
  BY <1>1
<1> QED BY <1>1, <1>2

\* What a name holds then.
LEMMA MoreModules ==
    ASSUME TypeInv, corpus' = corpus, NEW v \in Seq(STRING), NEW g \in Files,
           out' = Append(out, [name |-> v, from |-> g])
    PROVE  /\ out' \in Seq([name : Seq(STRING), from : Files])
           /\ DOMAIN out' = DOMAIN out \cup {Len(out) + 1} /\ Len(out) + 1 \notin DOMAIN out
           /\ out'[Len(out) + 1].name = v /\ out'[Len(out) + 1].from = g
           /\ \A n \in DOMAIN out : out'[n] = out[n]
           /\ Froms' = Froms \cup {g}
           /\ \A x : Held(x)' = IF x = v THEN Held(x) \cup {g} ELSE Held(x)
<1> DEFINE R == [name : Seq(STRING), from : Files]
           e == [name |-> v, from |-> g]
<1>1. out \in Seq(R) /\ e \in R /\ e.name = v /\ e.from = g
  BY DEF TypeInv
<1> HIDE DEF R, e
<1>2. out' = Append(out, e)
  BY DEF e
<1>3. /\ out' \in Seq(R) /\ DOMAIN out' = DOMAIN out \cup {Len(out) + 1}
      /\ Len(out) + 1 \notin DOMAIN out /\ out'[Len(out) + 1] = e
      /\ \A n \in DOMAIN out : out'[n] = out[n]
  BY <1>1, <1>2, OneMore
<1> DEFINE N == Len(out) + 1
<1> HIDE DEF N
<1>4. /\ DOMAIN out' = DOMAIN out \cup {N} /\ N \notin DOMAIN out /\ out'[N] = e
      /\ \A n \in DOMAIN out : out'[n] = out[n]
  BY <1>3 DEF N
<1>5. Froms' = Froms \cup {g}
  BY <1>1, <1>4 DEF Froms
<1>6. ASSUME NEW x PROVE Held(x)' = IF x = v THEN Held(x) \cup {g} ELSE Held(x)
  <2>1. Held(x)' = {out'[n].from : n \in {m \in DOMAIN out' : out'[m].name = x}}
    BY DEF Held
  <2>2. CASE x = v
    <3>1. {m \in DOMAIN out' : out'[m].name = x} = {m \in DOMAIN out : out[m].name = x} \cup {N}
      BY <1>1, <1>4, <2>2
    <3> QED BY <1>1, <1>4, <2>1, <2>2, <3>1 DEF Held
  <2>3. CASE x # v
    <3>1. {m \in DOMAIN out' : out'[m].name = x} = {m \in DOMAIN out : out[m].name = x}
      BY <1>1, <1>4, <2>3
    <3> QED BY <1>1, <1>4, <2>1, <2>3, <3>1 DEF Held
  <2> QED BY <2>2, <2>3
<1> QED BY <1>1, <1>3, <1>5, <1>6 DEF R

\* Below a plain directory.
LEMMA PlainConcat ==
    ASSUME NEW d \in Seq(STRING), NEW a \in Seq(STRING), Plain(d), Plain(a)
    PROVE  Plain(d \o a)
<1>1. /\ Len(d \o a) = Len(d) + Len(a) /\ Len(d) \in Nat /\ Len(a) \in Nat
      /\ \A n \in 1..(Len(d) + Len(a)) :
            (d \o a)[n] = IF n <= Len(d) THEN d[n] ELSE a[n - Len(d)]
  BY ConcatProperties
<1>2. ASSUME NEW n \in 1..(Len(d) + Len(a)) PROVE (d \o a)[n] \notin {".", ".."}
  <2>1. CASE n <= Len(d)
    BY <1>1, <2>1 DEF Plain
  <2>2. CASE ~(n <= Len(d))
    <3>1. n - Len(d) \in 1..Len(a)
      BY <1>1, <2>2
    <3> QED BY <1>1, <2>2, <3>1 DEF Plain
  <2> QED BY <2>1, <2>2
<1> QED BY <1>1, <1>2 DEF Plain

LEMMA StageKeeps == ASSUME Inv, Stage PROVE WalkInv'
<1> DEFINE v == StagedName(Spec1)
<1>0. TypeInv /\ WorksAreOfFiles /\ NamesAreTaken /\ OwnFirst /\ Siblings /\ Reached
  BY DEF Inv
<1>1. /\ AtSpecifier /\ UNCHANGED <<corpus, tree, pc>> /\ ~Climbs(Spec1)
      /\ v \notin visited /\ visited' = visited \cup {v}
  BY DEF Stage
<1>2. PICK g \in ReadModuleFile(Target(Head(queue).dir, Spec1)) :
          out' = Append(out, [name |-> v, from |-> g]) /\ queue' = Rest \o Follow(g)
  BY DEF Stage
<1>3. PICK f \in {Entry} \cup Froms :
         /\ f \in Files /\ Spec1 \in Imports(f)
         /\ queue[1].dir = Dir(f) /\ Head(queue).dir = Dir(f) /\ Plain(Dir(f))
         /\ Range(queue[1].specs) \subseteq Imports(f)
  BY <1>1, SpecFacts
<1> DEFINE p == Clean(Dir(f) \o Spec1.path)
<1>4. /\ v \in Seq(STRING) /\ v # <<>> /\ Plain(v) /\ Dir(f) \in Seq(STRING)
      /\ p \in Seq(STRING) /\ p = Dir(f) \o v /\ Spec1.ext \in {"js", "ts"}
  BY <1>0, <1>1, <1>3, NameFacts, FileFacts DEF TypeInv
<1>5. /\ g \in Files /\ Place[g].path = p /\ g \in Means(f, Spec1) /\ Means(f, Spec1) = {g}
  <2>1. Target(Head(queue).dir, Spec1) = [path |-> p, ext |-> Spec1.ext]
    BY <1>3 DEF Target
  <2>2. Means(f, Spec1) = ReadModuleFile([path |-> p, ext |-> Spec1.ext])
    BY DEF Means, Target
  <2>3. g \in ReadModuleFile([path |-> p, ext |-> Spec1.ext])
    BY <1>2, <2>1
  <2> HIDE DEF p
  <2>4. g \in Files /\ Place[g].path = p /\ ReadModuleFile([path |-> p, ext |-> Spec1.ext]) = {g}
    BY <1>0, <1>4, <2>3, ReadFacts DEF TypeInv
  <2> QED BY <2>2, <2>3, <2>4
<1>6. Plain(Place[g].path)
  BY <1>3, <1>4, <1>5, PlainConcat
<1>7. Held(v) = {} /\ v # EntryName
  BY <1>0, <1>1, NotHeld
<1> DEFINE Q == Rest \o Follow(g)
           N == Len(queue)
<1>8. /\ Shorter(Q) /\ Len(Q) = N + 1 /\ Q \in Seq(Works) /\ N \in Nat \ {0}
      /\ Q[N + 1].dir = Dir(g) /\ Range(Q[N + 1].specs) = Imports(g)
  BY <1>0, <1>1, <1>5, FollowFacts DEF Shorter
<1> HIDE DEF v, p, Q
<1>9. /\ queue' = Q /\ Head(Q) = Q[1] /\ Q # <<>> /\ Q[1].dir = Dir(f)
      /\ DOMAIN queue = 1..N /\ DOMAIN Q = 1..N \cup {N + 1} /\ Head(queue) = queue[1]
  <2>1. queue' = Q
    BY <1>2 DEF Q
  <2>2. Q # <<>>
    BY <1>8
  <2>3. Head(Q) = Q[1] /\ DOMAIN Q = 1..(N + 1)
    BY <1>8, <2>2
  <2>4. DOMAIN queue = 1..N /\ Head(queue) = queue[1]
    BY <1>0, <1>1, AtHand DEF TypeInv
  <2>5. Q[1].dir = Dir(f)
    BY <1>3, <1>8 DEF Shorter
  <2> QED BY <1>8, <2>1, <2>2, <2>3, <2>4, <2>5
<1>10. /\ out' \in Seq([name : Seq(STRING), from : Files])
       /\ DOMAIN out' = DOMAIN out \cup {Len(out) + 1} /\ Len(out) + 1 \notin DOMAIN out
       /\ out'[Len(out) + 1].name = v /\ out'[Len(out) + 1].from = g
       /\ \A n \in DOMAIN out : out'[n] = out[n]
       /\ Froms' = Froms \cup {g}
       /\ \A x : Held(x)' = IF x = v THEN Held(x) \cup {g} ELSE Held(x)
  BY <1>0, <1>1, <1>2, <1>4, <1>5, MoreModules
<1>11. TypeInv'
  <2>1. Files' = Files
    BY <1>1, SameCorpus
  <2> QED BY <1>0, <1>1, <1>8, <1>9, <1>10, <2>1 DEF TypeInv
<1>12. WorksAreOfFiles'
  <2>1. \A w : Importer(w) => Importer(w)'
    BY <1>1, <1>10, SameCorpus DEF Importer, Dir
  <2>2. \A q \in 1..N : Importer(Q[q])
    BY <1>1, <1>8, ShorterWorks
  <2>3. \A w : w.dir = Dir(g) /\ Range(w.specs) = Imports(g) => Importer(w)'
    BY <1>1, <1>10, SameCorpus DEF Importer, Dir
  <2>4. \A q \in DOMAIN Q : \A w : w = Q[q] => Importer(w)'
    <3> SUFFICES ASSUME NEW q \in DOMAIN Q, NEW w, w = Q[q] PROVE Importer(w)'
      OBVIOUS
    <3>1. CASE q \in 1..N
      BY <2>1, <2>2, <3>1
    <3>2. CASE q = N + 1
      BY <1>8, <2>3, <3>2
    <3> QED BY <1>9, <3>1, <3>2
  <2> QED BY <1>9, <2>4 DEF WorksAreOfFiles
<1>13. NamesAreTaken'
  <2>1. EntryName' = EntryName
    BY DEF EntryName
  <2>2. Head(v) # ".."
    BY <1>1 DEF Climbs, v
  <2>3. ASSUME NEW n \in DOMAIN out'
        PROVE  /\ out'[n].name \in visited' /\ out'[n].name # EntryName
               /\ Head(out'[n].name) # ".." /\ Plain(Place[out'[n].from].path)
    BY <1>0, <1>1, <1>6, <1>7, <1>10, <2>2 DEF NamesAreTaken
  <2>4. ASSUME NEW m \in DOMAIN out', NEW n \in DOMAIN out', out'[m].name = out'[n].name
        PROVE  m = n
    BY <1>0, <1>1, <1>10, <2>4 DEF NamesAreTaken
  <2> QED BY <1>0, <1>1, <2>1, <2>3, <2>4 DEF NamesAreTaken
\* The name taken is resolved in the test's directory, and the others stay so.
<1>14. /\ \A x : x # v /\ Resolved(x) => Resolved(x)'
       /\ OneExtension /\ Dir(f) = <<>> => \A x : x = v => Resolved(x)'
  <2>1. \A x : There(x)' = There(x)
    BY <1>1, SameCorpus
  <2>2. ASSUME OneExtension, Dir(f) = <<>> PROVE There(v) = {g}
    <3>1. Means(f, Spec1) = There(p)
      BY <1>0, <1>3, <2>2, MeansFacts DEF TypeInv, p
    <3>2. p = v
      BY <1>1, <1>3, <2>2, NameIsPath DEF p, v
    <3> QED BY <1>5, <3>1, <3>2
  <2> QED BY <1>7, <1>10, <2>1, <2>2 DEF Resolved, EntryName
<1>15. OwnFirst'
  <2> SUFFICES ASSUME OneExtension, NEW s \in Imports(Entry), ~Climbs(s)
               PROVE  \/ StagedName(s) \in visited' /\ Resolved(StagedName(s))'
                      \/ Opening' /\ s \in Range(Head(Q).specs)
    BY <1>1, <1>9, SameCorpus DEF OwnFirst
  <2>1. CASE StagedName(s) \in visited /\ Resolved(StagedName(s))
    BY <1>1, <1>14, <2>1
  <2>2. CASE Opening /\ s \in Range(Head(queue).specs)
    <3>1. Dir(f) = <<>>
      BY <1>3, <2>2 DEF Opening
    <3>2. \A x \in visited' : Resolved(x)'
      BY <1>1, <1>14, <2>2, <3>1 DEF Opening
    <3>3. Opening'
      BY <1>9, <3>1, <3>2 DEF Opening
    <3>4. CASE s = Spec1
      BY <1>1, <3>2, <3>4 DEF v
    <3>5. CASE s # Spec1
      BY <1>8, <1>9, <2>2, <3>3, <3>5 DEF Shorter
    <3> QED BY <3>4, <3>5
  <2> QED BY <1>0, <2>1, <2>2 DEF OwnFirst
<1>16. Siblings'
  <2> SUFFICES ASSUME OneExtension, Flat
               PROVE  /\ Froms' \subseteq Beside
                      /\ \A x \in visited' : Resolved(x)'
                      /\ \A h \in {Entry} \cup Froms' : \A s \in Imports(h) :
                            s.path \in visited' \/ \E q \in DOMAIN Q : s \in Range(Q[q].specs)
    BY <1>1, <1>9, SameCorpus DEF Siblings
  <2>1. /\ Froms \subseteq Beside
        /\ \A x \in visited : Resolved(x)
        /\ \A h \in {Entry} \cup Froms : \A s \in Imports(h) :
              s.path \in visited \/ \E q \in DOMAIN queue : s \in Range(queue[q].specs)
    BY <1>0 DEF Siblings
  <2>2. f \in Beside /\ Dir(f) = <<>> /\ v = Spec1.path /\ Len(Spec1.path) = 1 /\ p = Spec1.path
    BY <1>0, <1>1, <1>3, AmongSiblings, SiblingFacts DEF TypeInv, v, p
  <2>3. g \in Beside
    BY <1>5, <2>2 DEF Beside
  <2>4. \A x \in visited' : Resolved(x)'
    BY <1>1, <1>14, <2>1, <2>2
  <2>5. ASSUME NEW h \in {Entry} \cup Froms, NEW s \in Imports(h)
        PROVE  s.path \in visited' \/ \E q \in DOMAIN Q : s \in Range(Q[q].specs)
    <3>1. CASE s.path \in visited
      BY <1>1, <3>1
    <3>2. CASE s = Spec1
      BY <1>1, <2>2, <3>2
    <3>3. CASE s # Spec1 /\ \E q \in DOMAIN queue : s \in Range(queue[q].specs)
      <4>1. PICK q \in DOMAIN queue : s \in Range(queue[q].specs)
        BY <3>3
      <4>2. s \in Range(Q[q].specs)
        BY <1>1, <1>8, <1>9, <3>3, <4>1, ShorterWorks
      <4> QED BY <1>9, <4>1, <4>2
    <3> QED BY <2>1, <3>1, <3>2, <3>3
  <2>6. ASSUME NEW s \in Imports(g)
        PROVE  \E q \in DOMAIN Q : s \in Range(Q[q].specs)
    BY <1>8, <1>9
  <2> QED BY <1>10, <2>1, <2>3, <2>4, <2>5, <2>6
<1>17. Reached'
  <2> SUFFICES ASSUME NEW S \in SUBSET Files, Entry \in S, Closed(S)
               PROVE  Froms' \subseteq S
    BY <1>1, SameCorpus DEF Reached
  <2>1. Froms \subseteq S
    BY <1>0 DEF Reached
  <2>2. g \in S
    BY <1>3, <1>5, <2>1 DEF Closed
  <2> QED BY <1>10, <2>1, <2>2
<1> QED BY <1>11, <1>12, <1>13, <1>15, <1>16, <1>17 DEF WalkInv

LEMMA PopKeeps == ASSUME Inv, Pop PROVE WalkInv'
<1>0. TypeInv /\ WorksAreOfFiles /\ NamesAreTaken /\ OwnFirst /\ Siblings /\ Reached
  BY DEF Inv
<1>1. queue # <<>> /\ Head(queue).specs = <<>> /\ queue' = Tail(queue)
      /\ UNCHANGED <<corpus, visited, out, tree, pc>>
  BY DEF Pop
<1>2. /\ queue \in Seq(Works) /\ Len(queue) \in Nat \ {0} /\ Head(queue) = queue[1]
      /\ Tail(queue) \in Seq(Works) /\ DOMAIN Tail(queue) = 1..(Len(queue) - 1)
      /\ \A q \in 1..(Len(queue) - 1) : Tail(queue)[q] = queue[q + 1]
      /\ DOMAIN queue = 1..Len(queue)
  <2>1. queue \in Seq(Works)
    BY <1>0 DEF TypeInv
  <2> QED BY <1>1, <2>1
<1> DEFINE Q == Tail(queue)
           N == Len(queue)
<1> HIDE DEF Q, N
<1>3. /\ queue' = Q /\ DOMAIN Q = 1..(N - 1) /\ DOMAIN queue = 1..N /\ N \in Nat \ {0}
      /\ \A q \in 1..(N - 1) : Q[q] = queue[q + 1]
  BY <1>1, <1>2 DEF Q, N
<1>4. Range(queue[1].specs) = {}
  BY <1>1, <1>2 DEF Range
<1>5. TypeInv'
  <2>1. Files' = Files
    BY <1>1, SameCorpus
  <2> QED BY <1>0, <1>1, <1>2, <2>1 DEF TypeInv
<1>6. WorksAreOfFiles'
  <2>1. \A q \in 1..(N - 1) : Importer(Q[q])
    BY <1>0, <1>3 DEF WorksAreOfFiles
  <2> QED BY <1>1, <1>3, <2>1, SameModules DEF WorksAreOfFiles
<1>7. NamesAreTaken'
  BY <1>0, <1>1 DEF NamesAreTaken, EntryName
<1>8. OwnFirst'
  <2>1. OneExtension => \A s \in Imports(Entry) : ~Climbs(s) =>
            StagedName(s) \in visited /\ Resolved(StagedName(s))
    BY <1>0, <1>2, <1>4 DEF OwnFirst
  <2> QED BY <1>1, <2>1, SameCorpus, SameModules DEF OwnFirst
<1>9. Siblings'
  <2> SUFFICES ASSUME OneExtension, Flat
               PROVE  /\ Froms \subseteq Beside
                      /\ \A v \in visited : Resolved(v)
                      /\ \A h \in {Entry} \cup Froms : \A s \in Imports(h) :
                            s.path \in visited \/ \E q \in DOMAIN Q : s \in Range(Q[q].specs)
    <3>1. OneExtension' = OneExtension /\ Flat' = Flat /\ Beside' = Beside
          /\ \A f : Imports(f)' = Imports(f)
      BY <1>1, SameCorpus
    <3>2. Froms' = Froms /\ \A v : Resolved(v)' = Resolved(v)
      BY <1>1, SameModules
    <3> QED BY <1>1, <1>3, <3>1, <3>2 DEF Siblings
  <2>1. /\ Froms \subseteq Beside
        /\ \A v \in visited : Resolved(v)
        /\ \A h \in {Entry} \cup Froms : \A s \in Imports(h) :
              s.path \in visited \/ \E q \in DOMAIN queue : s \in Range(queue[q].specs)
    BY <1>0 DEF Siblings
  <2>2. ASSUME NEW s, NEW q \in DOMAIN queue, s \in Range(queue[q].specs)
        PROVE  \E r \in DOMAIN Q : s \in Range(Q[r].specs)
    <3>1. q # 1
      BY <1>4, <2>2
    <3>2. q - 1 \in DOMAIN Q /\ Q[q - 1] = queue[q]
      BY <1>3, <3>1
    <3> QED BY <2>2, <3>2
  <2> QED BY <2>1, <2>2
<1>10. Reached'
  BY <1>1, SameModules
<1> QED BY <1>5, <1>6, <1>7, <1>8, <1>9, <1>10 DEF WalkInv

(***************************************************************************)
(* The invariant holds.                                                    *)
(***************************************************************************)

\* A step that leaves the walk alone.
LEMMA SameWalk ==
    ASSUME Inv, UNCHANGED <<corpus, queue, visited, out>>, pc' \in {"walk", "staged"}
    PROVE  WalkInv'
<1>0. TypeInv /\ WorksAreOfFiles /\ NamesAreTaken /\ OwnFirst /\ Siblings /\ Reached
  BY DEF Inv
<1>1. TypeInv'
  <2>1. Files' = Files
    BY SameCorpus
  <2> QED BY <1>0, <2>1 DEF TypeInv
<1>2. WorksAreOfFiles'
  BY <1>0, SameModules DEF WorksAreOfFiles
<1>3. NamesAreTaken'
  BY <1>0 DEF NamesAreTaken, EntryName
<1>4. Opening' = Opening
  BY SameModules DEF Opening
<1>5. OwnFirst'
  BY <1>0, <1>4, SameCorpus, SameModules DEF OwnFirst
<1>6. Siblings'
  BY <1>0, SameCorpus, SameModules DEF Siblings
<1>7. Reached'
  BY SameModules
<1> QED BY <1>1, <1>2, <1>3, <1>5, <1>6, <1>7 DEF WalkInv

\* The names written are distinct, so each is written once.
LEMMA WritesFacts ==
    ASSUME TypeInv, NamesAreTaken
    PROVE  /\ Len(out) \in Nat /\ DOMAIN out = 1..Len(out) /\ DOMAIN Writes = 1..(Len(out) + 1)
           /\ \A n \in DOMAIN out : Writes[n] = out[n]
           /\ Writes[Len(out) + 1].name = EntryName /\ Writes[Len(out) + 1].from = Entry
           /\ \A m, n \in DOMAIN Writes : Writes[m].name = Writes[n].name => m = n
<1> DEFINE R == [name : Seq(STRING), from : Files]
           e == [name |-> EntryName, from |-> Entry]
<1>1. out \in Seq(R) /\ e.name = EntryName /\ e.from = Entry
  BY DEF TypeInv
<1>2. e \in R
  BY FileFacts, PathFacts DEF TypeInv, EntryName
<1>3. Len(out) \in Nat /\ DOMAIN out = 1..Len(out)
  BY <1>1
<1>4. Writes = Append(out, e)
  BY DEF Writes
<1> HIDE DEF R, e
<1>5. /\ DOMAIN Writes = DOMAIN out \cup {Len(out) + 1}
      /\ Len(out) + 1 \notin DOMAIN out /\ Writes[Len(out) + 1] = e
      /\ \A n \in DOMAIN out : Writes[n] = out[n]
  BY <1>1, <1>2, <1>4, OneMore
<1>6. DOMAIN Writes = 1..(Len(out) + 1)
  BY <1>3, <1>5
<1>7. ASSUME NEW m \in DOMAIN Writes, NEW n \in DOMAIN Writes, Writes[m].name = Writes[n].name
      PROVE  m = n
  BY <1>1, <1>5, <1>7 DEF NamesAreTaken
<1> QED BY <1>1, <1>3, <1>5, <1>6, <1>7

\* So the tree has each module under its name.
LEMMA StageJobKeeps == ASSUME Inv, StageJob PROVE WalkInv' /\ TreeIsWritten'
<1>0. TypeInv /\ NamesAreTaken
  BY DEF Inv
<1>1. queue = <<>> /\ pc' = "staged" /\ UNCHANGED <<corpus, queue, visited, out>>
  BY DEF StageJob
<1>2. WalkInv'
  BY <1>1, SameWalk
<1> DEFINE Names == {Writes[k].name : k \in DOMAIN Writes}
           At(n) == {k \in DOMAIN Writes : Writes[k].name = n}
<1>3. tree' = [n \in Names |-> Writes[Max(At(n))].from]
  BY DEF StageJob
<1>4. ASSUME NEW k \in DOMAIN Writes
      PROVE  Writes[k].name \in Names /\ tree'[Writes[k].name] = Writes[k].from
  <2>1. At(Writes[k].name) = {k}
    BY <1>0, WritesFacts
  <2>2. k \in Nat
    BY <1>0, WritesFacts
  <2>3. Max({k}) = k
    BY <2>2 DEF Max
  <2>4. Writes[k].name \in Names
    OBVIOUS
  <2> HIDE DEF Names, At
  <2>5. tree'[Writes[k].name] = Writes[Max(At(Writes[k].name))].from
    BY <1>3, <2>4
  <2> QED BY <2>1, <2>3, <2>4, <2>5
<1>5. /\ Len(out) + 1 \in DOMAIN Writes /\ DOMAIN Writes = DOMAIN out \cup {Len(out) + 1}
  BY <1>0, WritesFacts
<1>6. Names = {out[n].name : n \in DOMAIN out} \cup {EntryName}
  BY <1>0, <1>5, WritesFacts
<1>7. DOMAIN tree' = Names
  BY <1>3
<1> HIDE DEF Names
<1>8. tree'[EntryName] = Entry
  BY <1>0, <1>4, <1>5, WritesFacts
<1>9. \A n \in DOMAIN out : tree'[out[n].name] = out[n].from
  BY <1>0, <1>4, <1>5, WritesFacts
<1>10. TreeIsWritten'
  BY <1>1, <1>6, <1>7, <1>8, <1>9 DEF TreeIsWritten, EntryName
<1> QED BY <1>2, <1>10

LEMMA InvInit == GraphInit => Inv
<1> SUFFICES ASSUME GraphInit PROVE Inv
  OBVIOUS
<1> DEFINE w == [dir |-> <<>>, specs |-> RelativeSpecifiers(corpus[Entry].imports)]
<1>1. /\ corpus \in Corpora /\ queue = <<w>> /\ visited = {EntryName}
      /\ out = <<>> /\ pc = "walk"
  BY DEF GraphInit, Seed
<1>2. Entry \in Files /\ Dir(Entry) = <<>>
  BY <1>1, FileFacts
<1>3. w.dir = <<>> /\ w.specs \in Seq(Specifiers) /\ Range(w.specs) = Imports(Entry) /\ w \in Works
  BY <1>1, <1>2, ImportFacts DEF Works
<1> HIDE DEF w
<1>4. /\ queue \in Seq(Works) /\ DOMAIN queue = {1} /\ queue[1] = w /\ queue # <<>>
      /\ Head(queue) = w
  BY <1>1, <1>3
<1>5. DOMAIN out = {} /\ Froms = {}
  BY <1>1 DEF Froms
<1>6. TypeInv
  BY <1>1, <1>4 DEF TypeInv
<1>7. WorksAreOfFiles
  BY <1>2, <1>3, <1>4 DEF WorksAreOfFiles, Importer
<1>8. NamesAreTaken /\ TreeIsWritten
  BY <1>1, <1>5 DEF NamesAreTaken, TreeIsWritten, Staged
<1>9. \A v \in visited : Resolved(v)
  BY <1>1 DEF Resolved
<1>10. OwnFirst
  BY <1>3, <1>4, <1>9 DEF OwnFirst, Opening
<1>11. Siblings
  BY <1>3, <1>4, <1>5, <1>9 DEF Siblings
<1>12. Reached
  BY <1>5 DEF Reached
<1> QED BY <1>6, <1>7, <1>8, <1>10, <1>11, <1>12 DEF Inv

LEMMA InvNext == Inv /\ [GraphNext]_graphVars => Inv'
<1> SUFFICES ASSUME Inv, [GraphNext]_graphVars PROVE Inv'
  OBVIOUS
<1>1. CASE Skip \/ Missing \/ Stage \/ Pop
  <2>1. WalkInv'
    BY <1>1, SkipKeeps, MissingKeeps, StageKeeps, PopKeeps
  <2>2. pc = "walk" /\ pc' = pc
    BY <1>1 DEF Skip, Missing, Stage, Pop, AtSpecifier
  <2>3. TreeIsWritten'
    BY <2>2 DEF TreeIsWritten, Staged
  <2> QED BY <2>1, <2>3 DEF Inv, WalkInv
<1>2. CASE StageJob
  BY <1>2, StageJobKeeps DEF Inv, WalkInv
<1>3. CASE UNCHANGED graphVars
  <2>1. UNCHANGED <<corpus, queue, visited, out, tree, pc>>
    BY <1>3 DEF graphVars
  <2>2. WalkInv'
    BY <2>1, SameWalk DEF Inv, TypeInv
  <2>3. TreeIsWritten'
    BY <2>1 DEF Inv, TreeIsWritten, Staged, EntryName
  <2> QED BY <2>2, <2>3 DEF Inv, WalkInv
<1> QED BY <1>1, <1>2, <1>3 DEF GraphNext, Walk, Done

LEMMA InvHolds == GraphSpec => []Inv
BY InvInit, InvNext, PTL DEF GraphSpec

(***************************************************************************)
(* What follows from it.                                                   *)
(***************************************************************************)

\* As many names as writes.
LEMMA NamesCount ==
    ASSUME TypeInv, NamesAreTaken
    PROVE  Cardinality({out[n].name : n \in DOMAIN out} \cup {EntryName}) = Len(out) + 1
<1> DEFINE N == Len(out) + 1
           T == {out[n].name : n \in DOMAIN out} \cup {EntryName}
           f == [n \in 1..N |-> Writes[n].name]
<1>1. /\ Len(out) \in Nat /\ DOMAIN Writes = 1..N /\ DOMAIN out = 1..Len(out)
      /\ \A n \in DOMAIN out : Writes[n] = out[n]
      /\ Writes[N].name = EntryName
      /\ \A m, n \in DOMAIN Writes : Writes[m].name = Writes[n].name => m = n
  BY WritesFacts
<1>2. N \in Nat /\ 1..N = 1..Len(out) \cup {N}
  BY <1>1
<1> HIDE DEF N
<1>3. \A n \in 1..N : Writes[n].name \in T
  BY <1>1, <1>2
<1>4. \A t \in T : \E n \in 1..N : Writes[n].name = t
  BY <1>1, <1>2
<1> HIDE DEF T
<1>5. f \in Bijection(1..N, T)
  <2>1. f \in [1..N -> T]
    BY <1>3
  <2>2. \A m, n \in 1..N : f[m] = f[n] => m = n
    BY <1>1
  <2>3. \A t \in T : \E n \in 1..N : f[n] = t
    BY <1>4
  <2> QED BY <2>1, <2>2, <2>3 DEF Bijection, Injection, Surjection, IsInjective
<1>6. Cardinality(T) = N
  BY <1>2, <1>5, FS_CountingElements DEF ExistsBijection
<1> QED BY <1>6 DEF T, N

\* A module is staged once whatever cycles its imports form, never over the
\* test, and no name and no file of it is outside of the test's directory; as
\* many files are in the scratch tree as were staged.
THEOREM NamesAreStagedOnce == GraphSpec => []OneFilePerName
<1>1. Inv => OneFilePerName
  <2> SUFFICES ASSUME Inv PROVE OneFilePerName
    OBVIOUS
  <2>1. TypeInv /\ NamesAreTaken /\ TreeIsWritten
    BY DEF Inv
  <2>2. ASSUME NEW n \in DOMAIN out PROVE Head(Place[out[n].from].path) # ".."
    <3> DEFINE p == Place[out[n].from].path
    <3>1. Plain(p)
      BY <2>1 DEF NamesAreTaken
    <3>2. p \in Paths
      BY <2>1, FromsAreFiles, FileFacts DEF TypeInv, Froms
    <3>3. p \in Seq(STRING) /\ p # <<>> /\ Len(p) \in Nat \ {0}
      BY <3>2, PathFacts
    <3> HIDE DEF p
    <3>4. p[1] # ".." /\ Head(p) = p[1]
      BY <3>1, <3>3 DEF Plain
    <3> QED BY <3>4 DEF p
  <2>3. Staged => Cardinality(DOMAIN tree) = Len(out) + 1
    BY <2>1, NamesCount DEF TreeIsWritten
  <2> QED BY <2>1, <2>2, <2>3 DEF NamesAreTaken, OneFilePerName
<1> QED BY <1>1, InvHolds, PTL

\* The tree holds under a name what was staged under it.
LEMMA TreeHolds ==
    ASSUME Inv, Staged, NEW v
    PROVE  {tree[v] : m \in {v} \cap DOMAIN tree} = IF v = EntryName THEN {Entry} ELSE Held(v)
<1>1. /\ DOMAIN tree = {out[n].name : n \in DOMAIN out} \cup {EntryName}
      /\ tree[EntryName] = Entry
      /\ \A n \in DOMAIN out : tree[out[n].name] = out[n].from
  BY DEF Inv, TreeIsWritten
<1>2. CASE v = EntryName
  BY <1>1, <1>2
<1>3. CASE v # EntryName
  <2>1. CASE v \notin DOMAIN tree
    BY <1>1, <1>3, <2>1 DEF Held
  <2>2. CASE v \in DOMAIN tree
    <3>1. {tree[v] : m \in {v} \cap DOMAIN tree} = {tree[v]}
      BY <2>2
    <3>2. PICK k \in DOMAIN out : out[k].name = v
      BY <1>1, <1>3, <2>2
    <3>3. \A n \in DOMAIN out : out[n].name = v => out[n].from = tree[v]
      BY <1>1
    <3>4. Held(v) = {tree[v]}
      BY <3>2, <3>3 DEF Held
    <3> QED BY <1>3, <3>1, <3>4
  <2> QED BY <2>1, <2>2
<1> QED BY <1>2, <1>3

\* The test is the only file at its path.
LEMMA EntryIsThere ==
    ASSUME corpus \in Corpora, OneExtension PROVE There(EntryName) = {Entry}
BY FileFacts DEF OneExtension, There, EntryName

\* So a resolved name finds in the tree what the corpus has there.
LEMMA ResolvedInTree ==
    ASSUME Inv, Staged, OneExtension, NEW v, Resolved(v)
    PROVE  {tree[v] : m \in {v} \cap DOMAIN tree} = There(v)
BY TreeHolds, EntryIsThere DEF Resolved, Inv, TypeInv

\* The test's own imports.
LEMMA OwnImports ==
    ASSUME Inv, Staged, OneExtension, NEW s \in Imports(Entry), ~Climbs(s)
    PROVE  ResolvesTo(EntryName, s) = Means(Entry, s)
<1>1. corpus \in Corpora /\ Entry \in Files /\ Dir(Entry) = <<>>
  BY FileFacts DEF Inv, TypeInv
<1>2. s.path \in Seq(STRING)
  BY <1>1, ImportFacts, PathFacts
<1>3. Front(EntryName) = <<>> /\ <<>> \o s.path = s.path
  BY <1>1, <1>2, ConcatEmptySeq DEF Dir, EntryName
<1>4. Means(Entry, s) = There(StagedName(s))
  BY <1>1, <1>3, MeansFacts DEF StagedName
<1>5. Resolved(StagedName(s))
  <2>1. queue = <<>>
    BY DEF Inv, TreeIsWritten
  <2> QED BY <2>1 DEF Inv, OwnFirst, Opening
<1>6. ResolvesTo(EntryName, s)
          = {tree[StagedName(s)] : m \in {StagedName(s)} \cap DOMAIN tree}
  BY <1>3 DEF ResolvesTo, StagedName
<1> QED BY <1>4, <1>5, <1>6, ResolvedInTree

\* Among siblings everything staged is a file in the test's directory, and
\* each of its imports was taken.
LEMMA SiblingsStaged ==
    ASSUME Inv, Staged, OneExtension, Flat
    PROVE  /\ Range(tree) = {Entry} \cup Froms /\ Range(tree) \subseteq Beside
           /\ \A n \in DOMAIN tree : Front(n) = <<>>
           /\ \A f \in Range(tree) : \A s \in Imports(f) :
                 s.path \in Seq(STRING) /\ Resolved(s.path) /\ Means(f, s) = There(s.path)
<1>0. TypeInv /\ NamesAreTaken /\ corpus \in Corpora
  BY DEF Inv, TypeInv
<1>1. /\ queue = <<>>
      /\ DOMAIN tree = {out[n].name : n \in DOMAIN out} \cup {EntryName}
      /\ tree[EntryName] = Entry
      /\ \A n \in DOMAIN out : tree[out[n].name] = out[n].from
  BY DEF Inv, TreeIsWritten
<1>2. /\ Froms \subseteq Beside
      /\ \A v \in visited : Resolved(v)
      /\ \A f \in {Entry} \cup Froms : \A s \in Imports(f) : s.path \in visited
  <2>1. DOMAIN queue = {}
    BY <1>1
  <2> QED BY <2>1 DEF Inv, Siblings
<1>3. Range(tree) = {Entry} \cup Froms
  BY <1>1 DEF Range, Froms
<1>4. Entry \in Beside
  BY <1>0, FileFacts, ModuleGraphAssumption DEF Beside
<1>5. ASSUME NEW n \in DOMAIN tree PROVE Front(n) = <<>>
  <2>1. CASE n = EntryName
    BY <1>0, <2>1, FileFacts DEF Dir, EntryName
  <2>2. CASE n # EntryName
    <3>1. PICK k \in DOMAIN out : out[k].name = n
      BY <1>1, <2>2
    <3>2. n \in visited
      BY <1>0, <3>1 DEF NamesAreTaken
    <3>3. Held(n) = There(n)
      BY <1>2, <2>2, <3>2 DEF Resolved
    <3>4. out[k].from \in There(n) /\ out[k].from \in Beside
      BY <1>2, <3>1, <3>3 DEF Held, Froms
    <3>5. n = Place[out[k].from].path /\ Len(n) = 1 /\ out[k].from \in Files
      BY <3>4 DEF There, Beside
    <3>6. n \in Paths
      BY <1>0, <3>5, FileFacts
    <3> QED BY <3>5, <3>6, OneComponent
  <2> QED BY <2>1, <2>2
<1>6. ASSUME NEW f \in {Entry} \cup Froms, NEW s \in Imports(f)
      PROVE  s.path \in Seq(STRING) /\ Resolved(s.path) /\ Means(f, s) = There(s.path)
  <2>1. f \in Beside /\ f \in Files
    BY <1>2, <1>4 DEF Beside
  <2>2. s.path \in Seq(STRING)
    BY <1>0, <2>1, ImportFacts, PathFacts
  <2>3. Clean(Dir(f) \o s.path) = s.path
    BY <1>0, <2>1, SiblingFacts
  <2>4. Means(f, s) = There(s.path)
    BY <1>0, <2>1, <2>3, MeansFacts
  <2> QED BY <1>2, <2>2, <2>4
<1> QED BY <1>2, <1>3, <1>4, <1>5, <1>6

\* What the test imports is what its imports find in the scratch tree; among
\* siblings the tree is what the test reaches, and so do all imports.
THEOREM ImportsFindTheirFiles == GraphSpec => []ImportsResolveAsInCorpus
<1>1. Inv => ImportsResolveAsInCorpus
  <2> SUFFICES ASSUME Inv, Staged, OneExtension
               PROVE  /\ \A s \in Imports(Entry) :
                            ~Climbs(s) /\ StagedName(s) # EntryName =>
                                ResolvesTo(EntryName, s) = Means(Entry, s)
                      /\ Flat =>
                          /\ Closed(Range(tree))
                          /\ \A S \in SUBSET Beside :
                                Entry \in S /\ Closed(S) => Range(tree) \subseteq S
                          /\ \A n \in DOMAIN tree : \A s \in Imports(tree[n]) :
                                ResolvesTo(n, s) = Means(tree[n], s)
    BY DEF ImportsResolveAsInCorpus
  <2>1. \A s \in Imports(Entry) :
            ~Climbs(s) /\ StagedName(s) # EntryName => ResolvesTo(EntryName, s) = Means(Entry, s)
    BY OwnImports
  <2>2. ASSUME Flat PROVE Closed(Range(tree))
    <3> SUFFICES ASSUME NEW f \in Range(tree), NEW s \in Imports(f)
                 PROVE  Means(f, s) \subseteq Range(tree)
      BY DEF Closed
    <3>1. Resolved(s.path) /\ Means(f, s) = There(s.path) /\ Range(tree) = {Entry} \cup Froms
      BY <2>2, SiblingsStaged
    <3>2. There(s.path) \subseteq {Entry} \cup Froms
      BY <3>1, EntryIsThere DEF Resolved, Inv, TypeInv, Held, Froms
    <3> QED BY <3>1, <3>2
  <2>3. ASSUME Flat, NEW S \in SUBSET Beside, Entry \in S, Closed(S)
        PROVE  Range(tree) \subseteq S
    <3>1. S \in SUBSET Files
      BY DEF Beside
    <3>2. Froms \subseteq S
      BY <2>3, <3>1 DEF Inv, Reached
    <3> QED BY <2>3, <3>2, SiblingsStaged
  <2>4. ASSUME Flat, NEW n \in DOMAIN tree, NEW s \in Imports(tree[n])
        PROVE  ResolvesTo(n, s) = Means(tree[n], s)
    <3>1. tree[n] \in Range(tree)
      BY DEF Range
    <3>2. /\ s.path \in Seq(STRING) /\ Resolved(s.path) /\ Means(tree[n], s) = There(s.path)
          /\ Front(n) = <<>> /\ tree[n] \in Beside
      BY <2>4, <3>1, SiblingsStaged
    <3>3. Clean(Front(n) \o s.path) = s.path
      <4>1. Dir(tree[n]) = <<>> /\ Clean(Dir(tree[n]) \o s.path) = s.path
        BY <2>4, <3>2, SiblingFacts DEF Inv, TypeInv
      <4> QED BY <3>2, <4>1
    <3>4. ResolvesTo(n, s) = {tree[s.path] : m \in {s.path} \cap DOMAIN tree}
      BY <3>3 DEF ResolvesTo
    <3> QED BY <3>2, <3>4, ResolvedInTree
  <2> QED BY <2>1, <2>2, <2>3, <2>4
<1> QED BY <1>1, InvHolds, PTL

-----------------------------------------------------------------------------
(***************************************************************************)
(* The cache keys.                                                         *)
(***************************************************************************)

(***************************************************************************)
(* The inductive invariant.                                                *)
(***************************************************************************)

\* Revisions only grow, one per edit at most, and a worker knows part of the
\* tail cache.
Revisions ==
    /\ edits \in 0..MaxEdits
    /\ test \in [Tests -> 0..edits] /\ fixture \in [Tests -> 0..edits]
    /\ port \in [Ports -> 0..edits] /\ lowering \in [Tests -> 0..edits]
    /\ bento \in 0..edits /\ runtime \in 0..bento /\ judge \in 0..edits
    /\ hidden \in BOOLEAN
    /\ skewed \subseteq (0..bento) \X Tests
    /\ known \subseteq tail

\* Put keeps one entry per key.
OneEntryPerKey ==
    \A c \in {results, tail} : \A d, e \in c : d[1] = e[1] => d = e

\* A tail entry is the verdict of the Go and the runtime its key names.
TailIsTrue == \A e \in tail : e[2].go = e[1][1] /\ e[2].runtime = e[1][2]

\* A results entry is the verdict of the text its key names.  The key does not
\* name the lowering and the runtime, only the bento they belong to: an entry of
\* today's bento has today's runtime, and today's lowering if no runner that
\* lowers the test otherwise answered under it; and no entry is of a bento yet
\* to come.
ResultsAreTrue ==
    \A e \in results :
        /\ e[1][1] \in Nat /\ e[1][1] <= bento
        /\ e[2].go.text = e[1][3][2]
        /\ e[1][1] = bento =>
              /\ e[2].runtime = runtime
              /\ <<bento, e[1][3][2][1]>> \notin skewed =>
                    e[2].go.lowering = lowering[e[1][3][2][1]]

KeyInv ==
    /\ Revisions
    /\ OneEntryPerKey
    /\ TailIsTrue
    /\ ResultsAreTrue
    /\ KeptRunnerIsTheTree

LEMMA KeyInvInit == Init => KeyInv
<1> SUFFICES ASSUME Init PROVE KeyInv
  OBVIOUS
<1>1. Revisions
  <2>1. hidden \in BOOLEAN
    BY DEF Init
  <2>2. /\ edits \in 0..MaxEdits
        /\ test \in [Tests -> 0..edits] /\ fixture \in [Tests -> 0..edits]
        /\ port \in [Ports -> 0..edits] /\ lowering \in [Tests -> 0..edits]
        /\ bento \in 0..edits /\ runtime \in 0..bento /\ judge \in 0..edits
    BY FreshnessAssumption DEF Init
  <2>3. skewed \subseteq (0..bento) \X Tests /\ known \subseteq tail
    BY DEF Init
  <2> QED
    BY <2>1, <2>2, <2>3 DEF Revisions
<1>2. OneEntryPerKey /\ TailIsTrue /\ ResultsAreTrue
  BY DEF Init, OneEntryPerKey, TailIsTrue, ResultsAreTrue
<1>3. KeptRunnerIsTheTree
  BY DEF Init, KeptRunnerIsTheTree
<1> QED
  BY <1>1, <1>2, <1>3 DEF KeyInv

(***************************************************************************)
(* The edits.  None touches a cache; those that change a lowering or the   *)
(* runtime change bento too, and so leave no entry of today's bento; those *)
(* that change what go build would link start a key or are hidden.         *)
(***************************************************************************)
AnyEdit ==
    \/ \E f \in Tests : EditTest(f) \/ EditFixture(f)
    \/ \E p \in Ports : EditPort(p)
    \/ \E shown \in BOOLEAN :
          \/ \E S \in SUBSET Tests : EditCompiler(S, shown)
          \/ EditRuntime(shown) \/ EditJudge(shown)

LEMMA EditKeepsRevisions == Revisions /\ AnyEdit => Revisions'
<1> SUFFICES ASSUME Revisions, AnyEdit PROVE Revisions'
  OBVIOUS
<1> USE FreshnessAssumption DEF Revisions, Edit, Rekey, checkout, inputs
<1>1. ASSUME NEW f \in Tests, EditTest(f) PROVE Revisions'
  BY <1>1 DEF EditTest
<1>2. ASSUME NEW f \in Tests, EditFixture(f) PROVE Revisions'
  BY <1>2 DEF EditFixture
<1>3. ASSUME NEW p \in Ports, EditPort(p) PROVE Revisions'
  BY <1>3 DEF EditPort
<1>4. ASSUME NEW S \in SUBSET Tests, NEW shown \in BOOLEAN, EditCompiler(S, shown)
      PROVE  Revisions'
  BY <1>4 DEF EditCompiler
<1>5. ASSUME NEW shown \in BOOLEAN, EditRuntime(shown) PROVE Revisions'
  BY <1>5 DEF EditRuntime
<1>6. ASSUME NEW shown \in BOOLEAN, EditJudge(shown) PROVE Revisions'
  BY <1>6 DEF EditJudge
<1> QED
  BY <1>1, <1>2, <1>3, <1>4, <1>5, <1>6 DEF AnyEdit

LEMMA EditKeepsInv == KeyInv /\ AnyEdit => KeyInv'
<1> SUFFICES ASSUME KeyInv, AnyEdit PROVE KeyInv'
  OBVIOUS
<1>1. Revisions'
  BY EditKeepsRevisions DEF KeyInv
<1>2. UNCHANGED <<results, tail, skewed>>
  BY DEF AnyEdit, EditTest, EditFixture, EditPort, EditCompiler, EditRuntime,
     EditJudge, Edit
<1>3. \/ UNCHANGED <<bento, lowering, runtime>>
      \/ bento' = bento + 1
  BY DEF AnyEdit, EditTest, EditFixture, EditPort, EditCompiler, EditRuntime,
     EditJudge, checkout
<1>4. ResultsAreTrue'
  <2>1. CASE UNCHANGED <<bento, lowering, runtime>>
    BY <1>2, <2>1 DEF KeyInv, ResultsAreTrue
  <2>2. CASE bento' = bento + 1
    <3>1. \A e \in results : /\ e[1][1] \in Nat /\ e[1][1] <= bento
                            /\ e[2].go.text = e[1][3][2]
      BY DEF KeyInv, ResultsAreTrue
    <3>2. \A e \in results : e[1][1] <= bento' /\ e[1][1] # bento'
      BY <2>2, <3>1 DEF KeyInv, Revisions
    <3> QED
      BY <1>2, <3>1, <3>2 DEF ResultsAreTrue
  <2> QED
    BY <1>3, <2>1, <2>2
<1>5. OneEntryPerKey' /\ TailIsTrue'
  BY <1>2 DEF KeyInv, OneEntryPerKey, TailIsTrue
<1>6. KeptRunnerIsTheTree'
  <2>1. \/ UNCHANGED <<lowering, judge, kept, hidden>>
        \/ \E shown \in BOOLEAN : \E kind \in Kinds : Rekey(kind, shown)
    BY DEF AnyEdit, EditTest, EditFixture, EditPort, EditCompiler, EditRuntime,
       EditJudge, Edit, checkout
  <2>2. CASE UNCHANGED <<lowering, judge, kept, hidden>>
    BY <2>2 DEF KeyInv, KeptRunnerIsTheTree, Disk
  <2>3. ASSUME NEW kind, NEW shown \in BOOLEAN, Rekey(kind, shown)
        PROVE  KeptRunnerIsTheTree'
    BY <2>3 DEF Rekey, KeptRunnerIsTheTree
  <2> QED
    BY <2>1, <2>2, <2>3
<1> QED
  BY <1>1, <1>4, <1>5, <1>6 DEF KeyInv

(***************************************************************************)
(* The runner and the worker's snapshot: no cache changes.                 *)
(***************************************************************************)
LEMMA RunnerKeepsInv ==
    ASSUME KeyInv, GoBuild \/ RunnerSh \/ NewWorker
    PROVE  KeyInv'
<1>1. UNCHANGED <<inputs, checkout, hidden, results, tail, skewed, edits>> /\ known' = tail
  BY DEF GoBuild, RunnerSh, NewWorker, runner
<1>2. kept' \in {kept, Disk} /\ Disk' = Disk
  BY DEF GoBuild, RunnerSh, NewWorker, runner, checkout, Disk
<1>3. KeptRunnerIsTheTree'
  BY <1>1, <1>2 DEF KeyInv, KeptRunnerIsTheTree
<1> QED
  BY <1>1, <1>3 DEF KeyInv, Revisions, OneEntryPerKey, TailIsTrue, ResultsAreTrue,
     inputs, checkout

(***************************************************************************)
(* The answers.                                                            *)
(***************************************************************************)

\* What Put leaves in a cache.
LEMMA PutFacts ==
    ASSUME NEW cache, NEW key, NEW v, \A d, e \in cache : d[1] = e[1] => d = e
    PROVE  /\ cache \subseteq Put(cache, key, v)
           /\ Put(cache, key, v) \subseteq cache \cup {<<key, v>>}
           /\ \A d, e \in Put(cache, key, v) : d[1] = e[1] => d = e
BY DEF Put, Hits

\* Answering a job with a verdict of its Go and of today's runtime.
LEMMA AnswerKeepsInv ==
    ASSUME KeyInv, NEW j \in Jobs, NEW v, NEW r \in BOOLEAN, NEW t \in BOOLEAN,
           Answer(j, v, r, t), v.go = Emitted(j), v.runtime = runtime
    PROVE  KeyInv'
<1> DEFINE f == File[j]
<1>1. /\ UNCHANGED <<inputs, checkout, runner, known, edits>>
      /\ results' \in {results, Put(results, ResultsKey(j), v)}
      /\ tail' \in {tail, Put(tail, TailKey(j), v)}
      /\ skewed' \subseteq skewed \cup {<<bento, f>>}
      /\ skewed \subseteq skewed'
      /\ linked.lowering[f] # lowering[f] => <<bento, f>> \in skewed'
      /\ f \in Tests
  BY FreshnessAssumption DEF Answer
<1>2. v.go.text = Text(f) /\ v.go.lowering = linked.lowering[f]
  BY DEF Emitted
<1>3. /\ results \subseteq results' /\ results' \subseteq results \cup {<<ResultsKey(j), v>>}
      /\ tail \subseteq tail' /\ tail' \subseteq tail \cup {<<TailKey(j), v>>}
      /\ OneEntryPerKey'
  <2>1. /\ \A d, e \in results : d[1] = e[1] => d = e
        /\ \A d, e \in tail : d[1] = e[1] => d = e
    BY DEF KeyInv, OneEntryPerKey
  <2>2. /\ results \subseteq results' /\ results' \subseteq results \cup {<<ResultsKey(j), v>>}
        /\ \A d, e \in results' : d[1] = e[1] => d = e
    BY <1>1, <2>1, PutFacts
  <2>3. /\ tail \subseteq tail' /\ tail' \subseteq tail \cup {<<TailKey(j), v>>}
        /\ \A d, e \in tail' : d[1] = e[1] => d = e
    BY <1>1, <2>1, PutFacts
  <2> QED
    BY <2>2, <2>3 DEF OneEntryPerKey
<1>4. Revisions'
  BY <1>1, <1>3 DEF KeyInv, Revisions, inputs, checkout, runner
<1>5. TailIsTrue'
  <2>1. TailKey(j)[1] = v.go /\ TailKey(j)[2] = v.runtime
    BY DEF TailKey
  <2> QED
    BY <1>3, <2>1 DEF KeyInv, TailIsTrue
<1>6. ResultsAreTrue'
  <2> SUFFICES ASSUME NEW e \in results'
               PROVE  /\ e[1][1] \in Nat /\ e[1][1] <= bento
                      /\ e[2].go.text = e[1][3][2]
                      /\ e[1][1] = bento =>
                            /\ e[2].runtime = runtime
                            /\ <<bento, e[1][3][2][1]>> \notin skewed' =>
                                  e[2].go.lowering = lowering[e[1][3][2][1]]
    BY <1>1 DEF ResultsAreTrue, checkout
  <2>1. CASE e \in results
    BY <1>1, <2>1 DEF KeyInv, ResultsAreTrue
  <2>2. CASE e = <<ResultsKey(j), v>>
    <3>1. e[1] = ResultsKey(j) /\ e[2] = v
      BY <2>2
    <3>2. e[1][1] = bento /\ e[1][3][2] = Text(f) /\ Text(f)[1] = f
      BY <3>1 DEF ResultsKey, Source, Text
    <3> QED
      BY <1>1, <1>2, <3>1, <3>2 DEF KeyInv, Revisions
  <2> QED
    BY <1>3, <2>1, <2>2
<1>7. KeptRunnerIsTheTree'
  BY <1>1 DEF KeyInv, KeptRunnerIsTheTree, Disk, checkout, runner
<1> QED
  BY <1>3, <1>4, <1>5, <1>6, <1>7 DEF KeyInv

\* What an entry of today's tail key says of the job.
LEMMA TailHitIsFresh ==
    ASSUME KeyInv, NEW j \in Jobs, NEW e \in Hits(tail, TailKey(j))
    PROVE  /\ e[2].go = Emitted(j)
           /\ e[2].runtime = runtime
BY DEF KeyInv, TailIsTrue, Hits, TailKey

LEMMA KeyInvNext == KeyInv /\ [Next]_vars => KeyInv'
<1> SUFFICES ASSUME KeyInv, [Next]_vars PROVE KeyInv'
  OBVIOUS
<1>1. CASE AnyEdit
  BY <1>1, EditKeepsInv
<1>2. CASE GoBuild \/ RunnerSh \/ NewWorker
  BY <1>2, RunnerKeepsInv
<1>3. ASSUME NEW j \in Jobs, FromTail(j) PROVE KeyInv'
  <2>1. PICK e \in Hits(known, TailKey(j)), r \in BOOLEAN, t \in BOOLEAN :
            Answer(j, e[2], r, t)
    BY <1>3 DEF FromTail
  <2>2. e \in Hits(tail, TailKey(j))
    BY <2>1 DEF KeyInv, Revisions, Hits
  <2>3. e[2].go = Emitted(j) /\ e[2].runtime = runtime
    BY <2>2, TailHitIsFresh
  <2> QED
    BY <2>1, <2>3, AnswerKeepsInv
<1>4. ASSUME NEW j \in Jobs, FromBuild(j) PROVE KeyInv'
  <2>1. PICK r \in BOOLEAN, t \in BOOLEAN : Answer(j, Verdict(j), r, t)
    BY <1>4 DEF FromBuild
  <2>2. Verdict(j).go = Emitted(j) /\ Verdict(j).runtime = runtime
    BY DEF Verdict
  <2> QED
    BY <2>1, <2>2, AnswerKeepsInv
<1>5. CASE UNCHANGED vars
  BY <1>5 DEF vars, KeyInv, Revisions, OneEntryPerKey, TailIsTrue, ResultsAreTrue,
     KeptRunnerIsTheTree, Disk
<1> QED
  BY <1>1, <1>2, <1>3, <1>4, <1>5 DEF Next, AnyEdit

LEMMA KeyInvHolds == Spec => []KeyInv
BY KeyInvInit, KeyInvNext, PTL DEF Spec

(***************************************************************************)
(* The theorems.                                                           *)
(***************************************************************************)

\* The revisions stay within the number of edits, a worker's snapshot is part of
\* the tail cache, and neither cache ever has two entries for one key.
THEOREM RevisionsAreBounded == Spec => []TypeOK
<1>1. KeyInv => TypeOK
  BY FreshnessAssumption DEF KeyInv, Revisions, OneEntryPerKey, TypeOK
<1> QED
  BY <1>1, KeyInvHolds, PTL

\* What either cache replays is of the inputs its key covers, after any number of
\* edits, shown or hidden, with whichever runner: ResultsKey names the bento on
\* disk and not the lowering, which is why a runner that did not link the tree is
\* an exception.
THEOREM ReplaysAreFresh == Spec => []CoveredInputsAreFresh
<1>1. ASSUME KeyInv PROVE CoveredInputsAreFresh
  <2>1. ASSUME NEW j \in Jobs, NEW e \in Hits(results, ResultsKey(j))
        PROVE  /\ e[2].go.text = Text(File[j])
               /\ e[2].runtime = runtime
               /\ <<bento, File[j]>> \notin skewed =>
                     e[2].go.lowering = lowering[File[j]]
    <3>1. e \in results /\ e[1] = ResultsKey(j)
      BY DEF Hits
    <3>2. /\ e[1][1] = bento /\ e[1][3][2] = Text(File[j])
          /\ Text(File[j])[1] = File[j]
      BY <3>1 DEF ResultsKey, Source, Text
    <3> QED
      BY <1>1, <3>1, <3>2 DEF KeyInv, ResultsAreTrue
  <2> QED
    BY <1>1, <2>1, TailHitIsFresh DEF CoveredInputsAreFresh
<1> QED
  BY <1>1, KeyInvHolds, PTL

\* The runner under runner.sh's key of today links today's tree, as long as git
\* diff shows every edit.
THEOREM RunnersAreTheTree == Spec => []KeptRunnerIsTheTree
<1>1. KeyInv => KeptRunnerIsTheTree
  BY DEF KeyInv
<1> QED
  BY <1>1, KeyInvHolds, PTL

-----------------------------------------------------------------------------
(***************************************************************************)
(* The hoisted names.                                                      *)
(***************************************************************************)
CONSTANT MaxLen
VARIABLES text, depth, phase, place, stack, found, targets, name, won

Scan == INSTANCE Hoist WITH i <- place

(***************************************************************************)
(* The inductive invariant.                                                *)
(***************************************************************************)

\* The targets are places of names.  They are there once the walk is over, and
\* a walk that gave up has none.
TargetsAreNames ==
    /\ text \in Seq(Scan!Tokens) /\ place \in Nat \ {0}
    /\ found \cup targets \subseteq {n \in DOMAIN text : text[n] = "id"}
    /\ targets # {} => phase \in {"walked", "hoisted"}

\* A name gets its var in the last step, and only for its targets.
WinnersAreTargets ==
    won => phase = "hoisted" /\ name # {} /\ name \subseteq targets

ScanInv == TargetsAreNames /\ WinnersAreTargets

LEMMA ScanInvInit == Scan!Init => ScanInv
BY DEF Scan!Init, ScanInv, TargetsAreNames, WinnersAreTargets

\* A default ends further on, or at the end.
LEMMA SkipDefaultType ==
    ASSUME text \in Seq(Scan!Tokens), NEW j \in Nat \ {0}
    PROVE  Scan!SkipDefault(j) \in Nat \ {0}
<1> DEFINE Inside(k) == Scan!Cardinality({m \in j..(k - 1) : text[m] \in Scan!Open})
                        - Scan!Cardinality({m \in j..(k - 1) : text[m] \in Scan!Close})
           ends == {k \in j..Len(text) : text[k] \in Scan!Close \cup {","} /\ Inside(k) = 0}
<1>1. Scan!SkipDefault(j)
          = IF ends = {} THEN Len(text) + 1 ELSE CHOOSE k \in ends : \A m \in ends : k <= m
  BY Zenon DEF Scan!SkipDefault
<1> HIDE DEF Inside
<1>2. ends \subseteq j..Len(text)
  BY Zenon
<1> HIDE DEF ends
<1>0. ends \in SUBSET Nat /\ 0 \notin ends /\ Len(text) \in Nat
  BY <1>2
<1>3. ASSUME ends # {} PROVE (CHOOSE k \in ends : \A m \in ends : k <= m) \in ends
  <2>1. \E k \in ends : \A m \in ends : k <= m
    BY <1>0, <1>3, Least
  <2> QED BY <2>1, Zenon
<1> DEFINE c == CHOOSE k \in ends : \A m \in ends : k <= m
<1>4. Scan!SkipDefault(j) = IF ends = {} THEN Len(text) + 1 ELSE c
  BY <1>1
<1>5. ends # {} => c \in ends
  BY <1>3
<1> HIDE DEF c
<1>6. CASE ends = {}
  BY <1>0, <1>4, <1>6
<1>7. CASE ends # {}
  <2>1. Scan!SkipDefault(j) \in ends
    BY <1>4, <1>5, <1>7, Zenon
  <2> QED BY <1>0, <2>1
<1> QED BY <1>6, <1>7

\* A step of the walk goes on, gives up or ends it; a target is a name.
LEMMA StepKeepsScanInv == ScanInv /\ Scan!Step => ScanInv'
<1> SUFFICES ASSUME ScanInv, Scan!Step PROVE ScanInv'
  OBVIOUS
<1>1. phase = "walk" /\ ~won /\ targets = {} /\ TargetsAreNames
  <2>1. phase = "walk"
    BY Zenon DEF Scan!Step, Scan!OpenBracket, Scan!CloseBracket, Scan!Comma, Scan!Dots,
       Scan!Default, Scan!Ident, Scan!Other, Scan!Commit, Scan!At
  <2> QED BY <2>1 DEF ScanInv, TargetsAreNames, WinnersAreTargets
<1>2. CASE Scan!GiveUp
  BY <1>1, <1>2 DEF Scan!GiveUp, ScanInv, TargetsAreNames, WinnersAreTargets
<1>3. ASSUME NEW j \in Nat \ {0}, NEW frames, NEW seen, Scan!Go(j, frames, seen),
             seen \subseteq {n \in DOMAIN text : text[n] = "id"}
      PROVE  ScanInv'
  BY <1>1, <1>3 DEF Scan!Go, ScanInv, TargetsAreNames, WinnersAreTargets
<1>4. /\ place + 1 \in Nat \ {0} /\ place + 2 \in Nat \ {0}
      /\ found \subseteq {n \in DOMAIN text : text[n] = "id"}
  BY <1>1 DEF TargetsAreNames
<1>5. ASSUME NEW t, Scan!OpenBracket(t) PROVE ScanInv'
  BY <1>2, <1>3, <1>4, <1>5 DEF Scan!OpenBracket
<1>6. ASSUME NEW t, Scan!CloseBracket(t) PROVE ScanInv'
  BY <1>2, <1>3, <1>4, <1>6 DEF Scan!CloseBracket
<1>7. CASE Scan!Comma
  BY <1>2, <1>3, <1>4, <1>7 DEF Scan!Comma
<1>8. CASE Scan!Dots
  BY <1>2, <1>3, <1>4, <1>8 DEF Scan!Dots
<1>9. CASE Scan!Default
  <2>1. Scan!SkipDefault(place + 1) \in Nat \ {0}
    BY <1>1, SkipDefaultType DEF TargetsAreNames
  <2> QED BY <1>2, <1>3, <1>4, <1>9, <2>1 DEF Scan!Default
<1>10. CASE Scan!Ident
  <2>1. found \cup {place} \subseteq {n \in DOMAIN text : text[n] = "id"}
    BY <1>1, <1>4, <1>10 DEF Scan!Ident, Scan!At, TargetsAreNames
  <2> QED BY <1>2, <1>3, <1>4, <1>10, <2>1 DEF Scan!Ident
<1>11. CASE Scan!Other
  BY <1>2, <1>11 DEF Scan!Other
<1>12. CASE Scan!Commit
  BY <1>1, <1>4, <1>12 DEF Scan!Commit, ScanInv, TargetsAreNames, WinnersAreTargets
<1> QED BY <1>5, <1>6, <1>7, <1>8, <1>9, <1>10, <1>11, <1>12 DEF Scan!Step

LEMMA ScanInvNext == ScanInv /\ [Scan!Next]_(Scan!vars) => ScanInv'
<1> SUFFICES ASSUME ScanInv, [Scan!Next]_(Scan!vars) PROVE ScanInv'
  OBVIOUS
<1> USE DEF ScanInv, TargetsAreNames, WinnersAreTargets
<1>1. ASSUME NEW t \in Scan!Tokens, Scan!ScanToken(t) PROVE ScanInv'
  <2>1. /\ phase = "head" /\ text' = Append(text, t)
        /\ UNCHANGED <<phase, place, found, targets, name, won>>
    BY <1>1, Zenon DEF Scan!ScanToken
  <2>2. /\ text' \in Seq(Scan!Tokens) /\ DOMAIN text \subseteq DOMAIN text'
        /\ \A n \in DOMAIN text : text'[n] = text[n]
    <3>1. /\ text' \in Seq(Scan!Tokens) /\ Len(text') = Len(text) + 1
          /\ \A n \in 1..Len(text) : text'[n] = text[n]
      BY <2>1, AppendProperties
    <3> QED BY <3>1
  <2> QED BY <2>1, <2>2
<1>2. CASE Scan!NotABinding
  BY <1>2 DEF Scan!NotABinding
<1>3. CASE Scan!BindingEnds
  <2>1. /\ phase = "head" /\ phase' \in {"walk", "walked"}
        /\ targets' = {n \in {1} : text = <<"id">>}
        /\ targets' # {} => phase' = "walked"
        /\ UNCHANGED <<text, place, found, name, won>>
    <3>1. /\ phase = "head" /\ targets' = {n \in {1} : text = <<"id">>}
          /\ phase' = IF text # <<>> /\ Head(text) \in {"[", "{"} THEN "walk" ELSE "walked"
          /\ UNCHANGED <<text, place, found, name, won>>
      BY <1>3, Zenon DEF Scan!BindingEnds
    <3>2. text = <<"id">> => Head(text) = "id"
      OBVIOUS
    <3> QED BY <3>1, <3>2
  <2>2. targets' \subseteq {n \in DOMAIN text : text[n] = "id"}
    BY <2>1
  <2> QED BY <2>1, <2>2
<1>4. CASE Scan!Step
  BY <1>4, StepKeepsScanInv
<1>5. ASSUME NEW occs, NEW e, Scan!HoistName(occs, e) PROVE ScanInv'
  BY <1>5 DEF Scan!HoistName, Scan!Wins
<1>6. CASE UNCHANGED Scan!vars
  BY <1>6 DEF Scan!vars
<1> QED BY <1>1, <1>2, <1>3, <1>4, <1>5, <1>6 DEF Scan!Next, Scan!Over

LEMMA ScanInvHolds == Scan!Spec => []ScanInv
BY ScanInvInit, ScanInvNext, PTL DEF Scan!Spec

(***************************************************************************)
(* The theorems.                                                           *)
(***************************************************************************)

\* If the walk takes the names the grammar binds, or none, then a name that
\* gets a var is read nowhere: the hoisting itself adds no mistake to those of
\* the walk, on heads of any length.
THEOREM WinnersAreNeverRead ==
    Scan!Spec => [](Scan!AllBoundNamesOrNone => Scan!HoistedNamesAreNeverRead)
<1>1. ScanInv => (Scan!AllBoundNamesOrNone => Scan!HoistedNamesAreNeverRead)
  <2> SUFFICES ASSUME ScanInv, Scan!AllBoundNamesOrNone, won, text \in Scan!AllTexts,
                      ~Scan!Indexed
               PROVE  \E bound \in SUBSET DOMAIN text :
                         name \subseteq bound /\ Scan!Mark(text, bound) \in Scan!AllHeads
    BY DEF Scan!HoistedNamesAreNeverRead
  <2>1. phase = "hoisted" /\ targets # {} /\ name \subseteq targets
        /\ targets \subseteq DOMAIN text
    BY DEF ScanInv, WinnersAreTargets, TargetsAreNames
  <2>2. Scan!Mark(text, targets) \in Scan!AllHeads
    BY <2>1 DEF Scan!AllBoundNamesOrNone, Scan!Settled
  <2> QED BY <2>1, <2>2
<1> QED BY <1>1, ScanInvHolds, PTL
=============================================================================
