--------------------------- MODULE LowerOnlyProofs ---------------------------
(***************************************************************************)
(* What is proved of LowerOnly: for any corpus, any command line and any   *)
(* order in which the tasks of the two pools and the compilations end, the *)
(* jobs are the scope, in path order where the prefixes are, the memory is *)
(* respected, the report adds up, and the audit's list of includes agrees  *)
(* with Compose's.                                                         *)
(*                                                                         *)
(* The first part says what FlattenSeq and Only return, by induction on    *)
(* the number of parts (Least).                                            *)
(***************************************************************************)
EXTENDS LowerOnly, FiniteSetTheorems, WellFoundedInduction, TLAPS

\* A set of numbers that is not empty has a least element: induction, without
\* a predicate for a parameter.
LEMMA Least ==
    ASSUME NEW T \in SUBSET Nat, T # {}
    PROVE  \E x \in T : \A y \in T : x <= y
<1>1. IsWellFoundedOn(OpToRel(<, Nat), Nat)
  BY NatLessThanWellFounded
<1>2. PICK x \in T : \A y \in T : ~(<<y, x>> \in OpToRel(<, Nat))
  BY <1>1, WFMin
<1>3. \A y \in T : ~(y < x)
  BY <1>2 DEF OpToRel
<1> QED BY <1>3

\* f is the function FlattenSeq defines: its value at n joins the first n parts.
Flattens(f, n, ss) ==
    f = [i \in 1..n |-> IF i = 1 THEN ss[i] ELSE f[i - 1] \o ss[i]]

LEMMA FlattenExists ==
    ASSUME NEW ss, NEW N \in Nat
    PROVE  \E f : Flattens(f, N, ss)
<1> DEFINE T == {n \in Nat : ~ \E f : Flattens(f, n, ss)}
<1> SUFFICES ASSUME T # {} PROVE FALSE
  OBVIOUS
<1>1. PICK n \in T : \A m \in T : n <= m
  BY Least
<1>2. n # 0
  <2> SUFFICES \E f : Flattens(f, 0, ss)
    OBVIOUS
  <2> WITNESS [i \in 1..0 |-> 0]
  <2> QED BY DEF Flattens
<1>3. PICK f : Flattens(f, n - 1, ss)
  BY <1>1, <1>2
<1>4. n \in Nat /\ n - 1 \in Nat
  BY <1>2
<1> DEFINE g == [i \in 1..n |-> IF i = 1 THEN ss[i] ELSE f[i - 1] \o ss[i]]
<1>5. ASSUME NEW i \in 1..(n - 1) PROVE g[i] = f[i]
  <2>1. f[i] = IF i = 1 THEN ss[i] ELSE f[i - 1] \o ss[i]
    BY <1>3, <1>4, Zenon DEF Flattens
  <2>2. i \in 1..n
    BY <1>4
  <2> QED BY <2>1, <2>2, Zenon
<1>6. ASSUME NEW i \in 1..n, i # 1 PROVE g[i - 1] = f[i - 1]
  <2>1. i - 1 \in 1..(n - 1)
    BY <1>4, <1>6
  <2> QED BY <2>1, <1>5, Zenon
<1>7. ASSUME NEW i \in 1..n
      PROVE  (IF i = 1 THEN ss[i] ELSE f[i - 1] \o ss[i])
               = (IF i = 1 THEN ss[i] ELSE g[i - 1] \o ss[i])
  BY <1>6, Zenon
<1>8. g = [i \in 1..n |-> IF i = 1 THEN ss[i] ELSE g[i - 1] \o ss[i]]
  BY <1>7, Zenon
<1> QED BY <1>4, <1>8 DEF Flattens

\* s lists the elements of the first n parts, and in their order: by part, then
\* by the place in the part.
Precedes(i, j, k, l) == i < k \/ (i = k /\ j < l)

Lists(s, n, ss) ==
    /\ \A p \in 1..Len(s) : \E i \in 1..n : \E j \in 1..Len(ss[i]) : s[p] = ss[i][j]
    /\ \A i \in 1..n : \A j \in 1..Len(ss[i]) : \E p \in 1..Len(s) : s[p] = ss[i][j]
    /\ \A p, q \in 1..Len(s) : p < q =>
          \E i, k \in 1..n : \E j \in 1..Len(ss[i]), l \in 1..Len(ss[k]) :
              s[p] = ss[i][j] /\ s[q] = ss[k][l] /\ Precedes(i, j, k, l)

\* Joining one part more.
LEMMA ListsMore ==
    ASSUME NEW S, NEW ss \in Seq(Seq(S)), NEW n \in 1..Len(ss), n # 1,
           NEW s \in Seq(S), Lists(s, n - 1, ss)
    PROVE  Lists(s \o ss[n], n, ss)
<1> DEFINE t == ss[n]
           u == s \o t
<1>1. t \in Seq(S) /\ n \in Nat /\ n - 1 \in Nat /\ n \in 1..n
      /\ \A i \in 1..(n - 1) : i \in 1..n /\ i < n
  OBVIOUS
<1>2. u \in Seq(S) /\ Len(u) = Len(s) + Len(t)
  BY <1>1
<1>3. \A p \in 1..Len(s) : p \in 1..Len(u) /\ u[p] = s[p]
  BY <1>1, <1>2
<1>4. \A j \in 1..Len(t) : Len(s) + j \in 1..Len(u) /\ u[Len(s) + j] = t[j]
  BY <1>1, <1>2
<1>5. \A p \in 1..Len(u) : p \in 1..Len(s) \/ (p - Len(s) \in 1..Len(t) /\ u[p] = t[p - Len(s)])
  BY <1>1, <1>2
<1>6. \A p \in 1..Len(u) : \E i \in 1..n : \E j \in 1..Len(ss[i]) : u[p] = ss[i][j]
  <2> SUFFICES ASSUME NEW p \in 1..Len(u)
               PROVE  \E i \in 1..n : \E j \in 1..Len(ss[i]) : u[p] = ss[i][j]
    OBVIOUS
  <2>1. CASE p \in 1..Len(s)
    <3>1. PICK i \in 1..(n - 1) : \E j \in 1..Len(ss[i]) : s[p] = ss[i][j]
      BY <2>1, Zenon DEF Lists
    <3>2. u[p] = s[p] /\ i \in 1..n
      BY <2>1, <1>1, <1>3, Zenon
    <3> QED BY <3>1, <3>2, Zenon
  <2>2. CASE p - Len(s) \in 1..Len(t) /\ u[p] = t[p - Len(s)]
    BY <2>2, <1>1, Zenon
  <2> QED BY <2>1, <2>2, <1>5, Zenon
<1>7. \A i \in 1..n : \A j \in 1..Len(ss[i]) : \E p \in 1..Len(u) : u[p] = ss[i][j]
  <2> SUFFICES ASSUME NEW i \in 1..n, NEW j \in 1..Len(ss[i])
               PROVE  \E p \in 1..Len(u) : u[p] = ss[i][j]
    OBVIOUS
  <2>1. CASE i \in 1..(n - 1)
    <3>1. PICK p \in 1..Len(s) : s[p] = ss[i][j]
      BY <2>1, Zenon DEF Lists
    <3>2. u[p] = s[p] /\ p \in 1..Len(u)
      BY <1>3, Zenon
    <3> QED BY <3>1, <3>2, Zenon
  <2>2. CASE i = n
    BY <2>2, <1>4, Zenon
  <2>3. i \in 1..(n - 1) \/ i = n
    BY <1>1
  <2> QED BY <2>1, <2>2, <2>3
<1>8. ASSUME NEW p \in 1..Len(u), NEW q \in 1..Len(u), p < q
      PROVE  \E i, k \in 1..n : \E j \in 1..Len(ss[i]), l \in 1..Len(ss[k]) :
                 u[p] = ss[i][j] /\ u[q] = ss[k][l] /\ Precedes(i, j, k, l)
  <2>1. CASE p \in 1..Len(s) /\ q \in 1..Len(s)
    <3>1. PICK i \in 1..(n - 1), k \in 1..(n - 1) :
             \E j \in 1..Len(ss[i]), l \in 1..Len(ss[k]) :
                 s[p] = ss[i][j] /\ s[q] = ss[k][l] /\ Precedes(i, j, k, l)
      BY <2>1, <1>8, Zenon DEF Lists
    <3>2. u[p] = s[p] /\ u[q] = s[q] /\ i \in 1..n /\ k \in 1..n
      BY <2>1, <1>1, <1>3, Zenon
    <3> QED BY <3>1, <3>2, Zenon
  <2>2. CASE p \in 1..Len(s) /\ q - Len(s) \in 1..Len(t) /\ u[q] = t[q - Len(s)]
    <3>1. PICK i \in 1..(n - 1) : \E j \in 1..Len(ss[i]) : s[p] = ss[i][j]
      BY <2>2, Zenon DEF Lists
    <3>2. u[p] = s[p] /\ i \in 1..n /\ i < n
      BY <2>2, <1>1, <1>3, Zenon
    <3>3. \A j, l : Precedes(i, j, n, l)
      BY <3>2, Zenon DEF Precedes
    <3> QED BY <1>1, <2>2, <3>1, <3>2, <3>3, Zenon
  <2>3. CASE /\ p - Len(s) \in 1..Len(t) /\ u[p] = t[p - Len(s)]
             /\ q - Len(s) \in 1..Len(t) /\ u[q] = t[q - Len(s)]
    <3>1. p - Len(s) < q - Len(s)
      BY <1>2, <1>8
    <3>2. Precedes(n, p - Len(s), n, q - Len(s))
      BY <3>1, Zenon DEF Precedes
    <3> QED BY <1>1, <2>3, <3>2, Zenon
  <2>4. ~(q \in 1..Len(s) /\ p - Len(s) \in 1..Len(t))
    BY <1>2, <1>8
  <2> QED BY <1>5, <2>1, <2>2, <2>3, <2>4, Zenon
<1> HIDE DEF u
<1> QED BY <1>6, <1>7, <1>8, Zenon DEF Lists, u

\* The first part.
LEMMA ListsFirst ==
    ASSUME NEW S, NEW ss \in Seq(Seq(S)), Len(ss) # 0
    PROVE  Lists(ss[1], 1, ss)
<1>1. 1 \in 1..1 /\ \A i \in 1..1 : i = 1
  OBVIOUS
<1> QED BY <1>1 DEF Lists, Precedes

\* FlattenSeq returns a sequence, and it lists the elements of its parts.
LEMMA FlattenFacts ==
    ASSUME NEW S, NEW ss \in Seq(Seq(S))
    PROVE  FlattenSeq(ss) \in Seq(S) /\ Lists(FlattenSeq(ss), Len(ss), ss)
<1>0. Len(ss) \in Nat
  OBVIOUS
<1>1. CASE Len(ss) = 0
  <2>1. FlattenSeq(ss) = ss /\ ss = <<>> /\ 1..Len(ss) = {}
    BY <1>1 DEF FlattenSeq
  <2>2. <<>> \in Seq(S)
    OBVIOUS
  <2> QED BY <2>1, <2>2, Zenon DEF Lists
<1>2. CASE Len(ss) # 0
  <2> DEFINE f == CHOOSE f : Flattens(f, Len(ss), ss)
  <2>1. Flattens(f, Len(ss), ss)
    BY <1>0, FlattenExists, Zenon
  <2>2. FlattenSeq(ss) = f[Len(ss)]
    BY <1>2 DEF FlattenSeq, Flattens
  <2> HIDE DEF f
  <2> DEFINE T == {n \in 1..Len(ss) : ~(f[n] \in Seq(S) /\ Lists(f[n], n, ss))}
  <2>3. T = {}
    <3> SUFFICES ASSUME T # {} PROVE FALSE
      OBVIOUS
    <3>0. T \in SUBSET Nat
      BY <1>0
    <3>1. PICK n \in T : \A m \in T : n <= m
      BY <3>0, Least, Zenon
    <3>2. CASE n = 1
      <4>1. f[1] = ss[1] /\ ss[1] \in Seq(S)
        BY <1>2, <2>1 DEF Flattens
      <4> QED BY <3>2, <4>1, <1>2, ListsFirst, Zenon
    <3>3. CASE n # 1
      <4>1. n - 1 \in 1..Len(ss) /\ ~(n <= n - 1)
        BY <3>3, <1>0
      <4>2. f[n - 1] \in Seq(S) /\ Lists(f[n - 1], n - 1, ss)
        BY <3>1, <4>1, Zenon
      <4>3. f[n] = f[n - 1] \o ss[n]
        BY <2>1, <3>3 DEF Flattens
      <4>4. ss[n] \in Seq(S)
        OBVIOUS
      <4>5. f[n - 1] \o ss[n] \in Seq(S)
        BY <4>2, <4>4
      <4>6. Lists(f[n - 1] \o ss[n], n, ss)
        BY <4>2, <3>3, ListsMore
      <4> QED BY <4>3, <4>5, <4>6
    <3> QED BY <3>2, <3>3
  <2> QED BY <1>2, <2>2, <2>3
<1> QED BY <1>1, <1>2

\* o has the elements of s that are in T, in their order.
Filters(o, s, T) ==
    /\ \A p \in 1..Len(o) : \E i \in 1..Len(s) : s[i] \in T /\ o[p] = s[i]
    /\ \A i \in 1..Len(s) : s[i] \in T => \E p \in 1..Len(o) : o[p] = s[i]
    /\ \A p, q \in 1..Len(o) : p < q =>
          \E i, k \in 1..Len(s) : i < k /\ o[p] = s[i] /\ o[q] = s[k]

LEMMA Singleton ==
    ASSUME NEW A, NEW x \in A
    PROVE  /\ <<x>> \in Seq(A)
           /\ \A j \in 1..Len(<<x>>) : j = 1 /\ <<x>>[j] = x
           /\ 1 \in 1..Len(<<x>>) /\ <<x>>[1] = x
OBVIOUS

LEMMA OnlyFacts ==
    ASSUME NEW S, NEW s \in Seq(S), NEW T
    PROVE  Only(s, T) \in Seq(S \cap T) /\ Filters(Only(s, T), s, T)
<1> DEFINE ss == [n \in DOMAIN s |-> IF s[n] \in T THEN <<s[n]>> ELSE <<>>]
           o  == Only(s, T)
<1>1. DOMAIN s = 1..Len(s) /\ Len(s) \in Nat
  OBVIOUS
<1>2. ASSUME NEW i \in 1..Len(s)
      PROVE  /\ ss[i] \in Seq(S \cap T)
             /\ \A j \in 1..Len(ss[i]) : j = 1 /\ s[i] \in T /\ ss[i][j] = s[i]
             /\ s[i] \in T => 1 \in 1..Len(ss[i]) /\ ss[i][1] = s[i]
  <2>1. CASE s[i] \in T
    <3>1. ss[i] = <<s[i]>> /\ s[i] \in S \cap T
      BY <2>1, <1>1
    <3> HIDE DEF ss
    <3> DEFINE x == s[i]
    <3>2. /\ <<x>> \in Seq(S \cap T)
          /\ \A j \in 1..Len(<<x>>) : j = 1 /\ <<x>>[j] = x
          /\ 1 \in 1..Len(<<x>>) /\ <<x>>[1] = x
      BY <3>1, Singleton
    <3> QED BY <2>1, <3>1, <3>2, Zenon
  <2>2. CASE s[i] \notin T
    <3>1. ss[i] = <<>>
      BY <2>2, <1>1
    <3>2. <<>> \in Seq(S \cap T) /\ Len(<<>>) = 0 /\ 1..0 = {}
      OBVIOUS
    <3> QED BY <2>2, <3>1, <3>2
  <2> QED BY <2>1, <2>2
<1>3. ss \in Seq(Seq(S \cap T)) /\ Len(ss) = Len(s)
  <2>1. ss = [n \in 1..Len(s) |-> ss[n]]
    BY <1>1, Zenon
  <2> HIDE DEF ss
  <2> QED BY <1>1, <1>2, <2>1
<1>4. o = FlattenSeq(ss)
  BY Zenon DEF Only
<1> HIDE DEF ss, o
<1>5. o \in Seq(S \cap T) /\ Lists(o, Len(s), ss)
  BY <1>3, <1>4, FlattenFacts, Zenon
<1>6. ASSUME NEW p \in 1..Len(o)
      PROVE  \E i \in 1..Len(s) : s[i] \in T /\ o[p] = s[i]
  <2>1. PICK i \in 1..Len(s) : \E j \in 1..Len(ss[i]) : o[p] = ss[i][j]
    BY <1>5, Zenon DEF Lists
  <2> QED BY <2>1, <1>2, Zenon
<1>7. ASSUME NEW i \in 1..Len(s), s[i] \in T
      PROVE  \E p \in 1..Len(o) : o[p] = s[i]
  <2>1. 1 \in 1..Len(ss[i]) /\ ss[i][1] = s[i]
    BY <1>2, <1>7, Zenon
  <2>2. \E p \in 1..Len(o) : o[p] = ss[i][1]
    BY <2>1, <1>5, Zenon DEF Lists
  <2> QED BY <2>1, <2>2, Zenon
<1>8. ASSUME NEW p \in 1..Len(o), NEW q \in 1..Len(o), p < q
      PROVE  \E i, k \in 1..Len(s) : i < k /\ o[p] = s[i] /\ o[q] = s[k]
  <2>1. PICK i \in 1..Len(s), k \in 1..Len(s) :
           \E j \in 1..Len(ss[i]), l \in 1..Len(ss[k]) :
               o[p] = ss[i][j] /\ o[q] = ss[k][l] /\ Precedes(i, j, k, l)
    BY <1>5, <1>8, Zenon DEF Lists
  <2>2. PICK j \in 1..Len(ss[i]), l \in 1..Len(ss[k]) :
            o[p] = ss[i][j] /\ o[q] = ss[k][l] /\ Precedes(i, j, k, l)
    BY <2>1
  <2>3. j = 1 /\ l = 1 /\ o[p] = s[i] /\ o[q] = s[k]
    BY <2>2, <1>2, Zenon
  <2>4. i < k
    BY <2>2, <2>3 DEF Precedes
  <2> QED BY <2>3, <2>4
<1> QED BY <1>5, <1>6, <1>7, <1>8, Zenon DEF o, Filters

-----------------------------------------------------------------------------
(***************************************************************************)
(* The scope, and the order of its files: by prefix, then by path.         *)
(***************************************************************************)

FileBefore(pre, f, g) ==
    \E m, n \in DOMAIN pre :
        f \in pre[m] /\ g \in pre[n] /\ (m < n \/ (m = n /\ f < g))

InOrder(pre, s) ==
    \A p, q \in 1..Len(s) : p < q => FileBefore(pre, s[p], s[q])

LEMMA OnlyInOrder ==
    ASSUME NEW S, NEW s \in Seq(S), NEW T, NEW pre, InOrder(pre, s)
    PROVE  InOrder(pre, Only(s, T))
<1> DEFINE o == Only(s, T)
<1> HIDE DEF o
<1> SUFFICES ASSUME NEW p \in 1..Len(o), NEW q \in 1..Len(o), p < q
             PROVE  FileBefore(pre, o[p], o[q])
  BY DEF InOrder, o
<1>1. PICK i \in 1..Len(s), k \in 1..Len(s) : i < k /\ o[p] = s[i] /\ o[q] = s[k]
  <2>1. Filters(o, s, T)
    BY OnlyFacts, Zenon DEF o
  <2> QED BY <2>1, Zenon DEF Filters
<1> QED BY <1>1, Zenon DEF InOrder

\* The walk lists the tests under the prefixes, in order.
LEMMA WalkedFacts ==
    ASSUME NEW ki \in [Files -> Kinds], NEW pre \in Seq(SUBSET Files)
    PROVE  /\ Walked(pre, ki) \in Seq(Files)
           /\ \A p \in 1..Len(Walked(pre, ki)) :
                 /\ Walked(pre, ki)[p] \in UNION Range(pre)
                 /\ ~ki[Walked(pre, ki)[p]].fixture
           /\ \A f \in UNION Range(pre) : ~ki[f].fixture =>
                 \E p \in 1..Len(Walked(pre, ki)) : Walked(pre, ki)[p] = f
           /\ InOrder(pre, Walked(pre, ki))
<1> DEFINE id   == [f \in DOMAIN ki |-> f]
           T(n) == {f \in pre[n] : ~ki[f].fixture}
           ss   == [n \in DOMAIN pre |-> Only(id, T(n))]
           w    == Walked(pre, ki)
<1>1. /\ Cardinality(Files) \in Nat /\ Files = 1..Cardinality(Files)
      /\ DOMAIN pre = 1..Len(pre) /\ Len(pre) \in Nat
  BY LowerOnlyAssumption, FS_CardinalityType
<1>2. id \in Seq(Files) /\ Len(id) = Cardinality(Files)
      /\ \A f \in Files : f \in 1..Len(id) /\ id[f] = f
  BY <1>1
<1> HIDE DEF id
<1>3. ASSUME NEW n \in 1..Len(pre)
      PROVE  /\ ss[n] \in Seq(Files)
             /\ \A j \in 1..Len(ss[n]) : ss[n][j] \in T(n)
             /\ \A f \in T(n) : \E j \in 1..Len(ss[n]) : ss[n][j] = f
             /\ \A j, l \in 1..Len(ss[n]) : j < l => ss[n][j] < ss[n][l]
  <2> DEFINE o == Only(id, T(n))
  <2>1. ss[n] = o
    BY <1>1, Zenon
  <2> HIDE DEF ss
  <2>2. T(n) \subseteq Files
    OBVIOUS
  <2> HIDE DEF T
  <2>3. o \in Seq(Files \cap T(n)) /\ Filters(o, id, T(n))
    BY <1>2, OnlyFacts, Zenon
  <2> HIDE DEF o
  <2>4. o \in Seq(Files) /\ \A j \in 1..Len(o) : o[j] \in T(n)
    BY <2>3
  <2>5. ASSUME NEW f \in T(n) PROVE \E j \in 1..Len(o) : o[j] = f
    <3>1. f \in 1..Len(id) /\ id[f] = f
      BY <1>2, <2>2, Zenon
    <3> QED BY <3>1, <2>3, Zenon DEF Filters
  <2>6. ASSUME NEW j \in 1..Len(o), NEW l \in 1..Len(o), j < l
        PROVE  o[j] < o[l]
    <3>1. PICK i \in 1..Len(id), k \in 1..Len(id) :
              i < k /\ o[j] = id[i] /\ o[l] = id[k]
      BY <2>3, <2>6, Zenon DEF Filters
    <3>2. id[i] = i /\ id[k] = k
      BY <1>1, <1>2
    <3> QED BY <3>1, <3>2, Zenon
  <2> QED BY <2>1, <2>4, <2>5, <2>6, Zenon
<1>4. ss \in Seq(Seq(Files)) /\ Len(ss) = Len(pre)
  <2>1. ss = [n \in 1..Len(pre) |-> ss[n]]
    BY <1>1, Zenon
  <2> HIDE DEF ss
  <2> QED BY <1>1, <1>3, <2>1
<1>5. w = FlattenSeq(ss)
  BY Zenon DEF Walked, id
<1> HIDE DEF ss, w
<1>6. w \in Seq(Files) /\ Lists(w, Len(pre), ss)
  BY <1>4, <1>5, FlattenFacts, Zenon
<1>7. \A f : f \in UNION Range(pre) <=> \E n \in 1..Len(pre) : f \in pre[n]
  BY <1>1, Zenon DEF Range
<1>8. \A p \in 1..Len(w) : w[p] \in UNION Range(pre) /\ ~ki[w[p]].fixture
  <2> SUFFICES ASSUME NEW p \in 1..Len(w)
               PROVE  w[p] \in UNION Range(pre) /\ ~ki[w[p]].fixture
    OBVIOUS
  <2>1. PICK n \in 1..Len(pre) : w[p] \in T(n)
    <3>1. PICK n \in 1..Len(pre) : \E j \in 1..Len(ss[n]) : w[p] = ss[n][j]
      BY <1>6, Zenon DEF Lists
    <3> HIDE DEF T
    <3> QED BY <3>1, <1>3, Zenon
  <2> QED BY <2>1, <1>7
<1>9. ASSUME NEW f \in UNION Range(pre), ~ki[f].fixture
      PROVE  \E p \in 1..Len(w) : w[p] = f
  <2>1. PICK n \in 1..Len(pre) : f \in pre[n]
    BY <1>7
  <2>2. f \in T(n)
    BY <2>1, <1>9
  <2>3. PICK j \in 1..Len(ss[n]) : ss[n][j] = f
    BY <2>2, <1>3, Zenon
  <2> QED BY <2>3, <1>6, Zenon DEF Lists
<1>10. ASSUME NEW p \in 1..Len(w), NEW q \in 1..Len(w), p < q
       PROVE  FileBefore(pre, w[p], w[q])
  <2>1. PICK m \in 1..Len(pre), n \in 1..Len(pre) :
            \E j \in 1..Len(ss[m]), l \in 1..Len(ss[n]) :
                w[p] = ss[m][j] /\ w[q] = ss[n][l] /\ Precedes(m, j, n, l)
    BY <1>6, <1>10, Zenon DEF Lists
  <2>2. w[p] \in T(m) /\ w[q] \in T(n) /\ (m < n \/ (m = n /\ w[p] < w[q]))
    <3>1. PICK j \in 1..Len(ss[m]), l \in 1..Len(ss[n]) :
              w[p] = ss[m][j] /\ w[q] = ss[n][l] /\ Precedes(m, j, n, l)
      BY <2>1
    <3>2. w[p] \in T(m) /\ w[q] \in T(n)
      <4> HIDE DEF T
      <4> QED BY <3>1, <1>3, Zenon
    <3>3. CASE m < n
      BY <3>2, <3>3, Zenon
    <3>4. CASE m = n /\ j < l
      <4> HIDE DEF T
      <4>1. ss[m][j] < ss[m][l]
        BY <3>4, <1>3, Zenon
      <4>2. w[p] < w[q]
        BY <3>1, <3>4, <4>1, Zenon
      <4> QED BY <3>2, <3>4, <4>2, Zenon
    <3> QED BY <3>1, <3>3, <3>4 DEF Precedes
  <2>3. w[p] \in pre[m] /\ w[q] \in pre[n] /\ m \in DOMAIN pre /\ n \in DOMAIN pre
    BY <2>2, <1>1
  <2> QED BY <2>2, <2>3, Zenon DEF FileBefore
<1> QED BY <1>6, <1>8, <1>9, <1>10, Zenon DEF w, InOrder

\* The files a command line asks for.
Wanted(ki, se) ==
    {f \in (UNION Range(se.prefixes)) \cap se.grep : f \notin se.deny /\ ~ki[f].fixture}

\* Of two files walked by path, cs does not leave out the first and keep the
\* second.
Closed(cs, ki, se) ==
    Disjoint(se.prefixes) =>
        \A f \in Wanted(ki, se) : \A n \in 1..Len(cs) :
            f < cs[n] /\ WalkedByPath(se.prefixes, f, cs[n]) =>
                \E q \in 1..Len(cs) : cs[q] = f

\* The one the walk meets first is the first in path order.
LEMMA FilesAscend ==
    ASSUME NEW pre, DOMAIN pre \subseteq Nat, Disjoint(pre), NEW f, NEW g,
           WalkedByPath(pre, f, g), FileBefore(pre, f, g)
    PROVE  f < g
<1>1. PICK m \in DOMAIN pre, n \in DOMAIN pre :
          f \in pre[m] /\ g \in pre[n] /\ (m < n \/ (m = n /\ f < g))
  BY Zenon DEF FileBefore
<1>2. CASE \E k \in DOMAIN pre : f \in pre[k] /\ g \in pre[k]
  <2>1. PICK k \in DOMAIN pre : f \in pre[k] /\ g \in pre[k]
    BY <1>2
  <2>2. m = k /\ n = k
    BY <1>1, <2>1, Zenon DEF Disjoint
  <2>3. ~(m < n)
    BY <2>2
  <2> QED BY <1>1, <2>3, Zenon
<1>3. CASE \A i, k \in DOMAIN pre : i < k => \A x \in pre[i], y \in pre[k] : x < y
  BY <1>1, <1>3, Zenon
<1> QED BY <1>2, <1>3, Zenon DEF WalkedByPath

\* Which of the two is asked for first does not matter.
LEMMA WalkedByPathSymmetric ==
    ASSUME NEW pre, NEW f, NEW g, WalkedByPath(pre, f, g)
    PROVE  WalkedByPath(pre, g, f)
BY Zenon DEF WalkedByPath

\* cs is what Select and Quarantine leave of the walk.
InScope(cs, ki, se) ==
    /\ cs \in Seq(Files)
    /\ \A p \in 1..Len(cs) : cs[p] \in Wanted(ki, se)
    /\ se.limit <= 0 => \A f \in Wanted(ki, se) : \E p \in 1..Len(cs) : cs[p] = f
    /\ InOrder(se.prefixes, cs)
    /\ Closed(cs, ki, se)

LEMMA ScopedFacts ==
    ASSUME NEW ki \in [Files -> Kinds], NEW se \in Setups
    PROVE  InScope(Quarantine(Select(Walked(se.prefixes, ki), se.grep, se.limit),
                              se.deny),
                   ki, se)
<1> DEFINE w    == Walked(se.prefixes, ki)
           kept == Only(w, se.grep)
           sel  == Select(w, se.grep, se.limit)
           rest == Range(sel) \ se.deny
           cs   == Only(sel, rest)
<1>1. /\ se.prefixes \in Seq(SUBSET Files) /\ se.limit \in Int
  BY LowerOnlyAssumption
<1>2. /\ w \in Seq(Files)
      /\ \A p \in 1..Len(w) : w[p] \in UNION Range(se.prefixes) /\ ~ki[w[p]].fixture
      /\ \A f \in UNION Range(se.prefixes) : ~ki[f].fixture =>
            \E p \in 1..Len(w) : w[p] = f
      /\ InOrder(se.prefixes, w)
  BY <1>1, WalkedFacts, Zenon
<1> HIDE DEF w
<1>3. /\ kept \in Seq(Files \cap se.grep) /\ Filters(kept, w, se.grep)
      /\ InOrder(se.prefixes, kept)
  BY <1>2, OnlyFacts, OnlyInOrder, Zenon
<1>4. sel = IF se.limit > 0 /\ Len(kept) > se.limit
            THEN SubSeq(kept, 1, se.limit) ELSE kept
  BY Zenon DEF Select
<1> HIDE DEF kept, sel
<1>5. /\ sel \in Seq(Files)
      /\ \A p \in 1..Len(sel) : p \in 1..Len(kept) /\ sel[p] = kept[p]
      /\ se.limit <= 0 => sel = kept
  <2>1. CASE se.limit > 0 /\ Len(kept) > se.limit
    BY <2>1, <1>1, <1>3, <1>4
  <2>2. CASE ~(se.limit > 0 /\ Len(kept) > se.limit)
    BY <2>2, <1>1, <1>3, <1>4
  <2> QED BY <2>1, <2>2
<1>6. InOrder(se.prefixes, sel)
  BY <1>3, <1>5, Zenon DEF InOrder
<1>7. cs \in Seq(Files \cap rest) /\ Filters(cs, sel, rest)
  BY <1>5, OnlyFacts, Zenon
<1>8. InOrder(se.prefixes, cs)
  BY <1>5, <1>6, OnlyInOrder, Zenon
<1>9. \A p \in 1..Len(sel) : sel[p] \in Range(sel)
  BY <1>5 DEF Range
<1> HIDE DEF cs
<1>10. ASSUME NEW p \in 1..Len(cs) PROVE cs[p] \in Wanted(ki, se)
  <2>1. PICK i \in 1..Len(sel) : sel[i] \in rest /\ cs[p] = sel[i]
    BY <1>7, Zenon DEF Filters
  <2>2. PICK j \in 1..Len(w) : w[j] \in se.grep /\ kept[i] = w[j]
    BY <1>3, <1>5, Zenon DEF Filters
  <2>3. cs[p] = w[j]
    BY <2>1, <2>2, <1>5, Zenon
  <2> QED BY <1>2, <2>1, <2>2, <2>3, Zenon DEF Wanted
<1>11. ASSUME se.limit <= 0, NEW f \in Wanted(ki, se)
       PROVE  \E p \in 1..Len(cs) : cs[p] = f
  <2>1. f \in UNION Range(se.prefixes) /\ f \in se.grep /\ f \notin se.deny
        /\ ~ki[f].fixture
    BY DEF Wanted
  <2>2. PICK j \in 1..Len(w) : w[j] = f
    BY <1>2, <2>1, Zenon
  <2>3. PICK i \in 1..Len(kept) : kept[i] = f
    BY <1>3, <2>1, <2>2, Zenon DEF Filters
  <2>4. i \in 1..Len(sel) /\ sel[i] = f
    BY <1>5, <1>11, <2>3, Zenon
  <2>5. sel[i] \in rest
    BY <1>9, <2>1, <2>4, Zenon
  <2> QED BY <1>7, <2>4, <2>5, Zenon DEF Filters
<1>12. cs \in Seq(Files)
  BY <1>7
<1>13. Quarantine(sel, se.deny) = cs
  BY Zenon DEF Quarantine, cs
<1>15. Closed(cs, ki, se)
  <2> SUFFICES ASSUME Disjoint(se.prefixes), NEW f \in Wanted(ki, se),
                      NEW n \in 1..Len(cs), f < cs[n],
                      WalkedByPath(se.prefixes, f, cs[n])
               PROVE  \E q \in 1..Len(cs) : cs[q] = f
    BY Zenon DEF Closed
  <2>1. f \in UNION Range(se.prefixes) /\ f \in se.grep /\ f \notin se.deny
        /\ ~ki[f].fixture
    BY DEF Wanted
  <2>2. PICK j \in 1..Len(w) : w[j] = f
    BY <1>2, <2>1, Zenon
  <2>3. PICK i \in 1..Len(kept) : kept[i] = f
    BY <1>3, <2>1, <2>2, Zenon DEF Filters
  <2>4. PICK k \in 1..Len(sel) : cs[n] = sel[k]
    BY <1>7, Zenon DEF Filters
  <2>5. k \in 1..Len(kept) /\ sel[k] = kept[k]
    BY <1>5, <2>4, Zenon
  <2>6. f \in Nat /\ cs[n] \in Nat
    <3>1. f \in Files /\ cs[n] \in Files
      BY <1>3, <2>3, <2>4, <1>5
    <3> QED BY <3>1, LowerOnlyAssumption, FS_CardinalityType
  <2>7. ~(k < i)
    <3> SUFFICES ASSUME k < i PROVE FALSE
      OBVIOUS
    <3>1. FileBefore(se.prefixes, kept[k], kept[i])
      BY <1>3, <2>3, <2>5, Zenon DEF InOrder
    <3>a. WalkedByPath(se.prefixes, kept[k], kept[i])
      <4>1. kept[k] = cs[n] /\ kept[i] = f
        BY <2>3, <2>4, <2>5, Zenon
      <4> QED BY <4>1, WalkedByPathSymmetric, Zenon
    <3>b. DOMAIN se.prefixes \subseteq Nat
      BY <1>1
    <3>2. kept[k] < kept[i]
      BY <3>1, <3>a, <3>b, FilesAscend, Zenon
    <3> QED BY <3>2, <2>3, <2>4, <2>5, <2>6
  <2>8. i \in 1..Len(sel)
    <3>1. Len(kept) \in Nat /\ Len(sel) \in Nat
      BY <1>3, <1>5
    <3> QED BY <3>1, <2>3, <2>4, <2>7
  <2>9. sel[i] = f
    BY <1>5, <2>3, <2>8, Zenon
  <2>10. sel[i] \in rest
    BY <1>9, <2>1, <2>8, <2>9, Zenon
  <2> QED BY <1>7, <2>8, <2>9, <2>10, Zenon DEF Filters
<1>14. InScope(cs, ki, se)
  BY <1>8, <1>10, <1>11, <1>12, <1>15, Zenon DEF InScope
<1> QED BY <1>13, <1>14 DEF sel, w

-----------------------------------------------------------------------------
(***************************************************************************)
(* The slots of Jobs, and what is joined of them.                          *)
(***************************************************************************)

Modes == {"raw", "module", "strict", "sloppy"}

Entry(f, k, m) == [id |-> <<f, m>>, blame |-> Blame(k, m)]

Entries(f, k) == [n \in DOMAIN ModesOf(k) |-> Entry(f, k, ModesOf(k)[n])]

\* A test has one mode, or sloppy and strict in this order.
LEMMA ModesFacts ==
    ASSUME NEW k
    PROVE  /\ ModesOf(k) \in Seq(Modes)
           /\ \A i, j \in 1..Len(ModesOf(k)) :
                 i < j => ModesOf(k)[i] = "sloppy" /\ ModesOf(k)[j] = "strict"
<1>1. CASE \E m \in Modes : ModesOf(k) = <<m>>
  BY <1>1
<1>2. CASE ModesOf(k) = <<"sloppy", "strict">>
  BY <1>2 DEF Modes
<1>3. (\E m \in Modes : ModesOf(k) = <<m>>) \/ ModesOf(k) = <<"sloppy", "strict">>
  BY DEF ModesOf, Modes
<1> QED BY <1>1, <1>2, <1>3

\* The entries of a slot with a blame, and those without.
Chosen(f, k, b) == {j \in Range(Entries(f, k)) : (j.blame = "none") <=> b}

LEMMA SlotIs ==
    ASSUME NEW f, NEW k
    PROVE  /\ Slot(f, k).jobs = Only(Entries(f, k), Chosen(f, k, TRUE))
           /\ Slot(f, k).precooked = Only(Entries(f, k), Chosen(f, k, FALSE))
<1> DEFINE all == Entries(f, k)
<1>1. all = [n \in DOMAIN ModesOf(k) |->
               [id |-> <<f, ModesOf(k)[n]>>, blame |-> Blame(k, ModesOf(k)[n])]]
  BY Zenon DEF Entries, Entry
<1>2. /\ Slot(f, k).jobs = Only(all, {j \in Range(all) : j.blame = "none"})
      /\ Slot(f, k).precooked = Only(all, {j \in Range(all) : j.blame # "none"})
  <2> HIDE DEF all
  <2> QED BY <1>1, Zenon DEF Slot
<1>3. /\ {j \in Range(all) : j.blame = "none"} = Chosen(f, k, TRUE)
      /\ {j \in Range(all) : j.blame # "none"} = Chosen(f, k, FALSE)
  BY Zenon DEF Chosen
<1> QED BY <1>2, <1>3

LEMMA EntriesFacts ==
    ASSUME NEW f, NEW k
    PROVE  /\ Entries(f, k) \in Seq(Range(Entries(f, k)))
           /\ Len(Entries(f, k)) = Len(ModesOf(k))
           /\ \A i \in 1..Len(ModesOf(k)) :
                 /\ Entries(f, k)[i] = Entry(f, k, ModesOf(k)[i])
                 /\ Entries(f, k)[i] \in Range(Entries(f, k))
<1>1. DOMAIN ModesOf(k) = 1..Len(ModesOf(k)) /\ Len(ModesOf(k)) \in Nat
  BY ModesFacts
<1> DEFINE e == Entries(f, k)
<1>2. /\ e = [i \in 1..Len(ModesOf(k)) |-> e[i]]
      /\ \A i \in 1..Len(ModesOf(k)) : e[i] = Entry(f, k, ModesOf(k)[i])
  BY <1>1, Zenon DEF Entries
<1> HIDE DEF e
<1>3. DOMAIN e = 1..Len(ModesOf(k))
  BY <1>2
<1>4. \A i \in 1..Len(ModesOf(k)) : e[i] \in Range(e)
  BY <1>3, Zenon DEF Range
<1>5. e \in Seq(Range(e)) /\ Len(e) = Len(ModesOf(k))
  BY <1>1, <1>2, <1>4
<1> QED BY <1>2, <1>4, <1>5 DEF e

\* One job before another in the order of the walk: the prefix, then the path,
\* then the mode.
BeforeIn(pre, a, b) ==
    \E m, n \in DOMAIN pre :
        /\ a[1] \in pre[m] /\ b[1] \in pre[n]
        /\ \/ m < n
           \/ m = n /\ a[1] < b[1]
           \/ m = n /\ a[1] = b[1] /\ a[2] = "sloppy" /\ b[2] = "strict"

\* out is the jobs (b) or the precooked handbacks (~b) of the scope, in order.
Joined(out, cs, ki, se, b) ==
    /\ out \in Seq(Range(out)) /\ cs \in Seq(Files)
    /\ Closed(cs, ki, se)
    /\ \A p \in 1..Len(out) : \E n \in 1..Len(cs) : out[p].id[1] = cs[n]
    /\ \A p \in 1..Len(out) :
          \E f \in Wanted(ki, se) : \E m \in Range(ModesOf(ki[f])) :
              /\ out[p] = Entry(f, ki[f], m)
              /\ (Blame(ki[f], m) = "none") <=> b
    /\ \A n \in 1..Len(cs) : \A m \in Range(ModesOf(ki[cs[n]])) :
          ((Blame(ki[cs[n]], m) = "none") <=> b) =>
              \E p \in 1..Len(out) : out[p] = Entry(cs[n], ki[cs[n]], m)
    /\ se.limit <= 0 =>
          \A f \in Wanted(ki, se) : \A m \in Range(ModesOf(ki[f])) :
              ((Blame(ki[f], m) = "none") <=> b) =>
                  \E p \in 1..Len(out) : out[p] = Entry(f, ki[f], m)
    /\ \A p, q \in 1..Len(out) :
          p < q => BeforeIn(se.prefixes, out[p].id, out[q].id)

LEMMA EntryFields ==
    ASSUME NEW f, NEW k, NEW m
    PROVE  /\ Entry(f, k, m).id[1] = f /\ Entry(f, k, m).id[2] = m
           /\ Entry(f, k, m).id = <<f, m>> /\ Entry(f, k, m).blame = Blame(k, m)
BY DEF Entry

\* o is the part of a test's entries that Slot keeps for b.
IsPart(o, f, k, b) ==
    /\ o \in Seq(Range(o))
    /\ \A j \in 1..Len(o) : \E m \in Range(ModesOf(k)) :
          o[j] = Entry(f, k, m) /\ ((Blame(k, m) = "none") <=> b)
    /\ \A m \in Range(ModesOf(k)) : ((Blame(k, m) = "none") <=> b) =>
          \E j \in 1..Len(o) : o[j] = Entry(f, k, m)
    /\ \A j, l \in 1..Len(o) : j < l =>
          o[j] = Entry(f, k, "sloppy") /\ o[l] = Entry(f, k, "strict")

LEMMA PartFacts ==
    ASSUME NEW f, NEW k, NEW b \in BOOLEAN
    PROVE  IsPart(Only(Entries(f, k), Chosen(f, k, b)), f, k, b)
<1> DEFINE e == Entries(f, k)
           c == Chosen(f, k, b)
           o == Only(e, c)
           M == ModesOf(k)
<1>1. M \in Seq(Modes) /\ DOMAIN M = 1..Len(M)
  BY ModesFacts
<1>2. \A i, j \in 1..Len(M) : i < j => M[i] = "sloppy" /\ M[j] = "strict"
  BY ModesFacts, Zenon
<1>3. /\ e \in Seq(Range(e)) /\ Len(e) = Len(M)
      /\ \A i \in 1..Len(M) : e[i] = Entry(f, k, M[i]) /\ e[i] \in Range(e)
  BY EntriesFacts, Zenon
<1>4. ASSUME NEW i \in 1..Len(M)
      PROVE  e[i] \in c <=> ((Blame(k, M[i]) = "none") <=> b)
  <2>1. e[i] \in Range(e) /\ e[i].blame = Blame(k, M[i])
    <3>1. e[i] \in Range(e) /\ e[i] = Entry(f, k, M[i])
      BY <1>3, Zenon
    <3>2. Entry(f, k, M[i]).blame = Blame(k, M[i])
      BY EntryFields
    <3> HIDE DEF e, M
    <3> QED BY <3>1, <3>2
  <2>2. \A j : j \in c <=> j \in Range(e) /\ ((j.blame = "none") <=> b)
    BY Zenon DEF Chosen
  <2> HIDE DEF e, c, M
  <2> QED BY <2>1, <2>2, Zenon
<1>5. o \in Seq(Range(e) \cap c) /\ Filters(o, e, c)
  BY <1>3, OnlyFacts, Zenon
<1>6. \A m : m \in Range(M) <=> \E i \in 1..Len(M) : m = M[i]
  BY <1>1, Zenon DEF Range
<1> HIDE DEF e, c, o, M
<1>7. o \in Seq(Range(o))
  BY <1>5 DEF Range
<1>8. ASSUME NEW j \in 1..Len(o)
      PROVE  \E m \in Range(M) : o[j] = Entry(f, k, m) /\ ((Blame(k, m) = "none") <=> b)
  <2>1. PICK i \in 1..Len(e) : e[i] \in c /\ o[j] = e[i]
    BY <1>5, Zenon DEF Filters
  <2>2. i \in 1..Len(M)
    BY <1>3, Zenon
  <2> QED BY <1>3, <1>4, <1>6, <2>1, <2>2, Zenon
<1>9. ASSUME NEW m \in Range(M), (Blame(k, m) = "none") <=> b
      PROVE  \E j \in 1..Len(o) : o[j] = Entry(f, k, m)
  <2>1. PICK i \in 1..Len(M) : m = M[i]
    BY <1>6
  <2>2. e[i] \in c /\ e[i] = Entry(f, k, m)
    BY <1>3, <1>4, <1>9, <2>1, Zenon
  <2>3. i \in 1..Len(e)
    BY <1>3, Zenon
  <2> QED BY <1>5, <2>2, <2>3, Zenon DEF Filters
<1>10. ASSUME NEW j \in 1..Len(o), NEW l \in 1..Len(o), j < l
       PROVE  o[j] = Entry(f, k, "sloppy") /\ o[l] = Entry(f, k, "strict")
  <2>1. PICK i \in 1..Len(e), n \in 1..Len(e) : i < n /\ o[j] = e[i] /\ o[l] = e[n]
    BY <1>5, <1>10, Zenon DEF Filters
  <2>2. i \in 1..Len(M) /\ n \in 1..Len(M)
    BY <1>3, Zenon
  <2> QED BY <1>2, <1>3, <2>1, <2>2, Zenon
<1> QED BY <1>7, <1>8, <1>9, <1>10, Zenon DEF IsPart, o, e, c, M

\* The parts of the cases cs.
Parts(cs, ki, b) ==
    [n \in 1..Len(cs) |-> Only(Entries(cs[n], ki[cs[n]]), Chosen(cs[n], ki[cs[n]], b))]

LEMMA JoinedFacts ==
    ASSUME NEW ki \in [Files -> Kinds], NEW se \in Setups, NEW cs,
           InScope(cs, ki, se), NEW b \in BOOLEAN
    PROVE  Joined(FlattenSeq(Parts(cs, ki, b)), cs, ki, se, b)
<1> DEFINE ps  == Parts(cs, ki, b)
           out == FlattenSeq(ps)
           S   == UNION {Range(ps[n]) : n \in 1..Len(cs)}
<1>1. cs \in Seq(Files) /\ Len(cs) \in Nat
  BY DEF InScope
<1>2. \A n \in 1..Len(cs) : cs[n] \in Wanted(ki, se)
  BY Zenon DEF InScope
<1>3. \A n \in 1..Len(cs) : IsPart(ps[n], cs[n], ki[cs[n]], b)
  BY PartFacts, Zenon DEF Parts
<1>4. ps = [n \in 1..Len(cs) |-> ps[n]]
  BY Zenon DEF Parts
<1> HIDE DEF ps
<1>5. ASSUME NEW n \in 1..Len(cs) PROVE ps[n] \in Seq(S)
  <2> DEFINE t == ps[n]
  <2>1. t \in Seq(Range(t))
    BY <1>3, Zenon DEF IsPart
  <2>2. Range(t) \subseteq S
    BY Zenon
  <2> HIDE DEF t, S
  <2>3. t \in Seq(S)
    BY <2>1, <2>2
  <2> QED BY <2>3 DEF t
<1> HIDE DEF S
<1>6. ps \in Seq(Seq(S)) /\ Len(ps) = Len(cs)
  BY <1>1, <1>4, <1>5
<1>7. out \in Seq(S) /\ Lists(out, Len(cs), ps)
  BY <1>6, FlattenFacts, Zenon
<1> HIDE DEF out
<1>8. out \in Seq(Range(out))
  BY <1>7 DEF Range
<1>9. ASSUME NEW p \in 1..Len(out)
      PROVE  \E f \in Wanted(ki, se) : \E m \in Range(ModesOf(ki[f])) :
                 out[p] = Entry(f, ki[f], m) /\ ((Blame(ki[f], m) = "none") <=> b)
  <2>1. PICK n \in 1..Len(cs) : \E j \in 1..Len(ps[n]) : out[p] = ps[n][j]
    BY <1>7, Zenon DEF Lists
  <2> DEFINE f == cs[n]
  <2>2. \E m \in Range(ModesOf(ki[f])) :
            out[p] = Entry(f, ki[f], m) /\ ((Blame(ki[f], m) = "none") <=> b)
    <3>1. IsPart(ps[n], f, ki[f], b)
      BY <1>3, Zenon
    <3> HIDE DEF f
    <3> QED BY <2>1, <3>1, Zenon DEF IsPart
  <2>3. f \in Wanted(ki, se)
    BY <1>2, Zenon
  <2> HIDE DEF f
  <2> QED BY <2>2, <2>3, Zenon
<1>b. ASSUME NEW p \in 1..Len(out)
      PROVE  \E n \in 1..Len(cs) : out[p].id[1] = cs[n]
  <2>1. PICK n \in 1..Len(cs) : \E j \in 1..Len(ps[n]) : out[p] = ps[n][j]
    BY <1>7, Zenon DEF Lists
  <2>2. IsPart(ps[n], cs[n], ki[cs[n]], b)
    BY <1>3, Zenon
  <2>3. PICK m \in Range(ModesOf(ki[cs[n]])) : out[p] = Entry(cs[n], ki[cs[n]], m)
    BY <2>1, <2>2, Zenon DEF IsPart
  <2>4. Entry(cs[n], ki[cs[n]], m).id[1] = cs[n]
    BY EntryFields
  <2> QED BY <2>3, <2>4, Zenon
<1>c. Closed(cs, ki, se)
  BY Zenon DEF InScope
<1>a. ASSUME NEW n \in 1..Len(cs), NEW m \in Range(ModesOf(ki[cs[n]])),
             (Blame(ki[cs[n]], m) = "none") <=> b
      PROVE  \E p \in 1..Len(out) : out[p] = Entry(cs[n], ki[cs[n]], m)
  <2>1. IsPart(ps[n], cs[n], ki[cs[n]], b)
    BY <1>3, Zenon
  <2>2. PICK j \in 1..Len(ps[n]) : ps[n][j] = Entry(cs[n], ki[cs[n]], m)
    BY <1>a, <2>1, Zenon DEF IsPart
  <2>3. PICK p \in 1..Len(out) : out[p] = ps[n][j]
    BY <1>7, Zenon DEF Lists
  <2> QED BY <2>2, <2>3, Zenon
<1>10. ASSUME se.limit <= 0, NEW f \in Wanted(ki, se), NEW m \in Range(ModesOf(ki[f])),
              (Blame(ki[f], m) = "none") <=> b
       PROVE  \E p \in 1..Len(out) : out[p] = Entry(f, ki[f], m)
  <2>1. PICK n \in 1..Len(cs) : cs[n] = f
    BY <1>10, Zenon DEF InScope
  <2> QED BY <1>a, <1>10, <2>1, Zenon
<1>11. ASSUME NEW p \in 1..Len(out), NEW q \in 1..Len(out), p < q
       PROVE  BeforeIn(se.prefixes, out[p].id, out[q].id)
  <2>1. PICK n \in 1..Len(cs), o \in 1..Len(cs) :
            \E j \in 1..Len(ps[n]), l \in 1..Len(ps[o]) :
                out[p] = ps[n][j] /\ out[q] = ps[o][l] /\ Precedes(n, j, o, l)
    BY <1>7, <1>11, Zenon DEF Lists
  <2>2. PICK j \in 1..Len(ps[n]), l \in 1..Len(ps[o]) :
            out[p] = ps[n][j] /\ out[q] = ps[o][l] /\ Precedes(n, j, o, l)
    BY <2>1
  <2>3. IsPart(ps[n], cs[n], ki[cs[n]], b) /\ IsPart(ps[o], cs[o], ki[cs[o]], b)
    BY <1>3, Zenon
  <2>4. CASE n < o
    <3>1. out[p].id[1] = cs[n]
      <4>1. PICK i \in Range(ModesOf(ki[cs[n]])) : ps[n][j] = Entry(cs[n], ki[cs[n]], i)
        BY <2>3, Zenon DEF IsPart
      <4>2. Entry(cs[n], ki[cs[n]], i).id[1] = cs[n]
        BY EntryFields
      <4> QED BY <2>2, <4>1, <4>2, Zenon
    <3>2. out[q].id[1] = cs[o]
      <4>1. PICK i \in Range(ModesOf(ki[cs[o]])) : ps[o][l] = Entry(cs[o], ki[cs[o]], i)
        BY <2>3, Zenon DEF IsPart
      <4>2. Entry(cs[o], ki[cs[o]], i).id[1] = cs[o]
        BY EntryFields
      <4> QED BY <2>2, <4>1, <4>2, Zenon
    <3>4. FileBefore(se.prefixes, cs[n], cs[o])
      BY <2>4, Zenon DEF InScope, InOrder
    <3>5. PICK x \in DOMAIN se.prefixes, y \in DOMAIN se.prefixes :
              /\ cs[n] \in se.prefixes[x] /\ cs[o] \in se.prefixes[y]
              /\ x < y \/ (x = y /\ cs[n] < cs[o])
      BY <3>4, Zenon DEF FileBefore
    <3> QED BY <3>1, <3>2, <3>5, Zenon DEF BeforeIn
  <2>5. CASE n = o /\ j < l
    <3>1. /\ out[p] = Entry(cs[n], ki[cs[n]], "sloppy")
          /\ out[q] = Entry(cs[n], ki[cs[n]], "strict")
      BY <2>2, <2>3, <2>5, Zenon DEF IsPart
    <3>2. /\ out[p].id[1] = cs[n] /\ out[q].id[1] = cs[n]
          /\ out[p].id[2] = "sloppy" /\ out[q].id[2] = "strict"
      <4> DEFINE x == Entry(cs[n], ki[cs[n]], "sloppy")
                 y == Entry(cs[n], ki[cs[n]], "strict")
      <4>1. x.id[1] = cs[n] /\ x.id[2] = "sloppy" /\ y.id[1] = cs[n] /\ y.id[2] = "strict"
        BY EntryFields
      <4>2. out[p] = x /\ out[q] = y
        BY <3>1
      <4> HIDE DEF x, y
      <4> QED BY <4>1, <4>2, Zenon
    <3>3. PICK m \in DOMAIN se.prefixes : cs[n] \in se.prefixes[m]
      BY <1>2, Zenon DEF Wanted, Range
    <3> QED BY <3>2, <3>3, Zenon DEF BeforeIn
  <2> QED BY <2>2, <2>4, <2>5, Zenon DEF Precedes
<1> QED BY <1>1, <1>8, <1>9, <1>a, <1>b, <1>c, <1>10, <1>11, Zenon DEF Joined, out, ps

-----------------------------------------------------------------------------
(***************************************************************************)
(* The inductive invariant.                                                *)
(***************************************************************************)

Setting == kind \in [Files -> Kinds] /\ setup \in Setups

Counters == [lowered : Nat, handback : Nat, front : Nat, notes : Nat]

\* The jobs in flight are among those the loop has started, and the semaphore
\* bounds them.
Flying ==
    /\ next \in Nat \ {0} /\ dropped \in Nat /\ rep \in Counters
    /\ IsFiniteSet(DOMAIN flight)
    /\ DOMAIN flight \subseteq 1..(next - 1)
    /\ Cardinality(DOMAIN flight) <= Concurrency

\* Nothing is lowered before the jobs are composed.
NotYet ==
    phase \in {"start", "parse", "compose"} =>
        /\ next = 1 /\ dropped = 0
        /\ rep = [lowered |-> 0, handback |-> 0, front |-> 0, notes |-> 0]

\* Discover's slots hold the file of their path or nothing.
Reading ==
    phase = "parse" =>
        /\ cases = [n \in DOMAIN Walked(setup.prefixes, kind) |-> cases[n]]
        /\ \A n \in DOMAIN cases :
              cases[n] = Unread \/ cases[n] = Walked(setup.prefixes, kind)[n]

\* Jobs' slots: a task that ended without an error left its own case's jobs.
Composing ==
    phase = "compose" =>
        /\ InScope(cases, kind, setup)
        /\ DOMAIN slots = 1..Len(cases)
        /\ ~err => \A n \in DOMAIN slots :
                       slots[n].done => slots[n] = Slot(cases[n], kind[cases[n]])

Joining ==
    Selected => Joined(jobs, cases, kind, setup, TRUE) /\ Joined(precooked, cases, kind, setup, FALSE)

\* Every job the loop has started is counted, dropped or in flight.
Lowering ==
    phase = "lower" =>
        /\ next <= Len(jobs) + 1
        /\ rep.handback >= Len(precooked)
        /\ rep.lowered + rep.handback + rep.front + dropped
              + Cardinality(DOMAIN flight) = (next - 1) + Len(precooked)
        /\ rep.notes = rep.handback + rep.front

Inv ==
    /\ Setting /\ Flying /\ NotYet /\ Reading /\ Composing /\ Joining
    /\ Lowering /\ ReportAddsUp

\* The quotient, multiplied back, is no more than what was divided.
LEMMA DivTimes ==
    ASSUME NEW a \in Nat, NEW b \in Nat \ {0}
    PROVE  a \div b \in Nat /\ (a \div b) * b <= a /\ b * (a \div b) <= a
OBVIOUS

LEMMA TimesMonotone ==
    ASSUME NEW a \in Nat, NEW b \in Nat, NEW c \in Nat, a <= b
    PROVE  a * c <= b * c
OBVIOUS

LEMMA MaxWithOne ==
    ASSUME NEW a \in Int
    PROVE  Max({a, 1}) = IF a <= 1 THEN 1 ELSE a
<1> DEFINE m == IF a <= 1 THEN 1 ELSE a
<1>1. m \in {a, 1} /\ \A y \in {a, 1} : m >= y
  OBVIOUS
<1>2. \A x \in {a, 1} : (\A y \in {a, 1} : x >= y) => x = m
  OBVIOUS
<1> QED BY <1>1, <1>2 DEF Max

\* What CapWorkers returns for a machine whose memory is known.
LEMMA CapFacts ==
    ASSUME NEW n \in Int, NEW ram \in Nat, ram # 0
    PROVE  /\ CapWorkers(n, ram) \in Int
           /\ n > 0 => CapWorkers(n, ram) > 0
           /\ CapWorkers(n, ram) > 1 =>
                 CapWorkers(n, ram) * PerWorker <= MemoryLimitBytes(ram)
<1> DEFINE L == MemoryLimitBytes(ram)
           d == L \div PerWorker
           W == CapWorkers(n, ram)
<1>1. L \in Nat /\ PerWorker \in Nat \ {0}
  BY LowerOnlyAssumption, DivTimes DEF MemoryLimitBytes
<1>2. d \in Nat /\ d * PerWorker <= L
  BY <1>1, DivTimes
<1>3. MemSafeWorkers(ram) = IF d <= 1 THEN 1 ELSE d
  BY <1>2, MaxWithOne DEF MemSafeWorkers
<1>4. W = IF n <= MemSafeWorkers(ram) THEN n ELSE MemSafeWorkers(ram)
  BY DEF CapWorkers
<1> HIDE DEF d, L, W
<1>5. W \in Int /\ (n > 0 => W > 0) /\ (W > 1 => W <= d)
  BY <1>2, <1>3, <1>4
<1>6. W > 1 => W * PerWorker <= d * PerWorker
  BY <1>1, <1>2, <1>5, TimesMonotone
<1>7. ASSUME W > 1 PROVE W * PerWorker <= L
  <2>1. W * PerWorker \in Int /\ d * PerWorker \in Int
    BY <1>1, <1>2, <1>5
  <2> QED BY <1>1, <1>2, <1>6, <1>7, <2>1
<1> QED BY <1>5, <1>7 DEF W, L

LEMMA ConcurrencyType == Setting => Concurrency \in Nat \ {0}
<1> SUFFICES ASSUME Setting PROVE Concurrency \in Nat \ {0}
  OBVIOUS
<1>1. setup.request \in Int /\ setup.ram \in Nat
  BY LowerOnlyAssumption DEF Setting
<1>2. Workers \in Int
  BY <1>1, CapFacts DEF Workers, CapWorkers
<1> QED BY <1>2 DEF Concurrency

LEMMA EmptyFlight == DOMAIN <<>> = {} /\ IsFiniteSet({}) /\ Cardinality({}) = 0
BY FS_EmptySet

LEMMA InvInit == Init => Inv
<1> SUFFICES ASSUME Init PROVE Inv
  OBVIOUS
<1>1. Setting
  BY DEF Init, Setting
<1>2. DOMAIN flight = {} /\ IsFiniteSet({}) /\ Cardinality({}) = 0
  BY EmptyFlight DEF Init
<1>3. Flying
  BY <1>1, <1>2, ConcurrencyType DEF Init, Flying, Counters
<1>4. NotYet /\ Reading /\ Composing /\ Joining /\ Lowering /\ ReportAddsUp
  BY DEF Init, NotYet, Reading, Composing, Joining, Selected, Lowering, ReportAddsUp
<1> QED BY <1>1, <1>3, <1>4 DEF Inv

\* The steps before the lowering loop start nothing and count nothing.
LEMMA EarlyFrame ==
    ASSUME Inv, phase \in {"start", "parse", "compose"},
           UNCHANGED <<kind, setup, next, flight, rep, dropped>>,
           phase' \in {"parse", "compose", "error"}
    PROVE  Setting' /\ Flying' /\ NotYet' /\ Joining' /\ Lowering' /\ ReportAddsUp'
<1>1. Concurrency' = Concurrency
  BY DEF Concurrency, Workers
<1>2. Setting' /\ Flying'
  BY <1>1 DEF Inv, Setting, Flying
<1>3. NotYet' /\ Joining' /\ Lowering' /\ ReportAddsUp'
  BY DEF Inv, NotYet, Joining, Selected, Lowering, ReportAddsUp
<1> QED BY <1>2, <1>3

LEMMA EarlyNext ==
    ASSUME Inv,
           \/ Walk \/ Discovered \/ JobsFail
           \/ \E n \in DOMAIN cases : Parse(n)
           \/ \E n \in DOMAIN slots : ComposeCase(n) \/ ComposeFails(n)
    PROVE  Inv'
<1> DEFINE w == Walked(setup.prefixes, kind)
<1>0. kind \in [Files -> Kinds] /\ setup \in Setups /\ setup.prefixes \in Seq(SUBSET Files)
  BY LowerOnlyAssumption DEF Inv, Setting
<1>1. ASSUME Walk PROVE Inv'
  <2>1. Setting' /\ Flying' /\ NotYet' /\ Joining' /\ Lowering' /\ ReportAddsUp'
    BY <1>1, EarlyFrame DEF Walk
  <2>2. Reading'
    <3>1. CASE setup.readable
      <4>1. cases' = [n \in DOMAIN w |-> Unread] /\ UNCHANGED <<kind, setup>>
        BY <1>1, <3>1, Zenon DEF Walk
      <4> QED BY <4>1, Zenon DEF Reading
    <3>2. CASE ~setup.readable
      BY <1>1, <3>2 DEF Walk, Reading
    <3> QED BY <3>1, <3>2
  <2>3. Composing'
    BY <1>1 DEF Walk, Composing
  <2> QED BY <2>1, <2>2, <2>3 DEF Inv
<1>2. ASSUME NEW n \in DOMAIN cases, Parse(n) PROVE Inv'
  <2>1. Setting' /\ Flying' /\ NotYet' /\ Joining' /\ Lowering' /\ ReportAddsUp'
    BY <1>2, EarlyFrame DEF Parse
  <2>2. Reading'
    <3>1. phase = "parse" /\ UNCHANGED <<kind, setup>> /\ cases' = [cases EXCEPT ![n] = w[n]]
      BY <1>2 DEF Parse
    <3>2. DOMAIN cases = DOMAIN w
          /\ \A m \in DOMAIN cases : cases[m] = Unread \/ cases[m] = w[m]
      BY <3>1, Zenon DEF Inv, Reading
    <3> HIDE DEF w
    <3>3. cases' = [m \in DOMAIN w |-> cases'[m]]
          /\ \A m \in DOMAIN cases' : cases'[m] = Unread \/ cases'[m] = w[m]
      BY <3>1, <3>2
    <3> QED BY <3>1, <3>3, Zenon DEF Reading, w
  <2>3. Composing'
    BY <1>2 DEF Parse, Composing
  <2> QED BY <2>1, <2>2, <2>3 DEF Inv
<1>3. ASSUME Discovered PROVE Inv'
  <2>1. Setting' /\ Flying' /\ NotYet' /\ Joining' /\ Lowering' /\ ReportAddsUp'
    BY <1>3, EarlyFrame DEF Discovered
  <2>2. Reading'
    BY <1>3 DEF Discovered, Reading
  <2>3. Composing'
    <3>1. CASE err
      BY <1>3, <3>1 DEF Discovered, Composing
    <3>2. CASE ~err
      <4>1. /\ phase = "parse" /\ \A n \in DOMAIN cases : cases[n] # Unread
            /\ cases' = Scoped /\ slots' = [n \in DOMAIN cases' |-> Blank]
            /\ UNCHANGED <<kind, setup>>
        BY <1>3, <3>2 DEF Discovered
      <4>2. cases = w
        <5>1. /\ cases = [n \in DOMAIN w |-> cases[n]]
              /\ \A n \in DOMAIN cases : cases[n] = Unread \/ cases[n] = w[n]
          BY <4>1, Zenon DEF Inv, Reading
        <5>2. w = [n \in DOMAIN w |-> w[n]]
          <6>1. w \in Seq(Files)
            BY <1>0, WalkedFacts
          <6> HIDE DEF w
          <6> QED BY <6>1
        <5> HIDE DEF w
        <5> QED BY <4>1, <5>1, <5>2
      <4>3. InScope(cases', kind, setup)
        BY <1>0, <4>1, <4>2, ScopedFacts, Zenon DEF Scoped
      <4>4. DOMAIN slots' = 1..Len(cases') /\ \A n \in DOMAIN slots' : ~slots'[n].done
        <5>1. cases' \in Seq(Files)
          BY <4>3 DEF InScope
        <5> QED BY <4>1, <5>1 DEF Blank
      <4> QED BY <4>1, <4>3, <4>4, Zenon DEF Composing
    <3> QED BY <3>1, <3>2
  <2> QED BY <2>1, <2>2, <2>3 DEF Inv
<1>4. ASSUME NEW n \in DOMAIN slots, ComposeCase(n) PROVE Inv'
  <2>1. Setting' /\ Flying' /\ NotYet' /\ Joining' /\ Lowering' /\ ReportAddsUp'
    BY <1>4, EarlyFrame DEF ComposeCase
  <2>2. Reading'
    BY <1>4 DEF ComposeCase, Reading
  <2>3. Composing'
    <3>1. /\ phase = "compose" /\ UNCHANGED <<kind, setup, cases, err>>
          /\ slots' = [slots EXCEPT ![n] = Slot(cases[n], kind[cases[n]])]
      BY <1>4 DEF ComposeCase
    <3> QED BY <3>1, Zenon DEF Inv, Composing
  <2> QED BY <2>1, <2>2, <2>3 DEF Inv
<1>5. ASSUME NEW n \in DOMAIN slots, ComposeFails(n) PROVE Inv'
  <2>1. Setting' /\ Flying' /\ NotYet' /\ Joining' /\ Lowering' /\ ReportAddsUp'
    BY <1>5, EarlyFrame DEF ComposeFails
  <2>2. Reading'
    BY <1>5 DEF ComposeFails, Reading
  <2>3. Composing'
    <3>1. /\ phase = "compose" /\ UNCHANGED <<kind, setup, cases>> /\ err' = TRUE
          /\ DOMAIN slots' = DOMAIN slots
      BY <1>5 DEF ComposeFails
    <3> QED BY <3>1, Zenon DEF Inv, Composing
  <2> QED BY <2>1, <2>2, <2>3 DEF Inv
<1>6. ASSUME JobsFail PROVE Inv'
  <2>1. Setting' /\ Flying' /\ NotYet' /\ Joining' /\ Lowering' /\ ReportAddsUp'
    BY <1>6, EarlyFrame DEF JobsFail
  <2>2. Reading' /\ Composing'
    BY <1>6 DEF JobsFail, Reading, Composing
  <2> QED BY <2>1, <2>2 DEF Inv
<1> QED BY <1>1, <1>2, <1>3, <1>4, <1>5, <1>6

\* The slots are all filled: what is joined of them is the scope.
LEMMA ComposedNext ==
    ASSUME Inv, Composed
    PROVE  Inv'
<1>0. Setting /\ Flying /\ NotYet /\ Composing
  BY DEF Inv
<1>1. /\ phase = "compose" /\ ~err
      /\ \A n \in DOMAIN slots : slots[n].done
      /\ jobs' = FlattenSeq([n \in DOMAIN slots |-> slots[n].jobs])
      /\ precooked' = FlattenSeq([n \in DOMAIN slots |-> slots[n].precooked])
      /\ phase' = "error" \/ phase' = "lower"
      /\ rep' = [rep EXCEPT !.handback = Len(precooked'), !.notes = Len(precooked')]
      /\ UNCHANGED <<kind, setup, cases, next, flight, dropped>>
  BY DEF Composed
<1>2. /\ InScope(cases, kind, setup) /\ DOMAIN slots = 1..Len(cases)
      /\ \A n \in DOMAIN slots : slots[n] = Slot(cases[n], kind[cases[n]])
  BY <1>0, <1>1, Zenon DEF Composing
<1>3. \A n \in 1..Len(cases) :
        /\ slots[n].jobs = Only(Entries(cases[n], kind[cases[n]]),
                                Chosen(cases[n], kind[cases[n]], TRUE))
        /\ slots[n].precooked = Only(Entries(cases[n], kind[cases[n]]),
                                     Chosen(cases[n], kind[cases[n]], FALSE))
  BY <1>2, SlotIs, Zenon
<1>4. jobs' = FlattenSeq(Parts(cases, kind, TRUE))
  <2>1. [n \in DOMAIN slots |-> slots[n].jobs] = Parts(cases, kind, TRUE)
    BY <1>2, <1>3, Zenon DEF Parts
  <2> QED BY <1>1, <2>1, Zenon
<1>5. precooked' = FlattenSeq(Parts(cases, kind, FALSE))
  <2>1. [n \in DOMAIN slots |-> slots[n].precooked] = Parts(cases, kind, FALSE)
    BY <1>2, <1>3, Zenon DEF Parts
  <2> QED BY <1>1, <2>1, Zenon
<1>6. Joined(jobs', cases, kind, setup, TRUE) /\ Joined(precooked', cases, kind, setup, FALSE)
  <2>1. kind \in [Files -> Kinds] /\ setup \in Setups
    BY <1>0 DEF Setting
  <2> QED BY <1>2, <1>4, <1>5, <2>1, JoinedFacts, Zenon
<1>7. Joining'
  BY <1>1, <1>6, Zenon DEF Joining
<1>8. Len(jobs') \in Nat /\ Len(precooked') \in Nat
  <2>1. jobs' \in Seq(Range(jobs')) /\ precooked' \in Seq(Range(precooked'))
    BY <1>6, Zenon DEF Joined
  <2> QED BY <2>1
<1>9. Setting' /\ Concurrency' = Concurrency
  BY <1>0, <1>1 DEF Setting, Concurrency, Workers
<1>10. rep' = [lowered |-> 0, handback |-> Len(precooked'), front |-> 0,
               notes |-> Len(precooked')]
       /\ next = 1 /\ dropped = 0
  <2>1. /\ rep = [lowered |-> 0, handback |-> 0, front |-> 0, notes |-> 0]
        /\ next = 1 /\ dropped = 0
    BY <1>0, <1>1 DEF NotYet
  <2> QED BY <1>1, <2>1
<1>11. Flying'
  BY <1>0, <1>1, <1>8, <1>9, <1>10 DEF Flying, Counters
<1>12. DOMAIN flight = {} /\ Cardinality(DOMAIN flight) = 0
  <2>1. DOMAIN flight \subseteq 1..(1 - 1)
    BY <1>0, <1>10, Zenon DEF Flying
  <2>2. DOMAIN flight = {}
    BY <2>1
  <2> QED BY <2>2, EmptyFlight, Zenon
<1>13. Lowering'
  <2>1. /\ rep'.lowered = 0 /\ rep'.front = 0
        /\ rep'.handback = Len(precooked') /\ rep'.notes = Len(precooked')
    BY <1>10
  <2>2. next' = 1 /\ dropped' = 0 /\ Cardinality(DOMAIN flight') = 0
    BY <1>1, <1>10, <1>12
  <2> QED BY <1>8, <2>1, <2>2 DEF Lowering
<1>14. NotYet' /\ Reading' /\ Composing' /\ ReportAddsUp'
  BY <1>1 DEF NotYet, Reading, Composing, ReportAddsUp
<1> QED BY <1>7, <1>9, <1>11, <1>13, <1>14 DEF Inv

\* The steps of the lowering loop touch neither the jobs nor what they are of.
LEMMA LateFrame ==
    ASSUME Inv, phase = "lower", phase' \in {"lower", "reported", "crashed"},
           UNCHANGED <<kind, setup, cases, jobs, precooked>>
    PROVE  /\ Setting' /\ NotYet' /\ Reading' /\ Composing' /\ Joining'
           /\ Concurrency' = Concurrency
           /\ Len(jobs) \in Nat /\ Len(precooked) \in Nat
           /\ Concurrency \in Nat \ {0}
<1>1. Setting' /\ Concurrency' = Concurrency /\ Concurrency \in Nat \ {0}
  BY ConcurrencyType DEF Inv, Setting, Concurrency, Workers
<1>2. NotYet' /\ Reading' /\ Composing'
  BY DEF NotYet, Reading, Composing
<1>3. Joined(jobs, cases, kind, setup, TRUE) /\ Joined(precooked, cases, kind, setup, FALSE)
  BY DEF Inv, Joining, Selected
<1>4. Joining'
  BY <1>3, Zenon DEF Joining
<1>5. jobs \in Seq(Range(jobs)) /\ precooked \in Seq(Range(precooked))
  BY <1>3, Zenon DEF Joined
<1> QED BY <1>1, <1>2, <1>4, <1>5

\* A place given back, a place taken, a place kept.
LEMMA FlightFacts ==
    ASSUME IsFiniteSet(DOMAIN flight), NEW i, NEW s
    PROVE  /\ Cardinality(DOMAIN flight) \in Nat
           /\ IsFiniteSet(DOMAIN Without(i)) /\ IsFiniteSet(DOMAIN At(i, s))
           /\ DOMAIN Without(i) = (DOMAIN flight) \ {i}
           /\ DOMAIN At(i, s) = (DOMAIN flight) \cup {i}
           /\ i \in DOMAIN flight =>
                 /\ DOMAIN At(i, s) = DOMAIN flight
                 /\ Cardinality(DOMAIN Without(i)) = Cardinality(DOMAIN flight) - 1
           /\ i \notin DOMAIN flight =>
                 Cardinality(DOMAIN At(i, s)) = Cardinality(DOMAIN flight) + 1
<1> DEFINE d == DOMAIN flight
<1>1. DOMAIN Without(i) = d \ {i} /\ DOMAIN At(i, s) = d \cup {i}
  BY DEF Without, At
<1>2. /\ Cardinality(d) \in Nat
      /\ IsFiniteSet(d \ {i}) /\ IsFiniteSet(d \cup {i})
      /\ i \in d => Cardinality(d \ {i}) = Cardinality(d) - 1
      /\ i \notin d => Cardinality(d \cup {i}) = Cardinality(d) + 1
  <2> HIDE DEF d
  <2>1. IsFiniteSet(d)
    BY DEF d
  <2>2. Cardinality(d) \in Nat
    BY <2>1, FS_CardinalityType
  <2>3. IsFiniteSet(d \ {i}) /\ (i \in d => Cardinality(d \ {i}) = Cardinality(d) - 1)
    BY <2>1, <2>2, FS_RemoveElement
  <2>4. IsFiniteSet(d \cup {i})
        /\ (i \notin d => Cardinality(d \cup {i}) = Cardinality(d) + 1)
    BY <2>1, <2>2, FS_AddElement
  <2> QED BY <2>2, <2>3, <2>4
<1>3. i \in d => d \cup {i} = d
  OBVIOUS
<1> QED BY <1>1, <1>2, <1>3

\* The sum of Lowering when a job is started, and when one is counted.
LEMMA SumOfStarted ==
    ASSUME NEW s \in Int, NEW k \in Int, NEW n \in Int, NEW l \in Int,
           s + k = (n - 1) + l
    PROVE  s + (k + 1) = ((n + 1) - 1) + l
OBVIOUS

LEMMA SumOfCounted ==
    ASSUME NEW s \in Int, NEW t \in Int, NEW k \in Int, NEW n \in Int, NEW l \in Int,
           s + k = (n - 1) + l, t = s + 1
    PROVE  t + (k - 1) = (n - 1) + l
OBVIOUS

LEMMA LateNext ==
    ASSUME Inv,
           \/ ScratchFails \/ Acquire \/ Report
           \/ \E i \in DOMAIN flight :
                 \/ Stage(i) \/ StageFails(i) \/ Panics(i) \/ Hangs(i)
                 \/ \E o \in Outcomes : Compiled(i, o)
    PROVE  Inv'
<1>0. /\ next \in Nat \ {0} /\ dropped \in Nat /\ rep \in Counters
      /\ IsFiniteSet(DOMAIN flight) /\ DOMAIN flight \subseteq 1..(next - 1)
      /\ Cardinality(DOMAIN flight) <= Concurrency
  BY DEF Inv, Flying
<1>a. Cardinality(DOMAIN flight) \in Nat
  BY <1>0, FS_CardinalityType
<1>b. /\ rep.lowered \in Nat /\ rep.handback \in Nat /\ rep.front \in Nat
      /\ rep.notes \in Nat
  BY <1>0 DEF Counters
<1>c. phase = "lower" =>
        /\ next <= Len(jobs) + 1
        /\ rep.handback >= Len(precooked)
        /\ rep.lowered + rep.handback + rep.front + dropped
              + Cardinality(DOMAIN flight) = (next - 1) + Len(precooked)
        /\ rep.notes = rep.handback + rep.front
  BY DEF Inv, Lowering
<1>1. ASSUME ScratchFails PROVE Inv'
  <2>1. /\ phase = "lower" /\ phase' = "reported" /\ next = 1 /\ dropped' = Len(jobs)
        /\ UNCHANGED <<kind, setup, cases, jobs, precooked, next, flight, rep>>
    BY <1>1 DEF ScratchFails
  <2>2. /\ Setting' /\ NotYet' /\ Reading' /\ Composing' /\ Joining'
        /\ Concurrency' = Concurrency /\ Len(jobs) \in Nat /\ Len(precooked) \in Nat
    BY <2>1, LateFrame
  <2>3. Flying' /\ Lowering'
    BY <1>0, <2>1, <2>2 DEF Flying, Lowering
  <2>4. Cardinality(DOMAIN flight) = 0
    <3>1. DOMAIN flight = {}
      BY <1>0, <2>1
    <3> QED BY <3>1, EmptyFlight
  <2>5. ReportAddsUp'
    <3>1. /\ rep.lowered + rep.handback + rep.front + dropped + 0
                = (1 - 1) + Len(precooked)
          /\ rep.handback >= Len(precooked) /\ rep.notes = rep.handback + rep.front
      BY <1>c, <2>1, <2>4
    <3>2. rep.lowered + rep.handback + rep.front = Len(precooked)
      BY <1>0, <1>b, <2>2, <3>1
    <3>3. rep.lowered + rep.handback + rep.front + Len(jobs) = Len(jobs) + Len(precooked)
      BY <1>b, <2>2, <3>2
    <3> QED BY <2>1, <3>1, <3>3 DEF ReportAddsUp
  <2> QED BY <2>2, <2>3, <2>5 DEF Inv
<1>2. ASSUME Acquire PROVE Inv'
  <2>1. /\ phase = "lower" /\ phase' = "lower" /\ next <= Len(jobs)
        /\ Cardinality(DOMAIN flight) < Concurrency
        /\ flight' = At(next, "staging") /\ next' = next + 1
        /\ UNCHANGED <<kind, setup, cases, jobs, precooked, rep, dropped>>
    BY <1>2 DEF Acquire
  <2>2. /\ Setting' /\ NotYet' /\ Reading' /\ Composing' /\ Joining'
        /\ Concurrency' = Concurrency /\ Len(jobs) \in Nat /\ Len(precooked) \in Nat
        /\ Concurrency \in Nat
    BY <2>1, LateFrame
  <2>3. next \notin DOMAIN flight
    BY <1>0
  <2>4. /\ DOMAIN flight' = (DOMAIN flight) \cup {next} /\ IsFiniteSet(DOMAIN flight')
        /\ Cardinality(DOMAIN flight') = Cardinality(DOMAIN flight) + 1
    BY <1>0, <2>1, <2>3, FlightFacts, Zenon
  <2>5. Flying'
    <3>1. DOMAIN flight' \subseteq 1..(next' - 1)
      BY <1>0, <2>1, <2>4
    <3> QED BY <1>0, <1>a, <2>1, <2>2, <2>4, <3>1 DEF Flying
  <2>6. Lowering'
    <3>1. next' <= Len(jobs') + 1 /\ rep'.handback >= Len(precooked')
          /\ rep'.notes = rep'.handback + rep'.front
      BY <1>0, <1>c, <2>1, <2>2
    <3>2. rep'.lowered + rep'.handback + rep'.front + dropped'
            + Cardinality(DOMAIN flight') = (next' - 1) + Len(precooked')
      <4>1. rep' = rep /\ dropped' = dropped /\ next' = next + 1
            /\ Len(precooked') = Len(precooked)
        BY <2>1
      <4>2. rep.lowered + rep.handback + rep.front + dropped
              + Cardinality(DOMAIN flight) = (next - 1) + Len(precooked)
        BY <1>c, <2>1
      <4>3. rep.lowered + rep.handback + rep.front + dropped
              + (Cardinality(DOMAIN flight) + 1) = ((next + 1) - 1) + Len(precooked)
        <5> DEFINE k == Cardinality(DOMAIN flight)
                   s == rep.lowered + rep.handback + rep.front + dropped
        <5>1. s \in Int /\ k \in Int /\ next \in Int /\ Len(precooked) \in Int
          BY <1>0, <1>a, <1>b, <2>2
        <5>2. s + k = (next - 1) + Len(precooked)
          BY <4>2
        <5> HIDE DEF k, s
        <5>3. s + (k + 1) = ((next + 1) - 1) + Len(precooked)
          BY <5>1, <5>2, SumOfStarted
        <5> QED BY <5>3 DEF k, s
      <4> QED BY <2>4, <4>1, <4>3, Zenon
    <3> QED BY <3>1, <3>2 DEF Lowering
  <2>7. ReportAddsUp'
    BY <2>1 DEF ReportAddsUp
  <2> QED BY <2>2, <2>5, <2>6, <2>7 DEF Inv
<1>3. ASSUME Report PROVE Inv'
  <2>1. /\ phase = "lower" /\ phase' = "reported" /\ next > Len(jobs) /\ flight = <<>>
        /\ UNCHANGED <<kind, setup, cases, jobs, precooked, next, flight, rep, dropped>>
    BY <1>3 DEF Report
  <2>2. /\ Setting' /\ NotYet' /\ Reading' /\ Composing' /\ Joining'
        /\ Concurrency' = Concurrency /\ Len(jobs) \in Nat /\ Len(precooked) \in Nat
    BY <2>1, LateFrame
  <2>3. Flying' /\ Lowering'
    BY <1>0, <2>1, <2>2 DEF Flying, Lowering
  <2>4. Cardinality(DOMAIN flight) = 0
    BY <2>1, EmptyFlight, Zenon
  <2>5. ReportAddsUp'
    <3> DEFINE t == rep.lowered + rep.handback + rep.front + dropped
               k == Cardinality(DOMAIN flight)
    <3>1. t + k = (next - 1) + Len(precooked) /\ next <= Len(jobs) + 1
          /\ rep.notes = rep.handback + rep.front
      BY <1>c, <2>1
    <3>2. t \in Int /\ next \in Int /\ k = 0
      BY <1>0, <1>b, <2>4
    <3> HIDE DEF t, k
    <3>3. t = Len(jobs) + Len(precooked)
      BY <2>1, <2>2, <3>1, <3>2
    <3> QED BY <2>1, <3>1, <3>3 DEF ReportAddsUp, t
  <2> QED BY <2>2, <2>3, <2>5 DEF Inv
<1>4. ASSUME NEW i \in DOMAIN flight,
             phase = "lower", phase' \in {"lower", "crashed"},
             UNCHANGED <<kind, setup, cases, jobs, precooked, next, rep, dropped>>,
             DOMAIN flight' = DOMAIN flight
      PROVE  Inv'
  <2>1. /\ Setting' /\ NotYet' /\ Reading' /\ Composing' /\ Joining'
        /\ Concurrency' = Concurrency
    BY <1>4, LateFrame
  <2>2. Flying' /\ Lowering' /\ ReportAddsUp'
    BY <1>0, <1>4, <2>1 DEF Inv, Flying, Lowering, ReportAddsUp
  <2> QED BY <2>1, <2>2 DEF Inv
<1>5. ASSUME NEW i \in DOMAIN flight, Stage(i) \/ Panics(i) \/ Hangs(i) PROVE Inv'
  <2>1. DOMAIN flight' = DOMAIN flight
    <3>1. \A s : DOMAIN At(i, s) = DOMAIN flight
      BY <1>0, FlightFacts, Zenon
    <3> QED BY <1>5, <3>1 DEF Stage, Panics, Hangs
  <2> QED BY <1>4, <1>5, <2>1 DEF Stage, Panics, Hangs
<1>6. ASSUME NEW i \in DOMAIN flight, phase = "lower", phase' = "lower",
             UNCHANGED <<kind, setup, cases, jobs, precooked, next>>,
             flight' = Without(i), dropped' \in Nat, rep' \in Counters,
             rep'.handback >= rep.handback,
             rep'.lowered + rep'.handback + rep'.front + dropped'
               = rep.lowered + rep.handback + rep.front + dropped + 1,
             rep.notes = rep.handback + rep.front
               => rep'.notes = rep'.handback + rep'.front
      PROVE  Inv'
  <2>1. /\ Setting' /\ NotYet' /\ Reading' /\ Composing' /\ Joining'
        /\ Concurrency' = Concurrency /\ Len(jobs) \in Nat /\ Len(precooked) \in Nat
        /\ Concurrency \in Nat
    BY <1>6, LateFrame
  <2>2. /\ DOMAIN flight' = (DOMAIN flight) \ {i} /\ IsFiniteSet(DOMAIN flight')
        /\ Cardinality(DOMAIN flight') = Cardinality(DOMAIN flight) - 1
    BY <1>0, <1>6, FlightFacts, Zenon
  <2>3. Flying'
    <3>1. DOMAIN flight' \subseteq 1..(next' - 1)
      BY <1>0, <1>6, <2>2
    <3> QED BY <1>0, <1>a, <1>6, <2>1, <2>2, <3>1 DEF Flying
  <2>4. /\ rep'.lowered \in Nat /\ rep'.handback \in Nat /\ rep'.front \in Nat
        /\ rep'.notes \in Nat
    BY <1>6 DEF Counters
  <2>5. Lowering'
    <3>1. next' <= Len(jobs') + 1 /\ rep'.handback >= Len(precooked')
          /\ rep'.notes = rep'.handback + rep'.front
      <4>1. next' <= Len(jobs') + 1
        BY <1>c, <1>6
      <4>2. rep'.notes = rep'.handback + rep'.front
        BY <1>c, <1>6
      <4>3. rep.handback >= Len(precooked) /\ rep'.handback >= rep.handback
            /\ Len(precooked') = Len(precooked)
        BY <1>c, <1>6
      <4>4. rep'.handback >= Len(precooked')
        BY <1>b, <2>1, <2>4, <4>3
      <4> QED BY <4>1, <4>2, <4>4
    <3>2. rep'.lowered + rep'.handback + rep'.front + dropped'
            + Cardinality(DOMAIN flight') = (next' - 1) + Len(precooked')
      <4> DEFINE s == rep.lowered + rep.handback + rep.front + dropped
                 t == rep'.lowered + rep'.handback + rep'.front + dropped'
                 k == Cardinality(DOMAIN flight)
      <4>1. s + k = (next - 1) + Len(precooked) /\ t = s + 1
        BY <1>c, <1>6
      <4>2. s \in Int /\ t \in Int
        BY <1>0, <1>b, <1>6, <2>4
      <4> HIDE DEF s, t
      <4>3. t + (k - 1) = (next - 1) + Len(precooked)
        <5> HIDE DEF k
        <5>1. k \in Int /\ next \in Int /\ Len(precooked) \in Int
          BY <1>0, <1>a, <2>1 DEF k
        <5> QED BY <4>1, <4>2, <5>1, SumOfCounted
      <4>4. Cardinality(DOMAIN flight') = k - 1 /\ next' = next /\ precooked' = precooked
        BY <1>6, <2>2
      <4> QED BY <4>3, <4>4, Zenon DEF t
    <3> QED BY <3>1, <3>2 DEF Lowering
  <2>6. ReportAddsUp'
    BY <1>6 DEF ReportAddsUp
  <2> QED BY <2>1, <2>3, <2>5, <2>6 DEF Inv
<1>7. ASSUME NEW i \in DOMAIN flight, StageFails(i) PROVE Inv'
  <2>1. /\ phase = "lower" /\ phase' = "lower" /\ flight' = Without(i)
        /\ dropped' = dropped + 1
        /\ UNCHANGED <<kind, setup, cases, jobs, precooked, next, rep>>
    BY <1>7 DEF StageFails
  <2> QED BY <1>0, <1>b, <1>6, <2>1
<1>8. ASSUME NEW i \in DOMAIN flight, NEW o \in Outcomes, Compiled(i, o) PROVE Inv'
  <2>1. /\ phase = "lower" /\ phase' = "lower" /\ flight' = Without(i)
        /\ rep' = Count(o)
        /\ UNCHANGED <<kind, setup, cases, jobs, precooked, next, dropped>>
    BY <1>8 DEF Compiled
  <2>2. /\ rep' \in Counters /\ rep'.handback >= rep.handback
        /\ rep'.lowered + rep'.handback + rep'.front
             = rep.lowered + rep.handback + rep.front + 1
        /\ rep.notes = rep.handback + rep.front
             => rep'.notes = rep'.handback + rep'.front
    <3>0. rep = [lowered |-> rep.lowered, handback |-> rep.handback,
                 front |-> rep.front, notes |-> rep.notes]
      BY <1>0 DEF Counters
    <3>1. CASE o = "lowered"
      <4>1. rep' = [lowered |-> rep.lowered + 1, handback |-> rep.handback,
                    front |-> rep.front, notes |-> rep.notes]
        BY <2>1, <3>0, <3>1 DEF Count
      <4> QED BY <1>b, <4>1 DEF Counters
    <3>2. CASE o = "handback"
      <4>1. rep' = [lowered |-> rep.lowered, handback |-> rep.handback + 1,
                    front |-> rep.front, notes |-> rep.notes + 1]
        BY <2>1, <3>0, <3>2 DEF Count
      <4> QED BY <1>b, <4>1 DEF Counters
    <3>3. CASE o = "front"
      <4>1. rep' = [lowered |-> rep.lowered, handback |-> rep.handback,
                    front |-> rep.front + 1, notes |-> rep.notes + 1]
        BY <2>1, <3>0, <3>3 DEF Count
      <4> QED BY <1>b, <4>1 DEF Counters
    <3> QED BY <3>1, <3>2, <3>3 DEF Outcomes
  <2>3. /\ rep'.lowered \in Nat /\ rep'.handback \in Nat /\ rep'.front \in Nat
    BY <2>2 DEF Counters
  <2> QED BY <1>0, <1>b, <1>6, <2>1, <2>2, <2>3
<1> QED BY <1>1, <1>2, <1>3, <1>5, <1>7, <1>8

LEMMA InvNext == Inv /\ [Next]_vars => Inv'
<1> SUFFICES ASSUME Inv, [Next]_vars PROVE Inv'
  OBVIOUS
<1>1. ASSUME UNCHANGED vars PROVE Inv'
  <2>1. Setting' /\ Flying' /\ NotYet'
    BY <1>1 DEF vars, Inv, Setting, Flying, NotYet, Concurrency, Workers
  <2>2. Reading' /\ Composing'
    BY <1>1, Zenon DEF vars, Inv, Reading, Composing
  <2>3. Joining' /\ Lowering' /\ ReportAddsUp'
    BY <1>1 DEF vars, Inv, Joining, Selected, Lowering, ReportAddsUp
  <2> QED BY <2>1, <2>2, <2>3 DEF Inv
<1>2. ASSUME Over PROVE Inv'
  BY <1>1, <1>2 DEF Over
<1> QED BY <1>1, <1>2, EarlyNext, ComposedNext, LateNext DEF Next

LEMMA InvHolds == Spec => []Inv
<1>1. Init => Inv
  BY InvInit
<1>2. Inv /\ [Next]_vars => Inv'
  BY InvNext
<1> QED BY <1>1, <1>2, PTL DEF Spec

-----------------------------------------------------------------------------
\* Whatever order the tasks of Discover's and Jobs' pools end in, the jobs and
\* the precooked handbacks are the modes of the files the command line asks
\* for and no job is both; under one prefix, and everywhere if the prefixes are in
\* path order, they are in path order and a limit leaves out only what comes
\* after; and none is there twice unless two prefixes hold the same file.
THEOREM JobsFollowTheWalk == Spec => []JobsAreTheScopeInOrder
<1>1. Inv => JobsAreTheScopeInOrder
  <2> SUFFICES ASSUME Inv, Selected PROVE JobsAreTheScopeInOrder
    BY DEF JobsAreTheScopeInOrder
  <2> DEFINE wanted == Wanted(kind, setup)
             modes  == {p \in wanted \X Modes : p[2] \in Range(ModesOf(kind[p[1]]))}
             got    == Range(Ids(jobs)) \cup Range(Ids(precooked))
  <2>1. Joined(jobs, cases, kind, setup, TRUE) /\ Joined(precooked, cases, kind, setup, FALSE)
    BY DEF Inv, Joining
  <2> HIDE DEF wanted, modes, got
  <2>2. ASSUME NEW s, NEW b \in BOOLEAN, Joined(s, cases, kind, setup, b)
        PROVE  /\ DOMAIN Ids(s) = 1..Len(s)
               /\ \A p \in 1..Len(s) : Ids(s)[p] = s[p].id
               /\ \A x : x \in Range(Ids(s)) <=> \E p \in 1..Len(s) : x = s[p].id
    <3>1. s \in Seq(Range(s))
      BY <2>2, Zenon DEF Joined
    <3>2. DOMAIN s = 1..Len(s)
      BY <3>1
    <3> QED BY <3>2, Zenon DEF Ids, Range
  <2> DEFINE Tag(x, b) == \E f \in wanted : \E m \in Range(ModesOf(kind[f])) :
                             x = <<f, m>> /\ ((Blame(kind[f], m) = "none") <=> b)
  <2>3. ASSUME NEW s, NEW b \in BOOLEAN, Joined(s, cases, kind, setup, b),
               NEW x, x \in Range(Ids(s))
        PROVE  Tag(x, b)
    <3>0. \A y : y \in Range(Ids(s)) <=> \E p \in 1..Len(s) : y = s[p].id
      BY <2>2, <2>3
    <3>1. PICK p \in 1..Len(s) : x = s[p].id
      BY <2>3, <3>0, Zenon
    <3>a. PICK f \in wanted : \E m \in Range(ModesOf(kind[f])) :
              s[p] = Entry(f, kind[f], m) /\ ((Blame(kind[f], m) = "none") <=> b)
      BY <2>3, Zenon DEF Joined, wanted
    <3>2. PICK m \in Range(ModesOf(kind[f])) :
              s[p] = Entry(f, kind[f], m) /\ ((Blame(kind[f], m) = "none") <=> b)
      BY <3>a
    <3>3. s[p].id = <<f, m>>
      BY <3>2, EntryFields
    <3> QED BY <3>1, <3>2, <3>3, Zenon
  <2>c. /\ \A x \in Range(Ids(jobs)) : Tag(x, TRUE)
        /\ \A x \in Range(Ids(precooked)) : Tag(x, FALSE)
    <3> HIDE DEF Tag
    <3> QED BY <2>1, <2>3, Zenon
  <2>a. ASSUME NEW x, x \in Range(Ids(jobs))
        PROVE  \E f \in wanted : \E m \in Range(ModesOf(kind[f])) :
                   x = <<f, m>> /\ Blame(kind[f], m) = "none"
    BY <2>a, <2>c, Zenon
  <2>b. ASSUME NEW x, x \in Range(Ids(precooked))
        PROVE  \E f \in wanted : \E m \in Range(ModesOf(kind[f])) :
                   x = <<f, m>> /\ Blame(kind[f], m) # "none"
    BY <2>b, <2>c, Zenon
  <2> HIDE DEF Tag
  <2>4. ASSUME NEW f, NEW m \in Range(ModesOf(kind[f])) PROVE m \in Modes
    <3> DEFINE M == ModesOf(kind[f])
    <3>1. M \in Seq(Modes)
      BY ModesFacts
    <3> HIDE DEF M
    <3>2. Range(M) \subseteq Modes
      BY <3>1 DEF Range
    <3> QED BY <3>2 DEF M
  <2>5. \A f, m : <<f, m>> \in modes <=>
            f \in wanted /\ m \in Modes /\ m \in Range(ModesOf(kind[f]))
    BY DEF modes
  <2>6. got \subseteq modes
    <3> SUFFICES ASSUME NEW x \in got PROVE x \in modes
      OBVIOUS
    <3>a. x \in Range(Ids(jobs)) \/ x \in Range(Ids(precooked))
      BY DEF got
    <3>1. PICK f \in wanted : \E m \in Range(ModesOf(kind[f])) : x = <<f, m>>
      <4>1. CASE x \in Range(Ids(jobs))
        BY <2>a, <4>1, Zenon
      <4>2. CASE x \in Range(Ids(precooked))
        BY <2>b, <4>2, Zenon
      <4> QED BY <3>a, <4>1, <4>2, Zenon
    <3> QED BY <2>4, <2>5, <3>1, Zenon
  <2>7. ASSUME setup.limit <= 0 PROVE got = modes
    <3> SUFFICES ASSUME NEW x \in modes PROVE x \in got
      BY <2>6
    <3>1. PICK f \in wanted, m \in Modes : x = <<f, m>> /\ m \in Range(ModesOf(kind[f]))
      BY DEF modes
    <3>2. Entry(f, kind[f], m).id = x
      BY <3>1, EntryFields
    <3>3. CASE Blame(kind[f], m) = "none"
      <4>1. PICK p \in 1..Len(jobs) : jobs[p] = Entry(f, kind[f], m)
        BY <2>1, <2>7, <3>1, <3>3, Zenon DEF Joined, wanted
      <4> QED BY <2>1, <2>2, <3>2, <4>1, Zenon DEF got
    <3>4. CASE Blame(kind[f], m) # "none"
      <4>1. PICK p \in 1..Len(precooked) : precooked[p] = Entry(f, kind[f], m)
        BY <2>1, <2>7, <3>1, <3>4, Zenon DEF Joined, wanted
      <4> QED BY <2>1, <2>2, <3>2, <4>1, Zenon DEF got
    <3> QED BY <3>3, <3>4
  <2>8. Range(Ids(jobs)) \cap Range(Ids(precooked)) = {}
    <3> SUFFICES ASSUME NEW x \in Range(Ids(jobs)), x \in Range(Ids(precooked))
                 PROVE  FALSE
      BY Zenon
    <3>1. PICK f, m : x = <<f, m>> /\ Blame(kind[f], m) = "none"
      BY <2>a, Zenon
    <3>2. PICK g, n : x = <<g, n>> /\ Blame(kind[g], n) # "none"
      BY <2>b, Zenon
    <3>3. f = g /\ m = n
      BY <3>1, <3>2
    <3> QED BY <3>1, <3>2, <3>3
  <2>9. ASSUME NEW s, NEW b \in BOOLEAN, Joined(s, cases, kind, setup, b),
               Disjoint(setup.prefixes),
               NEW m \in DOMAIN Ids(s), NEW n \in DOMAIN Ids(s), m < n
        PROVE  /\ Ids(s)[m] # Ids(s)[n]
               /\ WalkedByPath(setup.prefixes, Ids(s)[m][1], Ids(s)[n][1]) =>
                     PathBefore(Ids(s)[m], Ids(s)[n])
    <3> DEFINE pre == setup.prefixes
               x   == Ids(s)[m]
               y   == Ids(s)[n]
    <3>1. m \in 1..Len(s) /\ n \in 1..Len(s) /\ x = s[m].id /\ y = s[n].id
      BY <2>2, <2>9, Zenon
    <3>2. BeforeIn(pre, x, y)
      BY <2>9, <3>1, Zenon DEF Joined
    <3>3. DOMAIN pre \subseteq Nat /\ \A k \in DOMAIN pre : pre[k] \subseteq Nat
      <4>1. pre \in Seq(SUBSET Files) /\ Files \subseteq Nat
        BY LowerOnlyAssumption, FS_CardinalityType DEF Inv, Setting
      <4> HIDE DEF pre
      <4>2. DOMAIN pre = 1..Len(pre) /\ Len(pre) \in Nat
        BY <4>1
      <4>3. \A k \in 1..Len(pre) : pre[k] \in SUBSET Files
        BY <4>1
      <4>4. DOMAIN pre \subseteq Nat
        BY <4>2
      <4> QED BY <4>1, <4>2, <4>3, <4>4, Zenon
    <3> HIDE DEF pre, x, y
    <3>4. PICK i \in DOMAIN pre, k \in DOMAIN pre :
              /\ x[1] \in pre[i] /\ y[1] \in pre[k]
              /\ \/ i < k
                 \/ i = k /\ x[1] < y[1]
                 \/ i = k /\ x[1] = y[1] /\ x[2] = "sloppy" /\ y[2] = "strict"
      BY <3>2, Zenon DEF BeforeIn
    <3>5. CASE i = k /\ x[1] = y[1] /\ x[2] = "sloppy" /\ y[2] = "strict"
      BY <3>5 DEF PathBefore, x, y, pre
    <3>6. CASE FileBefore(pre, x[1], y[1])
      <4>1. Disjoint(pre)
        BY <2>9 DEF pre
      <4>2. WalkedByPath(pre, x[1], y[1]) => x[1] < y[1]
        BY <3>3, <3>6, <4>1, FilesAscend, Zenon
      <4>3. x # y
        <5> SUFFICES ASSUME x = y PROVE FALSE
          OBVIOUS
        <5>1. WalkedByPath(pre, x[1], y[1])
          BY <3>4, Zenon DEF WalkedByPath
        <5>2. x[1] < y[1] /\ x[1] = y[1] /\ x[1] \in Nat
          BY <3>3, <3>4, <4>2, <5>1
        <5> QED BY <5>2
      <4> QED BY <4>2, <4>3, Zenon DEF PathBefore, x, y, pre
    <3>7. CASE i < k \/ (i = k /\ x[1] < y[1])
      <4>1. FileBefore(pre, x[1], y[1])
        BY <3>4, <3>7, Zenon DEF FileBefore
      <4> QED BY <4>1, <3>6, Zenon
    <3> QED BY <3>4, <3>5, <3>7, Zenon
  <2>10. Disjoint(setup.prefixes) =>
            \A s \in {Ids(jobs), Ids(precooked)} : \A m, n \in DOMAIN s : m < n =>
                /\ s[m] # s[n]
                /\ WalkedByPath(setup.prefixes, s[m][1], s[n][1]) =>
                      PathBefore(s[m], s[n])
    BY <2>1, <2>9, Zenon
  <2>11. ASSUME Disjoint(setup.prefixes), NEW x \in modes, NEW y \in got,
                x[1] < y[1], WalkedByPath(setup.prefixes, x[1], y[1])
         PROVE  x \in got
    <3>1. PICK f \in wanted, m \in Modes : x = <<f, m>> /\ m \in Range(ModesOf(kind[f]))
      BY DEF modes
    <3>2. x[1] = f
      BY <3>1
    <3>3. PICK n \in 1..Len(cases) : y[1] = cases[n]
      <4>1. \A q \in 1..Len(jobs) : \E n \in 1..Len(cases) : jobs[q].id[1] = cases[n]
        BY <2>1, Zenon DEF Joined
      <4>2. \A q \in 1..Len(precooked) : \E n \in 1..Len(cases) : precooked[q].id[1] = cases[n]
        BY <2>1, Zenon DEF Joined
      <4>3. \/ \E q \in 1..Len(jobs) : y = jobs[q].id
            \/ \E q \in 1..Len(precooked) : y = precooked[q].id
        <5>1. y \in Range(Ids(jobs)) \/ y \in Range(Ids(precooked))
          BY DEF got
        <5>2. ASSUME NEW s, NEW b \in BOOLEAN, Joined(s, cases, kind, setup, b)
              PROVE  \A z : z \in Range(Ids(s)) => \E q \in 1..Len(s) : z = s[q].id
          <6>1. \A z : z \in Range(Ids(s)) <=> \E p \in 1..Len(s) : z = s[p].id
            BY <2>2, <5>2
          <6> QED BY <6>1, Zenon
        <5>3. TRUE \in BOOLEAN /\ FALSE \in BOOLEAN
          OBVIOUS
        <5>4. \A z : z \in Range(Ids(jobs)) => \E q \in 1..Len(jobs) : z = jobs[q].id
          BY <2>1, <5>2, <5>3, Zenon
        <5>5. \A z : z \in Range(Ids(precooked)) =>
                 \E q \in 1..Len(precooked) : z = precooked[q].id
          BY <2>1, <5>2, <5>3, Zenon
        <5> QED BY <5>1, <5>4, <5>5, Zenon
      <4> QED BY <4>1, <4>2, <4>3, Zenon
    <3>4. Closed(cases, kind, setup)
      BY <2>1, Zenon DEF Joined
    <3>5. PICK q \in 1..Len(cases) : cases[q] = f
      BY <2>11, <3>2, <3>3, <3>4, Zenon DEF Closed, wanted
    <3>6. Entry(f, kind[f], m).id = x
      BY <3>1, EntryFields
    <3>7. CASE Blame(kind[f], m) = "none"
      <4>1. PICK p \in 1..Len(jobs) : jobs[p] = Entry(f, kind[f], m)
        BY <2>1, <3>1, <3>5, <3>7, Zenon DEF Joined
      <4> QED BY <2>1, <2>2, <3>6, <4>1, Zenon DEF got
    <3>8. CASE Blame(kind[f], m) # "none"
      <4>1. PICK p \in 1..Len(precooked) : precooked[p] = Entry(f, kind[f], m)
        BY <2>1, <3>1, <3>5, <3>8, Zenon DEF Joined
      <4> QED BY <2>1, <2>2, <3>6, <4>1, Zenon DEF got
    <3> QED BY <3>7, <3>8
  <2> QED BY <2>6, <2>7, <2>8, <2>10, <2>11, Zenon
         DEF JobsAreTheScopeInOrder, Wanted, Modes, wanted, modes, got
<1> QED BY <1>1, InvHolds, PTL

\* The lower-only loop keeps no more checkers alive than fit the memory, for
\* any memory, any size of a worker and any -jobs, and CapWorkers leaves a full
\* run with worker counts and soft limits that fit.
THEOREM MemoryIsKept == Spec => []MemoryIsRespected
<1>1. Inv => MemoryIsRespected
  <2> SUFFICES ASSUME Inv, setup.ram > 0 PROVE MemoryIsRespected
    BY DEF MemoryIsRespected
  <2> DEFINE k == Cardinality(DOMAIN flight)
             L == MemoryLimitBytes(setup.ram)
  <2>1. setup.request \in Int /\ setup.ram \in Nat /\ setup.ram # 0
        /\ PerWorker \in Nat \ {0}
    BY LowerOnlyAssumption DEF Inv, Setting
  <2>2. /\ Workers \in Int /\ (setup.request > 0 => Workers > 0)
        /\ Workers > 1 => Workers * PerWorker <= L
    BY <2>1, CapFacts DEF Workers
  <2>3. L \in Nat
    BY <2>1, DivTimes DEF MemoryLimitBytes
  <2>4. k \in Nat /\ k <= Concurrency
    BY FS_CardinalityType DEF Inv, Flying
  <2> HIDE DEF k, L
  <2>5. k <= 1 \/ k * PerWorker <= L
    <3> SUFFICES ASSUME k > 1 PROVE k * PerWorker <= L
      BY <2>4
    <3>1. Workers > 1 /\ k <= Workers
      BY <2>2, <2>4 DEF Concurrency
    <3>2. k * PerWorker <= Workers * PerWorker
      BY <2>1, <2>2, <2>4, <3>1, TimesMonotone
    <3>3. k * PerWorker \in Int /\ Workers * PerWorker \in Int
      BY <2>1, <2>2, <2>4
    <3> QED BY <2>2, <2>3, <3>1, <3>2, <3>3
  <2>6. ASSUME setup.request > 0
        PROVE  /\ RunAllWorkers = 1 \/ RunAllWorkers * PerWorker <= L
               /\ RunAllWorkers * PerWorkerLimit <= L
    <3>1. RunAllWorkers = Workers /\ Workers \in Nat \ {0}
      BY <2>2, <2>6 DEF RunAllWorkers
    <3>2. PerWorkerLimit = L \div Workers
      <4>1. Max({Workers, 1}) = Workers
        BY <2>2, <3>1, MaxWithOne
      <4> QED BY <4>1 DEF PerWorkerLimit, L
    <3>3. Workers * (L \div Workers) <= L
      BY <2>3, <3>1, DivTimes
    <3>4. Workers = 1 \/ Workers * PerWorker <= L
      BY <2>2, <3>1
    <3> QED BY <3>1, <3>2, <3>3, <3>4
  <2> QED BY <2>5, <2>6 DEF MemoryIsRespected, k, L
<1> QED BY <1>1, InvHolds, PTL

\* A report accounts for every job that was composed: each is lowered, handed
\* back, refused or, without a word, dropped, and never two of these, however
\* the jobs in flight end.
THEOREM ReportIsComplete == Spec => []ReportAddsUp
<1>1. Inv => ReportAddsUp
  BY DEF Inv
<1> QED BY <1>1, InvHolds, PTL

\* A name of an include, as against the two marks of Blame.
Names ==
    (STRING \ {"none", "host"}) \cup {"sta.js", "assert.js", "doneprintHandle.js"}

LEMMA WiderSeq ==
    ASSUME NEW A, NEW B, A \subseteq B, NEW s \in Seq(A)
    PROVE  s \in Seq(B)
OBVIOUS

\* Compose's list of names is a sequence of names.
LEMMA ComposeNamesType ==
    ASSUME NEW k \in Kinds
    PROVE  ComposeNames(k) \in Seq(Names)
<1> DEFINE last == IF "async" \in k.flags THEN <<"doneprintHandle.js">> ELSE <<>>
           two  == <<"sta.js", "assert.js">>
<1>1. k.includes \in Seq(Names)
  <2>1. k.includes \in Seq(STRING \ {"none", "host"})
    BY CorpusAssumption, Zenon
  <2>2. STRING \ {"none", "host"} \subseteq Names
    BY Zenon DEF Names
  <2> QED BY <2>1, <2>2, WiderSeq, Zenon
<1>2. two \in Seq(Names)
  <2>1. "sta.js" \in Names /\ "assert.js" \in Names
    BY Zenon DEF Names
  <2> HIDE DEF Names
  <2> QED BY <2>1
<1>3. last \in Seq(Names)
  <2>1. "doneprintHandle.js" \in Names
    BY Zenon DEF Names
  <2>2. <<"doneprintHandle.js">> \in Seq(Names)
    BY <2>1, Singleton, Zenon
  <2>3. <<>> \in Seq(Names)
    OBVIOUS
  <2> QED BY <2>2, <2>3, Zenon
<1>4. ComposeNames(k) = two \o k.includes \o last
  BY Zenon DEF ComposeNames
<1> HIDE DEF two, last
<1> QED BY <1>1, <1>2, <1>3, <1>4

\* The two lists hold the same names: what includeNames drops is a repeat.
LEMMA TheListsAgree ==
    ASSUME NEW k \in Kinds
    PROVE  Range(IncludeNames(k)) = Range(ComposeNames(k))
<1> DEFINE all   == ComposeNames(k)
           parts == [n \in DOMAIN all |->
                       IF \E i \in 1..(n - 1) : all[i] = all[n] THEN <<>> ELSE <<all[n]>>]
           names == IncludeNames(k)
<1>1. all \in Seq(Names)
  BY ComposeNamesType
<1>2. names = FlattenSeq(parts)
  BY Zenon DEF IncludeNames, ComposeNames
<1> HIDE DEF all, names
<1>3. DOMAIN all = 1..Len(all) /\ Len(all) \in Nat
  BY <1>1
<1>4. ASSUME NEW n \in 1..Len(all)
      PROVE  /\ parts[n] \in Seq(Names)
             /\ \A j \in 1..Len(parts[n]) : parts[n][j] = all[n]
             /\ ~(\E i \in 1..(n - 1) : all[i] = all[n]) =>
                   1 \in 1..Len(parts[n]) /\ parts[n][1] = all[n]
  <2> DEFINE x == all[n]
  <2>1. x \in Names
    BY <1>1
  <2>2. /\ <<x>> \in Seq(Names)
        /\ \A j \in 1..Len(<<x>>) : j = 1 /\ <<x>>[j] = x
        /\ 1 \in 1..Len(<<x>>) /\ <<x>>[1] = x
    BY <2>1, Singleton, Zenon
  <2>3. <<>> \in Seq(Names) /\ 1..Len(<<>>) = {}
    OBVIOUS
  <2>4. parts[n] = IF \E i \in 1..(n - 1) : all[i] = x THEN <<>> ELSE <<x>>
    BY <1>3, Zenon
  <2> HIDE DEF parts
  <2> QED BY <2>2, <2>3, <2>4, Zenon
<1>5. parts \in Seq(Seq(Names)) /\ Len(parts) = Len(all)
  <2>1. parts = [n \in 1..Len(all) |-> parts[n]]
    BY <1>3, Zenon
  <2> HIDE DEF parts
  <2> QED BY <1>3, <1>4, <2>1
<1> HIDE DEF parts
<1>6. names \in Seq(Names) /\ Lists(names, Len(all), parts)
  BY <1>2, <1>5, FlattenFacts, Zenon
<1>7. DOMAIN names = 1..Len(names)
  BY <1>6
<1>8. ASSUME NEW p \in 1..Len(names) PROVE \E n \in 1..Len(all) : all[n] = names[p]
  <2>1. PICK n \in 1..Len(all) : \E j \in 1..Len(parts[n]) : names[p] = parts[n][j]
    BY <1>6, Zenon DEF Lists
  <2> QED BY <1>4, <2>1, Zenon
<1>9. ASSUME NEW n \in 1..Len(all) PROVE \E p \in 1..Len(names) : names[p] = all[n]
  <2> DEFINE T == {i \in 1..Len(all) : all[i] = all[n]}
  <2>1. T \in SUBSET Nat /\ T # {}
    BY <1>3
  <2>2. PICK i \in T : \A j \in T : i <= j
    BY <2>1, Least, Zenon
  <2>3. i \in 1..Len(all) /\ all[i] = all[n]
    OBVIOUS
  <2>4. ~(\E j \in 1..(i - 1) : all[j] = all[i])
    <3> SUFFICES ASSUME NEW j \in 1..(i - 1), all[j] = all[i] PROVE FALSE
      OBVIOUS
    <3>1. j \in T /\ ~(i <= j)
      BY <1>3, <2>3
    <3> QED BY <2>2, <3>1, Zenon
  <2>5. 1 \in 1..Len(parts[i]) /\ parts[i][1] = all[i]
    BY <1>4, <2>3, <2>4, Zenon
  <2>6. PICK p \in 1..Len(names) : names[p] = parts[i][1]
    BY <1>6, <2>3, <2>5, Zenon DEF Lists
  <2> QED BY <2>3, <2>5, <2>6, Zenon
<1>10. /\ \A x : x \in Range(names) <=> \E p \in 1..Len(names) : names[p] = x
       /\ \A x : x \in Range(all) <=> \E n \in 1..Len(all) : all[n] = x
  BY <1>3, <1>7, Zenon DEF Range
<1>11. Range(names) = Range(all)
  BY <1>8, <1>9, <1>10, Zenon
<1> QED BY <1>11 DEF names, all

\* Compose's first failure is an unported name of the audit's list, and it
\* fails when there is one.
LEMMA BlameFacts ==
    ASSUME NEW k \in Kinds, NEW m, m # "raw", "CanBlockIsFalse" \notin k.flags
    PROVE  /\ Range(IncludeNames(k)) \ Ported = {} => Blame(k, m) = "none"
           /\ Range(IncludeNames(k)) \ Ported # {} =>
                 /\ Blame(k, m) \in Range(IncludeNames(k)) \ Ported
                 /\ Blame(k, m) # "none"
<1> DEFINE all  == ComposeNames(k)
           lost == {n \in DOMAIN all : all[n] \notin Ported}
<1>1. all \in Seq(Names) /\ Range(IncludeNames(k)) = Range(all)
  BY ComposeNamesType, TheListsAgree
<1>2. Blame(k, m) = IF lost = {} THEN "none" ELSE all[Min(lost)]
  BY Zenon DEF Blame
<1> HIDE DEF all
<1>3. \A x : x \in Range(all) <=> \E n \in DOMAIN all : all[n] = x
  BY Zenon DEF Range
<1>4. lost = {} <=> Range(all) \ Ported = {}
  BY <1>3, Zenon
<1>5. ASSUME lost # {}
      PROVE  Blame(k, m) \in Range(all) \ Ported /\ Blame(k, m) # "none"
  <2>1. lost \in SUBSET Nat
    BY <1>1
  <2>2. \E x \in lost : \A y \in lost : x <= y
    BY <1>5, <2>1, Least, Zenon
  <2> HIDE DEF lost
  <2>3. Min(lost) \in lost
    BY <2>2, Zenon DEF Min
  <2>4. Min(lost) \in DOMAIN all /\ all[Min(lost)] \notin Ported
    BY <2>3 DEF lost
  <2>5. all[Min(lost)] \in Names
    BY <1>1, <2>4
  <2>6. all[Min(lost)] # "none"
    BY <2>5 DEF Names
  <2> QED BY <1>2, <1>3, <1>5, <2>4, <2>6, Zenon
<1> HIDE DEF lost
<1> QED BY <1>1, <1>2, <1>4, <1>5, Zenon

\* The include audit and Compose agree for every corpus and every set of ports,
\* on every job that loads includes.
THEOREM AuditFollowsCompose == Spec => []AuditAgreesWithCompose
<1>1. Inv => AuditAgreesWithCompose
  <2> SUFFICES ASSUME Inv, Selected,
                      NEW n \in DOMAIN cases, NEW m \in Range(ModesOf(kind[cases[n]])),
                      m # "raw", "CanBlockIsFalse" \notin kind[cases[n]].flags
               PROVE  LET k     == kind[cases[n]]
                          gates == {name \in Range(IncludeNames(k)) \ Ported :
                                       <<n, m>> \in Reach(name, cases, kind)}
                          waits == {p.blame : p \in {q \in Range(precooked) :
                                                       q.id = <<cases[n], m>>}}
                      IN  IF gates = {} THEN waits = {}
                                        ELSE \E name \in gates : waits = {name}
    BY Zenon DEF AuditAgreesWithCompose
  <2> DEFINE f == cases[n]
             k == kind[f]
             free  == Range(IncludeNames(k)) \ Ported
             gates == {name \in free : <<n, m>> \in Reach(name, cases, kind)}
             waits == {p.blame : p \in {q \in Range(precooked) : q.id = <<f, m>>}}
  <2>1. Joined(precooked, cases, kind, setup, FALSE)
    BY DEF Inv, Joining
  <2>2. precooked \in Seq(Range(precooked)) /\ cases \in Seq(Files)
    BY <2>1, Zenon DEF Joined
  <2>3. n \in 1..Len(cases) /\ f \in Files /\ k \in Kinds
    BY <2>2 DEF Inv, Setting
  <2>4. /\ free = {} => Blame(k, m) = "none"
        /\ free # {} => Blame(k, m) \in free /\ Blame(k, m) # "none"
    <3> HIDE DEF k
    <3>1. m # "raw" /\ "CanBlockIsFalse" \notin k.flags
      BY DEF k
    <3> QED BY <2>3, <3>1, BlameFacts, Zenon
  <2>5. m \in Modes
    <3> DEFINE M == ModesOf(k)
    <3>1. M \in Seq(Modes) /\ m \in Range(M)
      BY ModesFacts
    <3> HIDE DEF M
    <3> QED BY <3>1 DEF Range
  <2>6. gates = free
    <3> SUFFICES ASSUME NEW name \in free PROVE <<n, m>> \in Reach(name, cases, kind)
      OBVIOUS
    <3>1. <<n, m>> \in (DOMAIN cases) \X Modes
      BY <2>5
    <3>2. <<n, m>>[1] = n /\ <<n, m>>[2] = m
      OBVIOUS
    <3>3. name \in Range(IncludeNames(k))
      OBVIOUS
    <3> QED BY <3>1, <3>2, <3>3, Zenon DEF Reach, Modes
  <2>7. ASSUME NEW p \in Range(precooked), p.id = <<f, m>>
        PROVE  p.blame = Blame(k, m) /\ Blame(k, m) # "none"
    <3>1. PICK q \in 1..Len(precooked) : p = precooked[q]
      BY <2>2 DEF Range
    <3>a. PICK g \in Wanted(kind, setup) : \E l \in Range(ModesOf(kind[g])) :
              /\ precooked[q] = Entry(g, kind[g], l)
              /\ (Blame(kind[g], l) = "none") <=> FALSE
      BY <2>1, Zenon DEF Joined
    <3>2. PICK l \in Range(ModesOf(kind[g])) :
              /\ precooked[q] = Entry(g, kind[g], l)
              /\ (Blame(kind[g], l) = "none") <=> FALSE
      BY <3>a
    <3>3. <<g, l>> = <<f, m>> /\ Blame(kind[g], l) = p.blame
      BY <2>7, <3>1, <3>2, EntryFields
    <3>4. g = f /\ l = m
      BY <3>3
    <3> QED BY <3>2, <3>3, <3>4, Zenon
  <2>8. ASSUME Blame(k, m) # "none"
        PROVE  \E p \in Range(precooked) : p.id = <<f, m>> /\ p.blame = Blame(k, m)
    <3>1. PICK q \in 1..Len(precooked) : precooked[q] = Entry(f, k, m)
      BY <2>1, <2>3, <2>8, Zenon DEF Joined
    <3>2. precooked[q] \in Range(precooked)
      BY <2>2 DEF Range
    <3>3. precooked[q].id = <<f, m>> /\ precooked[q].blame = Blame(k, m)
      BY <3>1, EntryFields
    <3> QED BY <3>2, <3>3, Zenon
  <2>9. ASSUME free = {} PROVE waits = {}
    <3> HIDE DEF k, f, free
    <3> QED BY <2>4, <2>7, <2>9, Zenon
  <2>10. ASSUME free # {} PROVE Blame(k, m) \in free /\ waits = {Blame(k, m)}
    <3> HIDE DEF k, f, free
    <3>1. \A y \in waits : y = Blame(k, m)
      BY <2>7, Zenon
    <3>2. Blame(k, m) \in waits
      BY <2>4, <2>8, <2>10, Zenon
    <3> QED BY <2>4, <2>10, <3>1, <3>2, Zenon
  <2> HIDE DEF waits, gates, free
  <2>11. IF gates = {} THEN waits = {} ELSE \E name \in gates : waits = {name}
    BY <2>6, <2>9, <2>10, Zenon
  <2> QED BY <2>11 DEF waits, gates, free
<1> QED BY <1>1, InvHolds, PTL
=============================================================================
