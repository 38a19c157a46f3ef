------------------------- MODULE ResultsCacheProofs -------------------------
(***************************************************************************)
(* Proofs about the cache file for any keys, any number of runs, kills and *)
(* full disks.                                                             *)
(***************************************************************************)
EXTENDS ResultsCache, FiniteSetTheorems, TLAPS

Lines == [e : Entries \cup {Junk}, nl : BOOLEAN]

\* Line n of f is an entry of k.
Holds(f, n, k) == f[n].e # Junk /\ f[n].e.key = k

\* The entry of k is the last line and lacks its newline: the next append
\* destroys it.
Loose(f, k) == Open(f) /\ Holds(f, Len(f), k)

OneLinePerKey(f) ==
    \A k \in Keys : \A m, n \in DOMAIN f : Holds(f, m, k) /\ Holds(f, n, k) => m = n

(***************************************************************************)
(* The inductive invariant.                                                *)
(***************************************************************************)
TypeInv ==
    /\ phase \in {"down", "up", "compacting", "written", "saved"}
    /\ mem \in [Keys -> Verdicts \cup {None}]
    /\ added \in Nat
    /\ stream \in {"none", "open", "broken"}
    /\ file \in Seq(Lines)
    /\ tmp \in Seq(Lines)
    /\ done \in SUBSET Keys
    /\ tears \in Nat
    /\ fulls \in Nat

\* A Put writes no key the file has: the run loaded it.
FileIsLean == OneLinePerKey(file)

\* A run that added nothing knows what it loaded.
AddedCounts == phase = "up" /\ added = 0 => Loaded(file) = mem

\* Before the rename the temporary file holds all that the run knows, each
\* line with its newline.
TmpIsWhole ==
    phase = "written" =>
        OneLinePerKey(tmp) /\ Loaded(tmp) = mem /\ \A n \in DOMAIN tmp : tmp[n].nl

\* Only a full disk breaks the stream.
BrokenByFull == stream = "broken" => fulls > 0

\* The finished keys that are lost or will be by the next append.
Exposed == Lost \cup {k \in done : Loose(file, k)}

\* Each kill in a write pays for one key: for the line it left open, or, once
\* something was appended to that line, for what was appended.
TearsPay ==
    fulls = 0 => Cardinality(Exposed) + (IF Open(file) THEN 1 ELSE 0) <= tears

Inv ==
    /\ TypeInv
    /\ FileIsLean
    /\ DiskAgreesWithMemory
    /\ AddedCounts
    /\ TmpIsWhole
    /\ SavedIsComplete
    /\ BrokenByFull
    /\ TearsPay

(***************************************************************************)
(* What LoadCache makes of a file without a repeated key.                  *)
(***************************************************************************)
LEMMA LoadedType ==
    ASSUME NEW f
    PROVE  /\ Loaded(f) = [k \in Keys |-> Loaded(f)[k]]
           /\ DOMAIN Loaded(f) = Keys
BY DEF Loaded

LEMMA LoadedNone ==
    ASSUME NEW f, NEW k \in Keys, \A n \in DOMAIN f : ~Holds(f, n, k)
    PROVE  Loaded(f)[k] = None
BY DEF Loaded, Holds

LEMMA LoadedAt ==
    ASSUME NEW f \in Seq(Lines), OneLinePerKey(f), NEW k \in Keys,
           NEW n \in DOMAIN f, Holds(f, n, k)
    PROVE  Loaded(f)[k] = f[n].e.status /\ Loaded(f)[k] \in Verdicts
<1> DEFINE at == {m \in DOMAIN f : f[m].e # Junk /\ f[m].e.key = k}
<1>1. at = {n}
  BY DEF OneLinePerKey, Holds
<1>2. n \in Nat
  OBVIOUS
<1>3. Max({n}) = n
  BY <1>2 DEF Max
<1>4. Loaded(f)[k] = f[n].e.status
  BY <1>1, <1>3 DEF Loaded
<1>5. f[n] \in Lines
  OBVIOUS
<1>6. f[n].e \in Entries
  BY <1>5 DEF Holds, Lines
<1>7. f[n].e.status \in Verdicts
  BY <1>6 DEF Entries
<1> QED
  BY <1>4, <1>7

\* A key is loaded exactly if some line holds it.
LEMMA LoadedSome ==
    ASSUME NEW f \in Seq(Lines), OneLinePerKey(f), NEW k \in Keys
    PROVE  /\ Loaded(f)[k] \in Verdicts \cup {None}
           /\ Loaded(f)[k] # None <=> \E n \in DOMAIN f : Holds(f, n, k)
BY LoadedNone, LoadedAt, ResultsCacheAssumption

LEMMA LoadedIsMemory ==
    ASSUME NEW f \in Seq(Lines), OneLinePerKey(f)
    PROVE  Loaded(f) \in [Keys -> Verdicts \cup {None}]
BY LoadedType, LoadedSome

(***************************************************************************)
(* Appending a line: onto a line that is complete, or onto an open one.    *)
(***************************************************************************)
LEMMA AppendType ==
    ASSUME NEW f \in Seq(Lines), NEW e \in Entries \cup {Junk}, NEW nl \in BOOLEAN
    PROVE  /\ AppendLine(f, e, nl) \in Seq(Lines)
           /\ Open(AppendLine(f, e, nl)) = ~nl
<1>1. Line(e, nl) \in Lines /\ Line(Junk, nl) \in Lines
  BY DEF Line, Lines
<1>2. Line(e, nl).nl = nl /\ Line(Junk, nl).nl = nl
  BY DEF Line
<1>3. CASE Open(f)
  <2>1. Len(f) \in DOMAIN f
    BY <1>3 DEF Open
  <2>2. AppendLine(f, e, nl) = [f EXCEPT ![Len(f)] = Line(Junk, nl)]
    BY <1>3 DEF AppendLine
  <2>3. /\ AppendLine(f, e, nl) \in Seq(Lines)
        /\ Len(AppendLine(f, e, nl)) = Len(f)
        /\ AppendLine(f, e, nl)[Len(f)] = Line(Junk, nl)
    BY <1>1, <2>1, <2>2
  <2> QED
    BY <1>2, <2>1, <2>3 DEF Open, Last
<1>4. CASE ~Open(f)
  <2>1. AppendLine(f, e, nl) = Append(f, Line(e, nl))
    BY <1>4 DEF AppendLine
  <2>2. /\ AppendLine(f, e, nl) \in Seq(Lines)
        /\ Len(AppendLine(f, e, nl)) = Len(f) + 1
        /\ AppendLine(f, e, nl)[Len(f) + 1] = Line(e, nl)
    BY <1>1, <2>1
  <2> QED
    BY <1>2, <2>2 DEF Open, Last
<1> QED
  BY <1>3, <1>4

\* The glued line is Junk and the others stay as they were.
LEMMA GluedLines ==
    ASSUME NEW f \in Seq(Lines), NEW e, NEW nl \in BOOLEAN, Open(f), NEW k \in Keys
    PROVE  LET g == AppendLine(f, e, nl)
           IN  /\ DOMAIN g = DOMAIN f
               /\ \A n \in DOMAIN f : Holds(g, n, k) <=> Holds(f, n, k) /\ n # Len(f)
               /\ \A n \in DOMAIN f : n # Len(f) => g[n] = f[n]
<1> DEFINE g == AppendLine(f, e, nl)
<1>1. g = [f EXCEPT ![Len(f)] = Line(Junk, nl)]
  BY DEF AppendLine
<1>2. Len(f) \in DOMAIN f
  BY DEF Open
<1>3. g[Len(f)].e = Junk
  BY <1>1, <1>2 DEF Line
<1>4. DOMAIN g = DOMAIN f /\ \A n \in DOMAIN f : n # Len(f) => g[n] = f[n]
  BY <1>1
<1> HIDE DEF g
<1>5. \A n \in DOMAIN f : Holds(g, n, k) <=> Holds(f, n, k) /\ n # Len(f)
  BY <1>3, <1>4 DEF Holds
<1> QED
  BY <1>4, <1>5 DEF g

\* Appending to an open line costs the entry on it, if it is one, and nothing
\* else; what is appended is not readable.
LEMMA GluedLoaded ==
    ASSUME NEW f \in Seq(Lines), OneLinePerKey(f),
           NEW e \in Entries \cup {Junk}, NEW nl \in BOOLEAN, Open(f)
    PROVE  /\ OneLinePerKey(AppendLine(f, e, nl))
           /\ \A k \in Keys : ~Loose(AppendLine(f, e, nl), k)
           /\ \A k \in Keys : Loaded(AppendLine(f, e, nl))[k]
                                 = IF Loose(f, k) THEN None ELSE Loaded(f)[k]
<1> DEFINE g == AppendLine(f, e, nl)
<1>1. g \in Seq(Lines)
  BY AppendType
<1>2. \A k \in Keys :
        /\ DOMAIN g = DOMAIN f
        /\ \A n \in DOMAIN f : Holds(g, n, k) <=> Holds(f, n, k) /\ n # Len(f)
        /\ \A n \in DOMAIN f : n # Len(f) => g[n] = f[n]
  BY GluedLines
<1>3. Len(f) \in DOMAIN f
  BY DEF Open
<1> HIDE DEF g
<1>4. OneLinePerKey(g)
  BY <1>2 DEF OneLinePerKey
<1>5. \A k \in Keys : ~Loose(g, k)
  BY <1>1, <1>2, <1>3 DEF Loose
<1>6. ASSUME NEW k \in Keys
      PROVE  Loaded(g)[k] = IF Loose(f, k) THEN None ELSE Loaded(f)[k]
  <2>1. CASE Loose(f, k)
    <3>1. \A n \in DOMAIN f : Holds(f, n, k) => n = Len(f)
      BY <1>3, <2>1 DEF Loose, OneLinePerKey
    <3>2. \A n \in DOMAIN g : ~Holds(g, n, k)
      BY <1>2, <3>1
    <3> QED
      BY <2>1, <3>2, LoadedNone
  <2>2. CASE ~Loose(f, k) /\ \E n \in DOMAIN f : Holds(f, n, k)
    <3>1. PICK n \in DOMAIN f : Holds(f, n, k)
      BY <2>2
    <3>2. n # Len(f)
      BY <2>2, <3>1 DEF Loose
    <3>3. Holds(g, n, k) /\ n \in DOMAIN g /\ g[n] = f[n]
      BY <1>2, <3>1, <3>2
    <3> QED
      BY <1>1, <1>4, <2>2, <3>1, <3>3, LoadedAt
  <2>3. CASE ~Loose(f, k) /\ ~\E n \in DOMAIN f : Holds(f, n, k)
    <3>1. \A n \in DOMAIN g : ~Holds(g, n, k)
      BY <1>2, <2>3
    <3> QED
      BY <2>3, <3>1, LoadedNone
  <2> QED
    BY <2>1, <2>2, <2>3
<1> QED
  BY <1>4, <1>5, <1>6 DEF g

\* A line after a complete one adds its entry, and nothing if it is Junk.
LEMMA AppendedLoaded ==
    ASSUME NEW f \in Seq(Lines), OneLinePerKey(f),
           NEW k \in Keys, NEW v \in Verdicts, Loaded(f)[k] = None,
           NEW e, e = Junk \/ e = [key |-> k, status |-> v],
           NEW nl \in BOOLEAN, ~Open(f)
    PROVE  /\ OneLinePerKey(AppendLine(f, e, nl))
           /\ \A i \in Keys : Loose(AppendLine(f, e, nl), i) => i = k
           /\ \A i \in Keys : Loaded(AppendLine(f, e, nl))[i]
                                 = IF e # Junk /\ i = k THEN v ELSE Loaded(f)[i]
<1> DEFINE g == AppendLine(f, e, nl)
<1>1. [key |-> k, status |-> v] \in Entries
  BY DEF Entries
<1>2. g \in Seq(Lines)
  BY <1>1, AppendType
<1>3. g = Append(f, Line(e, nl))
  BY DEF AppendLine
<1>4. /\ DOMAIN g = DOMAIN f \cup {Len(f) + 1} /\ Len(g) = Len(f) + 1
      /\ Len(f) + 1 \notin DOMAIN f
      /\ \A n \in DOMAIN f : g[n] = f[n]
      /\ g[Len(f) + 1].e = e
  BY <1>2, <1>3 DEF Line
<1>5. Junk # [key |-> k, status |-> v]
  BY <1>1, ResultsCacheAssumption
<1> HIDE DEF g
<1>6. \A i \in Keys : \A n \in DOMAIN f : Holds(g, n, i) <=> Holds(f, n, i)
  BY <1>4 DEF Holds
<1>7. \A i \in Keys : Holds(g, Len(f) + 1, i) <=> e # Junk /\ i = k
  BY <1>4, <1>5 DEF Holds
<1>8. \A n \in DOMAIN f : ~Holds(f, n, k)
  BY LoadedSome
<1>9. OneLinePerKey(g)
  BY <1>4, <1>6, <1>7, <1>8 DEF OneLinePerKey
<1>10. \A i \in Keys : Loose(g, i) => i = k
  BY <1>4, <1>7 DEF Loose
<1>11. ASSUME NEW i \in Keys
       PROVE  Loaded(g)[i] = IF e # Junk /\ i = k THEN v ELSE Loaded(f)[i]
  <2>1. CASE e # Junk /\ i = k
    <3>1. Holds(g, Len(f) + 1, i) /\ g[Len(f) + 1].e.status = v
      BY <1>4, <1>7, <2>1
    <3> QED
      BY <1>2, <1>4, <1>9, <2>1, <3>1, LoadedAt
  <2>2. CASE ~(e # Junk /\ i = k) /\ \E n \in DOMAIN f : Holds(f, n, i)
    <3>1. PICK n \in DOMAIN f : Holds(f, n, i)
      BY <2>2
    <3>2. Holds(g, n, i) /\ n \in DOMAIN g /\ g[n] = f[n]
      BY <1>4, <1>6, <3>1
    <3> QED
      BY <1>2, <1>9, <2>2, <3>1, <3>2, LoadedAt
  <2>3. CASE ~(e # Junk /\ i = k) /\ ~\E n \in DOMAIN f : Holds(f, n, i)
    <3>1. \A n \in DOMAIN g : ~Holds(g, n, i)
      BY <1>4, <1>6, <1>7, <2>3
    <3> QED
      BY <2>3, <3>1, LoadedNone
  <2> QED
    BY <2>1, <2>2, <2>3
<1> QED
  BY <1>9, <1>10, <1>11 DEF g

(***************************************************************************)
(* The file Save writes.                                                   *)
(***************************************************************************)
LEMMA ListsTheSet ==
    ASSUME NEW S, IsFiniteSet(S)
    PROVE  /\ SetToSeq(S) \in [1..Cardinality(S) -> S]
           /\ IsInjective(SetToSeq(S))
           /\ \A x \in S : \E n \in 1..Cardinality(S) : SetToSeq(S)[n] = x
           /\ Cardinality(S) \in Nat
<1> DEFINE N == Cardinality(S)
<1>1. N \in Nat /\ ExistsBijection(1..N, S)
  BY FS_CardinalityType
<1>2. \E f \in [1..N -> S] : IsInjective(f)
  BY <1>1 DEF ExistsBijection, Bijection, Injection
<1>3. SetToSeq(S) \in [1..N -> S] /\ IsInjective(SetToSeq(S))
  BY <1>2 DEF SetToSeq
<1>4. SetToSeq(S) \in Injection(1..N, S)
  BY <1>3 DEF Injection
<1>5. Cardinality(1..N) = N
  BY <1>1, FS_Interval
<1>6. SetToSeq(S) \in Surjection(1..N, S)
  BY <1>4, <1>5, FS_Injection
<1> QED
  BY <1>1, <1>3, <1>6 DEF Surjection

LEMMA CompactedIsWhole ==
    ASSUME TypeInv
    PROVE  /\ Compacted \in Seq(Lines)
           /\ OneLinePerKey(Compacted)
           /\ Loaded(Compacted) = mem
           /\ \A n \in DOMAIN Compacted : Compacted[n].nl
<1> DEFINE N == Cardinality(Known)
           s == SetToSeq(Known)
<1>1. IsFiniteSet(Known)
  BY ResultsCacheAssumption, FS_Subset DEF Known
<1>2. /\ s \in [1..N -> Known] /\ IsInjective(s) /\ N \in Nat
      /\ \A k \in Known : \E n \in 1..N : s[n] = k
  BY <1>1, ListsTheSet
<1> HIDE DEF N, s
<1>3. /\ DOMAIN Compacted = 1..N
      /\ \A n \in 1..N : Compacted[n] = Line([key |-> s[n], status |-> mem[s[n]]], TRUE)
  BY DEF Compacted, N, s
<1>4. \A n \in 1..N : s[n] \in Keys /\ mem[s[n]] \in Verdicts
  BY <1>2 DEF Known, TypeInv
<1>5. ASSUME NEW n \in 1..N
      PROVE  /\ Compacted[n] \in Lines /\ Compacted[n].nl
             /\ Compacted[n].e = [key |-> s[n], status |-> mem[s[n]]]
             /\ Compacted[n].e \in Entries
  <2>1. [key |-> s[n], status |-> mem[s[n]]] \in Entries
    BY <1>4 DEF Entries
  <2> DEFINE r == [key |-> s[n], status |-> mem[s[n]]]
  <2>2. Compacted[n] = Line(r, TRUE)
    BY <1>3
  <2>3. r \in Entries
    BY <2>1
  <2> HIDE DEF r
  <2>4. Compacted[n] \in Lines /\ Compacted[n].nl /\ Compacted[n].e = r
    BY <2>2, <2>3 DEF Line, Lines
  <2> QED
    BY <2>3, <2>4 DEF r
<1>6. Compacted \in Seq(Lines)
  <2>1. Compacted = [n \in 1..N |-> Compacted[n]]
    BY DEF Compacted, N
  <2>2. Compacted \in [1..N -> Lines]
    BY <1>5, <2>1
  <2> QED
    BY <1>2, <2>2
<1>7. \A n \in 1..N : Compacted[n].e.key = s[n] /\ Compacted[n].e.status = mem[s[n]]
  <2> SUFFICES ASSUME NEW n \in 1..N
               PROVE  Compacted[n].e.key = s[n] /\ Compacted[n].e.status = mem[s[n]]
    OBVIOUS
  <2>1. Compacted[n].e = [key |-> s[n], status |-> mem[s[n]]]
    BY <1>5
  <2> QED
    BY <2>1
<1>8. \A n \in 1..N : \A k \in Keys : Holds(Compacted, n, k) <=> s[n] = k
  BY <1>5, <1>7, ResultsCacheAssumption DEF Holds
<1>9. OneLinePerKey(Compacted)
  BY <1>2, <1>3, <1>8 DEF OneLinePerKey, IsInjective
<1>10. ASSUME NEW k \in Keys PROVE Loaded(Compacted)[k] = mem[k]
  <2>1. CASE k \in Known
    <3>1. PICK n \in 1..N : s[n] = k
      BY <1>2, <2>1
    <3>2. Holds(Compacted, n, k) /\ Compacted[n].e.status = mem[k]
      BY <1>7, <1>8, <3>1
    <3> QED
      BY <1>3, <1>6, <1>9, <3>2, LoadedAt
  <2>2. CASE k \notin Known
    <3>1. \A n \in DOMAIN Compacted : ~Holds(Compacted, n, k)
      BY <1>2, <1>3, <1>8, <2>2
    <3> QED
      BY <2>2, <3>1, LoadedNone DEF Known
  <2> QED
    BY <2>1, <2>2
<1>11. Loaded(Compacted) = mem
  BY <1>10, LoadedType DEF TypeInv
<1> QED
  BY <1>3, <1>5, <1>6, <1>9, <1>11

(***************************************************************************)
(* The steps.                                                              *)
(***************************************************************************)
LEMMA InvInit == Init => Inv
<1> SUFFICES ASSUME Init PROVE Inv
  OBVIOUS
<1> USE DEF Init
<1>1. TypeInv
  BY DEF TypeInv
<1>2. FileIsLean /\ DiskAgreesWithMemory /\ AddedCounts /\ TmpIsWhole /\ SavedIsComplete
  BY DEF FileIsLean, OneLinePerKey, DiskAgreesWithMemory, AddedCounts, TmpIsWhole,
     SavedIsComplete
<1>3. Exposed = {} /\ ~Open(file)
  BY DEF Exposed, Lost, Open
<1>4. BrokenByFull /\ TearsPay
  BY <1>3, FS_EmptySet DEF BrokenByFull, TearsPay
<1> QED
  BY <1>1, <1>2, <1>4 DEF Inv

\* A Put or a kill in one reaches the file only for a key that no line holds.
LEMMA NewKey ==
    ASSUME TypeInv, DiskAgreesWithMemory, phase = "up", NEW k \in Keys, mem[k] = None
    PROVE  Loaded(file)[k] = None
BY DEF DiskAgreesWithMemory

\* What f may gain and what it may lose when it becomes g on behalf of a Put.
Gains(f, g, k, v) ==
    \A i \in Keys :
        Loaded(g)[i] \in {None, Loaded(f)[i]} \cup (IF i = k THEN {v} ELSE {})

Keeps(f, g) ==
    \A i \in Keys :
        Loaded(f)[i] # None /\ ~Loose(f, i) => Loaded(g)[i] = Loaded(f)[i]

\* The file after the write of a Put, whole or torn.
LEMMA WrittenFile ==
    ASSUME TypeInv, FileIsLean, DiskAgreesWithMemory, phase = "up",
           NEW k \in Keys, NEW v \in Verdicts, mem[k] = None,
           NEW e \in {Junk, [key |-> k, status |-> v]}, NEW nl \in BOOLEAN,
           file' = AppendLine(file, e, nl)
    PROVE  /\ file' \in Seq(Lines)
           /\ FileIsLean'
           /\ Open(file') = ~nl
           /\ Gains(file, file', k, v)
           /\ Keeps(file, file')
           /\ \A i \in Keys : Loose(file', i) => i = k
           /\ e # Junk /\ ~Open(file) => Loaded(file')[k] = v
<1>1. [key |-> k, status |-> v] \in Entries
  BY DEF Entries
<1>2. file' \in Seq(Lines) /\ Open(file') = ~nl
  BY <1>1, AppendType DEF TypeInv
<1>3. Loaded(file)[k] = None
  BY NewKey
<1>4. CASE Open(file)
  <2>1. /\ OneLinePerKey(file')
        /\ \A i \in Keys : ~Loose(file', i)
        /\ \A i \in Keys : Loaded(file')[i]
                              = IF Loose(file, i) THEN None ELSE Loaded(file)[i]
    BY <1>1, <1>4, GluedLoaded DEF TypeInv, FileIsLean
  <2> QED
    BY <1>2, <1>4, <2>1 DEF FileIsLean, Gains, Keeps
<1>5. CASE ~Open(file)
  <2>1. file \in Seq(Lines) /\ OneLinePerKey(file)
    BY DEF TypeInv, FileIsLean
  <2>2. e = Junk \/ e = [key |-> k, status |-> v]
    OBVIOUS
  <2>3. /\ OneLinePerKey(file')
        /\ \A i \in Keys : Loose(file', i) => i = k
        /\ \A i \in Keys : Loaded(file')[i]
                              = IF e # Junk /\ i = k THEN v ELSE Loaded(file)[i]
    BY <1>3, <1>5, <2>1, <2>2, AppendedLoaded
  <2> QED
    BY <1>2, <1>3, <1>5, <2>3, ResultsCacheAssumption DEF FileIsLean, Gains, Keeps
<1> QED
  BY <1>4, <1>5

\* The steps that write to the file, all of them on behalf of a Put.
LEMMA PutWrites ==
    ASSUME TypeInv, NEW k \in Keys, NEW v \in Verdicts,
           \/ PutFlushed(k, v)
           \/ PutShort(k, v) /\ file' # file
           \/ KillInPut(k, v)
    PROVE  /\ phase = "up" /\ mem[k] = None
           /\ \E e \in {Junk, [key |-> k, status |-> v]}, nl \in BOOLEAN :
                 file' = AppendLine(file, e, nl)
           /\ PutFlushed(k, v) =>
                 file' = AppendLine(file, [key |-> k, status |-> v], TRUE)
           /\ KillInPut(k, v) =>
                 \E e \in {Junk, [key |-> k, status |-> v]} :
                    file' = AppendLine(file, e, FALSE)
<1>1. CASE PutFlushed(k, v)
  <2>1. phase = "up" /\ mem[k] = None /\ phase' = "up"
    BY <1>1 DEF PutFlushed, Accept
  <2>2. file' = AppendLine(file, [key |-> k, status |-> v], TRUE)
    BY <1>1 DEF PutFlushed
  <2>3. ~KillInPut(k, v)
    BY <2>1 DEF KillInPut, Gone
  <2> QED
    BY <2>1, <2>2, <2>3
<1>2. CASE PutShort(k, v) /\ file' # file
  <2>1. phase = "up" /\ mem[k] = None /\ phase' = "up" /\ stream' = "broken"
    BY <1>2 DEF PutShort, Accept
  <2>2. \E e \in {Junk, [key |-> k, status |-> v]} : file' = AppendLine(file, e, FALSE)
    BY <1>2 DEF PutShort, Torn
  <2>3. ~KillInPut(k, v) /\ ~PutFlushed(k, v)
    BY <2>1 DEF KillInPut, PutFlushed, Gone
  <2> QED
    BY <2>1, <2>2, <2>3
<1>3. CASE KillInPut(k, v)
  <2>1. phase = "up" /\ mem[k] = None /\ phase' = "down"
    BY <1>3 DEF KillInPut, Gone
  <2>2. \E e \in {Junk, [key |-> k, status |-> v]} : file' = AppendLine(file, e, FALSE)
    BY <1>3 DEF KillInPut, Torn
  <2>3. ~PutFlushed(k, v)
    BY <2>1 DEF PutFlushed
  <2> QED
    BY <2>1, <2>2, <2>3
<1> QED
  BY <1>1, <1>2, <1>3

LEMMA PutFile ==
    ASSUME TypeInv, FileIsLean, DiskAgreesWithMemory,
           NEW k \in Keys, NEW v \in Verdicts,
           PutFlushed(k, v) \/ PutShort(k, v) \/ KillInPut(k, v)
    PROVE  /\ file' \in Seq(Lines)
           /\ FileIsLean'
           /\ Gains(file, file', k, v)
           /\ Keeps(file, file')
<1>1. CASE file' = file
  BY <1>1 DEF TypeInv, FileIsLean, Gains, Keeps
<1>2. CASE file' # file
  <2>1. PICK e \in {Junk, [key |-> k, status |-> v]}, nl \in BOOLEAN :
           file' = AppendLine(file, e, nl)
    BY <1>2, PutWrites
  <2>2. phase = "up" /\ mem[k] = None
    BY <1>2, PutWrites
  <2> QED
    BY <2>1, <2>2, WrittenFile
<1> QED
  BY <1>1, <1>2

LEMMA TypeNext == Inv /\ [Next]_vars => TypeInv'
<1> SUFFICES ASSUME Inv, [Next]_vars PROVE TypeInv'
  OBVIOUS
<1> USE DEF TypeInv, disk, counts
<1>0. TypeInv /\ FileIsLean /\ DiskAgreesWithMemory /\ TmpIsWhole
  BY DEF Inv
<1>1. CASE Start
  <2>1. mem' \in [Keys -> Verdicts \cup {None}]
    BY <1>0, <1>1, LoadedIsMemory DEF Start, FileIsLean
  <2> QED
    BY <1>0, <1>1, <2>1 DEF Start
<1>2. ASSUME NEW k \in Keys, NEW v \in Verdicts, Accept(k, v)
      PROVE  mem' \in [Keys -> Verdicts \cup {None}] /\ added' \in Nat
  BY <1>0, <1>2 DEF Accept
<1>3. ASSUME NEW k \in Keys, NEW v \in Verdicts, PutFlushed(k, v) PROVE TypeInv'
  <2>1. file' \in Seq(Lines) /\ Accept(k, v)
    BY <1>0, <1>3, PutFile DEF PutFlushed
  <2> QED
    BY <1>0, <1>2, <1>3, <2>1 DEF PutFlushed
<1>4. ASSUME NEW k \in Keys, NEW v \in Verdicts, PutShort(k, v) PROVE TypeInv'
  <2>1. file' \in Seq(Lines) /\ Accept(k, v)
    BY <1>0, <1>4, PutFile DEF PutShort
  <2> QED
    BY <1>0, <1>2, <1>4, <2>1 DEF PutShort
<1>5. ASSUME NEW k \in Keys, NEW v \in Verdicts, PutUnstreamed(k, v) PROVE TypeInv'
  BY <1>0, <1>2, <1>5 DEF PutUnstreamed
<1>6. ASSUME NEW k \in Keys, NEW v \in Verdicts, KillInPut(k, v) PROVE TypeInv'
  <2>1. file' \in Seq(Lines)
    BY <1>0, <1>6, PutFile
  <2> QED
    BY <1>0, <1>6, <2>1 DEF KillInPut, Gone
<1>7. CASE Kill \/ SaveFails \/ SaveWriteFails
  BY <1>0, <1>7 DEF Kill, SaveFails, SaveWriteFails, Gone
<1>8. CASE SaveNothing \/ SaveCreates
  <2>1. /\ phase' \in {"compacting", "saved"} /\ stream' = "none"
        /\ UNCHANGED <<mem, added, file, done, tears, fulls>>
    BY <1>8 DEF SaveNothing, SaveCreates
  <2>2. tmp' = tmp \/ tmp' = <<>>
    BY <1>8 DEF SaveNothing, SaveCreates
  <2>3. <<>> \in Seq(Lines) /\ tmp \in Seq(Lines)
    BY <1>0
  <2>4. tmp' \in Seq(Lines)
    BY <2>2, <2>3, Zenon
  <2> QED
    BY <1>0, <2>1, <2>4
<1>9. CASE SaveWrites
  BY <1>0, <1>9, CompactedIsWhole DEF SaveWrites
<1>10. CASE SaveRenames
  BY <1>0, <1>10 DEF SaveRenames
<1>11. CASE Over \/ UNCHANGED vars
  BY <1>0, <1>11 DEF Over, vars
<1> QED
  BY <1>1, <1>3, <1>4, <1>5, <1>6, <1>7, <1>8, <1>9, <1>10, <1>11 DEF Next

LEMMA DiskNext ==
    Inv /\ [Next]_vars => FileIsLean' /\ DiskAgreesWithMemory' /\ AddedCounts'
<1> SUFFICES ASSUME Inv, [Next]_vars
             PROVE  FileIsLean' /\ DiskAgreesWithMemory' /\ AddedCounts'
  OBVIOUS
<1> USE DEF disk, counts
<1>0. TypeInv /\ FileIsLean /\ DiskAgreesWithMemory /\ AddedCounts /\ TmpIsWhole
  BY DEF Inv
<1>1. CASE Start
  BY <1>0, <1>1 DEF Start, FileIsLean, DiskAgreesWithMemory, AddedCounts
<1>2. ASSUME NEW k \in Keys, NEW v \in Verdicts, Accept(k, v)
      PROVE  /\ phase = "up" /\ mem[k] = None /\ added' # 0
             /\ mem'[k] = v /\ \A i \in Keys \ {k} : mem'[i] = mem[i]
  BY <1>0, <1>2 DEF Accept, TypeInv
<1>3. ASSUME NEW k \in Keys, NEW v \in Verdicts, PutFlushed(k, v) \/ PutShort(k, v)
      PROVE  FileIsLean' /\ DiskAgreesWithMemory' /\ AddedCounts'
  <2>1. Accept(k, v)
    BY <1>3 DEF PutFlushed, PutShort
  <2>2. /\ FileIsLean'
        /\ \A i \in Keys : Loaded(file')[i] \in {None, Loaded(file)[i]} \cup
                                                (IF i = k THEN {v} ELSE {})
    BY <1>0, <1>3, PutFile DEF Gains
  <2>3. Loaded(file)[k] = None
    BY <1>0, <1>2, <2>1, NewKey
  <2>4. \A i \in Keys : Loaded(file)[i] \in {None, mem[i]}
    BY <1>0, <1>2, <2>1 DEF DiskAgreesWithMemory
  <2>5. \A i \in Keys : Loaded(file')[i] \in {None, mem'[i]}
    BY <1>2, <2>1, <2>2, <2>3, <2>4
  <2> QED
    BY <1>2, <2>1, <2>2, <2>5 DEF DiskAgreesWithMemory, AddedCounts
<1>4. ASSUME NEW k \in Keys, NEW v \in Verdicts, PutUnstreamed(k, v)
      PROVE  FileIsLean' /\ DiskAgreesWithMemory' /\ AddedCounts'
  <2>1. Accept(k, v) /\ UNCHANGED <<phase, file>>
    BY <1>4 DEF PutUnstreamed
  <2>2. \A i \in Keys : Loaded(file)[i] \in {None, mem[i]}
    BY <1>0, <1>2, <2>1 DEF DiskAgreesWithMemory
  <2> QED
    BY <1>0, <1>2, <2>1, <2>2 DEF FileIsLean, DiskAgreesWithMemory, AddedCounts
<1>5. ASSUME NEW k \in Keys, NEW v \in Verdicts, KillInPut(k, v)
      PROVE  FileIsLean' /\ DiskAgreesWithMemory' /\ AddedCounts'
  <2>1. FileIsLean' /\ phase' = "down"
    BY <1>0, <1>5, PutFile DEF KillInPut, Gone
  <2> QED
    BY <2>1 DEF DiskAgreesWithMemory, AddedCounts
<1>6. CASE Kill \/ SaveFails \/ SaveWriteFails
  <2>1. phase' = "down" /\ file' = file
    BY <1>6 DEF Kill, SaveFails, SaveWriteFails, Gone
  <2> QED
    BY <1>0, <2>1 DEF FileIsLean, DiskAgreesWithMemory, AddedCounts
<1>7. CASE SaveNothing \/ SaveCreates \/ SaveWrites
  <2>1. phase # "down" /\ phase' # "up" /\ UNCHANGED <<file, mem>>
    BY <1>7 DEF SaveNothing, SaveCreates, SaveWrites
  <2> QED
    BY <1>0, <2>1 DEF FileIsLean, DiskAgreesWithMemory, AddedCounts
<1>8. CASE SaveRenames
  <2>1. phase = "written" /\ phase' = "saved" /\ file' = tmp /\ mem' = mem
    BY <1>8 DEF SaveRenames
  <2> QED
    BY <1>0, <2>1 DEF TmpIsWhole, FileIsLean, DiskAgreesWithMemory, AddedCounts
<1>9. CASE Over \/ UNCHANGED vars
  BY <1>0, <1>9 DEF Over, vars, FileIsLean, DiskAgreesWithMemory, AddedCounts
<1> QED
  BY <1>1, <1>3, <1>4, <1>5, <1>6, <1>7, <1>8, <1>9 DEF Next

LEMMA SaveNext ==
    Inv /\ [Next]_vars => TmpIsWhole' /\ SavedIsComplete' /\ BrokenByFull'
<1> SUFFICES ASSUME Inv, [Next]_vars
             PROVE  TmpIsWhole' /\ SavedIsComplete' /\ BrokenByFull'
  OBVIOUS
<1> USE DEF disk, counts
<1>0. TypeInv /\ AddedCounts /\ TmpIsWhole /\ SavedIsComplete /\ BrokenByFull
  BY DEF Inv
<1>1. CASE phase' \in {"down", "up", "compacting"} /\ BrokenByFull'
  BY <1>1 DEF TmpIsWhole, SavedIsComplete
<1>2. CASE Start
  BY <1>1, <1>2 DEF Start, BrokenByFull
<1>3. ASSUME NEW k \in Keys, NEW v \in Verdicts,
             PutFlushed(k, v) \/ PutUnstreamed(k, v)
      PROVE  TmpIsWhole' /\ SavedIsComplete' /\ BrokenByFull'
  BY <1>0, <1>1, <1>3 DEF PutFlushed, PutUnstreamed, Accept, BrokenByFull
<1>4. ASSUME NEW k \in Keys, NEW v \in Verdicts, PutShort(k, v)
      PROVE  TmpIsWhole' /\ SavedIsComplete' /\ BrokenByFull'
  BY <1>0, <1>1, <1>4 DEF PutShort, Accept, BrokenByFull, TypeInv
<1>5. CASE Gone
  BY <1>1, <1>5 DEF Gone, BrokenByFull
<1>6. CASE SaveNothing
  BY <1>0, <1>6 DEF SaveNothing, AddedCounts, TmpIsWhole, SavedIsComplete, BrokenByFull
<1>7. CASE SaveCreates
  BY <1>1, <1>7 DEF SaveCreates, BrokenByFull
<1>8. CASE SaveWrites
  <2>1. /\ OneLinePerKey(tmp') /\ Loaded(tmp') = mem
        /\ \A n \in DOMAIN tmp' : tmp'[n].nl
    BY <1>0, <1>8, CompactedIsWhole DEF SaveWrites
  <2> QED
    BY <1>0, <1>8, <2>1 DEF SaveWrites, TmpIsWhole, SavedIsComplete, BrokenByFull
<1>9. CASE SaveRenames
  BY <1>0, <1>9 DEF SaveRenames, TmpIsWhole, SavedIsComplete, BrokenByFull
<1>10. CASE Over \/ UNCHANGED vars
  BY <1>0, <1>10 DEF Over, vars, TmpIsWhole, SavedIsComplete, BrokenByFull
<1>11. CASE Kill \/ SaveFails \/ SaveWriteFails
             \/ \E k \in Keys, v \in Verdicts : KillInPut(k, v)
  BY <1>5, <1>11 DEF Kill, SaveFails, SaveWriteFails, KillInPut
<1> QED
  BY <1>2, <1>3, <1>4, <1>6, <1>7, <1>8, <1>9, <1>10, <1>11 DEF Next

(***************************************************************************)
(* What kills can cost.                                                    *)
(***************************************************************************)
LEMMA FinitePart ==
    ASSUME NEW S \in SUBSET Keys
    PROVE  IsFiniteSet(S) /\ Cardinality(S) \in Nat
BY FS_Subset, FS_CardinalityType, ResultsCacheAssumption

LEMMA ExposedType == TypeInv => Exposed \in SUBSET Keys
BY DEF TypeInv, Exposed, Lost

\* Only a write can expose a key, and only the one it is for.
LEMMA WriteExposes ==
    ASSUME Inv, NEW k \in Keys, NEW v \in Verdicts,
           PutFlushed(k, v) \/ KillInPut(k, v)
    PROVE  /\ Exposed' \subseteq Exposed \cup {k}
           /\ PutFlushed(k, v) => ~Open(file')
           /\ PutFlushed(k, v) /\ ~Open(file) => Exposed' \subseteq Exposed
           /\ KillInPut(k, v) => Exposed' \subseteq Exposed
<1>0. TypeInv /\ FileIsLean /\ DiskAgreesWithMemory
  BY DEF Inv
<1>1. phase = "up" /\ mem[k] = None
  BY <1>0, PutWrites
<1>2. Loaded(file)[k] = None
  BY <1>0, <1>1, NewKey
<1>3. /\ \A i \in Keys : Loaded(file)[i] # None /\ ~Loose(file, i)
                            => Loaded(file')[i] = Loaded(file)[i]
  BY <1>0, PutFile DEF Keeps
<1>4. CASE PutFlushed(k, v)
  <2>1. file' = AppendLine(file, [key |-> k, status |-> v], TRUE)
    BY <1>4 DEF PutFlushed
  <2>2. [key |-> k, status |-> v] \in Entries
    BY DEF Entries
  <2>3. [key |-> k, status |-> v] # Junk
    BY <2>2, ResultsCacheAssumption
  <2>4. ~Open(file') /\ (~Open(file) => Loaded(file')[k] = v)
    BY <1>0, <1>1, <2>1, <2>3, WrittenFile
  <2>5. v # None
    BY ResultsCacheAssumption
  <2>6. done' = done \cup {k} /\ ~KillInPut(k, v)
    BY <1>4 DEF PutFlushed, KillInPut, Gone
  <2>7. ASSUME NEW i \in Exposed', i # k PROVE i \in Exposed
    <3>1. i \in done /\ i \in Keys /\ Loaded(file')[i] = None
      BY <1>0, <2>4, <2>6, <2>7 DEF Exposed, Lost, Loose, TypeInv
    <3> QED
      BY <1>3, <3>1 DEF Exposed, Lost
  <2>8. ~Open(file) => k \notin Exposed'
    BY <2>4, <2>5 DEF Exposed, Lost, Loose
  <2> QED
    BY <2>4, <2>6, <2>7, <2>8
<1>5. CASE KillInPut(k, v)
  <2>1. PICK e \in {Junk, [key |-> k, status |-> v]} : file' = AppendLine(file, e, FALSE)
    BY <1>0, <1>5, PutWrites
  <2>2. \A i \in Keys : Loose(file', i) => i = k
    BY <1>0, <1>1, <2>1, WrittenFile
  <2>3. done' = done /\ ~PutFlushed(k, v)
    BY <1>1, <1>5 DEF PutFlushed, KillInPut, Gone
  <2>4. ASSUME NEW i \in Exposed' PROVE i \in Exposed
    <3>1. i \in done /\ i \in Keys
      BY <1>0, <2>3 DEF Exposed, Lost, TypeInv
    <3>2. CASE Loose(file', i)
      BY <1>2, <2>2, <3>1, <3>2 DEF Exposed, Lost
    <3>3. CASE Loaded(file')[i] = None
      BY <1>3, <3>1, <3>3 DEF Exposed, Lost
    <3> QED
      BY <3>2, <3>3 DEF Exposed, Lost
  <2> QED
    BY <2>3, <2>4
<1> QED
  BY <1>4, <1>5

LEMMA TearsNext == Inv /\ [Next]_vars => TearsPay'
<1> SUFFICES ASSUME Inv, [Next]_vars, fulls' = 0
             PROVE  Cardinality(Exposed') + (IF Open(file') THEN 1 ELSE 0) <= tears'
  BY DEF TearsPay
<1> USE DEF disk, counts
<1>0. /\ TypeInv /\ TearsPay /\ BrokenByFull /\ TmpIsWhole /\ DiskAgreesWithMemory
      /\ TypeInv'
  BY TypeNext DEF Inv
<1>1. /\ IsFiniteSet(Exposed) /\ Cardinality(Exposed) \in Nat
      /\ IsFiniteSet(Exposed') /\ Cardinality(Exposed') \in Nat
      /\ tears \in Nat /\ tears' \in Nat
  <2>1. Exposed \in SUBSET Keys /\ Exposed' \in SUBSET Keys
    BY <1>0 DEF TypeInv, Exposed, Lost
  <2> QED
    BY <1>0, <2>1, FinitePart DEF TypeInv
<1>2. ASSUME NEW S, S \subseteq Exposed
      PROVE  Cardinality(S) <= Cardinality(Exposed)
  BY <1>1, <1>2, FS_Subset
<1>3. ASSUME NEW k \in Keys, NEW v \in Verdicts, PutFlushed(k, v)
      PROVE  Cardinality(Exposed') + (IF Open(file') THEN 1 ELSE 0) <= tears'
  <2>1. fulls = 0 /\ tears' = tears
    BY <1>3 DEF PutFlushed
  <2>2. ~Open(file')
    BY <1>3, WriteExposes
  <2>3. CASE Open(file)
    <3>1. Cardinality(Exposed) + 1 <= tears
      BY <1>0, <2>1, <2>3 DEF TearsPay
    <3>2. /\ IsFiniteSet(Exposed \cup {k})
          /\ Cardinality(Exposed \cup {k})
                = IF k \in Exposed THEN Cardinality(Exposed) ELSE Cardinality(Exposed) + 1
      BY <1>1, FS_AddElement
    <3>3. Exposed' \in SUBSET (Exposed \cup {k})
      BY <1>3, WriteExposes
    <3>4. Cardinality(Exposed') <= Cardinality(Exposed \cup {k})
      BY <3>2, <3>3, FS_Subset
    <3> QED
      BY <1>1, <2>1, <2>2, <3>1, <3>2, <3>4
  <2>4. CASE ~Open(file)
    <3>1. Cardinality(Exposed) <= tears
      BY <1>0, <1>1, <2>1, <2>4 DEF TearsPay
    <3>2. Cardinality(Exposed') <= Cardinality(Exposed)
      BY <1>2, <1>3, <2>4, WriteExposes
    <3> QED
      BY <1>1, <2>1, <2>2, <3>1, <3>2
  <2> QED
    BY <2>3, <2>4
<1>4. ASSUME NEW k \in Keys, NEW v \in Verdicts, KillInPut(k, v)
      PROVE  Cardinality(Exposed') + (IF Open(file') THEN 1 ELSE 0) <= tears'
  <2>1. fulls = 0 /\ tears' = tears + 1
    BY <1>4 DEF KillInPut
  <2>2. Cardinality(Exposed) <= tears
    BY <1>0, <1>1, <2>1 DEF TearsPay
  <2>3. Cardinality(Exposed') <= Cardinality(Exposed)
    BY <1>2, <1>4, WriteExposes
  <2> QED
    BY <1>1, <2>1, <2>2, <2>3
<1>5. ASSUME NEW k \in Keys, NEW v \in Verdicts
      PROVE  ~PutShort(k, v) /\ ~PutUnstreamed(k, v)
  BY <1>0 DEF PutShort, PutUnstreamed, BrokenByFull, TypeInv
<1>6. CASE SaveRenames
  <2>1. /\ phase = "written" /\ file' = tmp
        /\ UNCHANGED <<done, fulls, tears>>
    BY <1>6 DEF SaveRenames
  <2>2. Loaded(file') = mem /\ \A n \in DOMAIN file' : file'[n].nl
    BY <1>0, <2>1 DEF TmpIsWhole
  <2>3. ~Open(file')
    BY <1>0, <2>2 DEF Open, Last, TypeInv
  <2>4. Exposed' \subseteq Exposed
    BY <1>0, <2>1, <2>2, <2>3 DEF Exposed, Lost, Loose, DiskAgreesWithMemory, TypeInv
  <2>5. Cardinality(Exposed') <= Cardinality(Exposed)
    BY <1>2, <2>4
  <2>6. Cardinality(Exposed) <= tears
    BY <1>0, <1>1, <2>1 DEF TearsPay
  <2> QED
    BY <1>1, <2>1, <2>3, <2>5, <2>6
<1>7. CASE UNCHANGED <<file, done, tears>> /\ fulls = 0
  BY <1>0, <1>7 DEF TearsPay, Exposed, Lost
<1>8. CASE Start \/ Kill \/ SaveFails \/ SaveNothing \/ SaveCreates \/ SaveWrites
  BY <1>7, <1>8 DEF Start, Kill, SaveFails, SaveNothing, SaveCreates, SaveWrites
<1>9. CASE SaveWriteFails
  BY <1>0, <1>9 DEF SaveWriteFails, TypeInv
<1>10. CASE Over \/ UNCHANGED vars
  BY <1>7, <1>10 DEF Over, vars
<1> QED
  BY <1>3, <1>4, <1>5, <1>6, <1>8, <1>9, <1>10 DEF Next

LEMMA InvNext == Inv /\ [Next]_vars => Inv'
BY TypeNext, DiskNext, SaveNext, TearsNext DEF Inv

(***************************************************************************)
(* The theorems.                                                           *)
(***************************************************************************)

\* Every reachable state of the process and its files satisfies Inv.
THEOREM Invariance == Spec => []Inv
<1>1. Init => Inv
  BY InvInit
<1>2. Inv /\ [Next]_vars => Inv'
  BY InvNext
<1> QED
  BY <1>1, <1>2, PTL DEF Spec

\* Whoever loads the file while a run is up reads the run's own verdicts: Put
\* keeps the first entry of a key in memory and on disk alike.
THEOREM ReadersSeeTheRun == Spec => []DiskAgreesWithMemory
<1>1. Inv => DiskAgreesWithMemory
  BY DEF Inv
<1> QED
  BY <1>1, Invariance, PTL

\* A Save that succeeds leaves all the run knew, even if it skipped the
\* compaction because nothing was added.
THEOREM SaveKeepsAll == Spec => []SavedIsComplete
<1>1. Inv => SavedIsComplete
  BY DEF Inv
<1> QED
  BY <1>1, Invariance, PTL

\* As long as the disk is not full, k kills in a write lose at most k finished
\* jobs, over any number of runs.
THEOREM KillsLoseLittle == Spec => []LossBounded
<1>1. Inv => LossBounded
  <2> SUFFICES ASSUME Inv, fulls = 0 PROVE Cardinality(Lost) <= tears
    BY DEF LossBounded
  <2>1. TypeInv /\ TearsPay
    BY DEF Inv
  <2>2. IsFiniteSet(Exposed) /\ Cardinality(Exposed) \in Nat /\ tears \in Nat
    BY <2>1, ExposedType, FinitePart DEF TypeInv
  <2>3. Cardinality(Exposed) <= tears
    BY <2>1, <2>2 DEF TearsPay
  <2>4. Lost \in SUBSET Exposed
    BY DEF Exposed
  <2>5. IsFiniteSet(Lost) /\ Cardinality(Lost) <= Cardinality(Exposed)
    BY <2>2, <2>4, FS_Subset
  <2>6. Cardinality(Lost) \in Nat
    BY <2>5, FS_CardinalityType
  <2> QED
    BY <2>2, <2>3, <2>5, <2>6
<1> QED
  BY <1>1, Invariance, PTL

\* No step takes a verdict off the disk or changes it, but for an entry on an
\* open last line, which the next append may destroy.
THEOREM EntriesStay == Spec => DiskEntriesStay
<1> DEFINE Stays ==
      \A k \in Keys :
          \/ Loaded(file)[k] = None
          \/ Loaded(file')[k] = Loaded(file)[k]
          \/ Open(file) /\ Last(file).e # Junk /\ Last(file).e.key = k
<1>1. ASSUME Inv, [Next]_vars PROVE Stays \/ UNCHANGED vars
  <2> USE DEF disk, counts
  <2>0. TypeInv /\ FileIsLean /\ DiskAgreesWithMemory /\ TmpIsWhole
    BY <1>1 DEF Inv
  <2>1. ASSUME NEW k \in Keys, NEW v \in Verdicts,
               PutFlushed(k, v) \/ PutShort(k, v) \/ KillInPut(k, v)
        PROVE  Stays
    <3>1. \A i \in Keys : Loaded(file)[i] # None /\ ~Loose(file, i)
                             => Loaded(file')[i] = Loaded(file)[i]
      BY <2>0, <2>1, PutFile DEF Keeps
    <3> QED
      BY <3>1 DEF Loose, Holds, Last
  <2>2. CASE file' = file
    BY <2>2
  <2>3. CASE SaveRenames
    <3>1. \A i \in Keys : Loaded(file)[i] \in {None, mem[i]}
      BY <2>0, <2>3 DEF SaveRenames, DiskAgreesWithMemory
    <3>2. Loaded(file') = mem
      BY <2>0, <2>3 DEF SaveRenames, TmpIsWhole
    <3> QED
      BY <3>1, <3>2
  <2>4. ASSUME NEW k \in Keys, NEW v \in Verdicts, PutUnstreamed(k, v)
        PROVE  Stays
    BY <2>2, <2>4 DEF PutUnstreamed
  <2>5. CASE Start \/ Kill \/ SaveFails \/ SaveNothing \/ SaveCreates \/ SaveWrites
             \/ SaveWriteFails
    BY <2>2, <2>5 DEF Start, Kill, SaveFails, SaveNothing, SaveCreates, SaveWrites,
       SaveWriteFails
  <2> QED
    BY <1>1, <2>1, <2>3, <2>4, <2>5 DEF Next, Over
<1>2. Inv /\ [Next]_vars => [\A k \in Keys :
          \/ Loaded(file)[k] = None
          \/ Loaded(file)'[k] = Loaded(file)[k]
          \/ Open(file) /\ Last(file).e # Junk /\ Last(file).e.key = k]_vars
  BY <1>1
<1> QED
  BY <1>2, Invariance, PTL DEF Spec, DiskEntriesStay
=============================================================================
