--------------------------- MODULE JanitorProofs ---------------------------
(***************************************************************************)
(* Proofs about the two janitors for any number of jobs and dependencies.  *)
(***************************************************************************)
EXTENDS Janitor, FiniteSetTheorems, TLAPS

\* The smaller of two times.
LEMMA MinOfTwo ==
    ASSUME NEW a \in Nat, NEW b \in Nat
    PROVE  /\ Min({a, b}) \in {a, b}
           /\ Min({a, b}) <= a /\ Min({a, b}) <= b
<1>1. \E x \in {a, b} : \A y \in {a, b} : x =< y
  OBVIOUS
<1> QED
  BY <1>1 DEF Min

(***************************************************************************)
(* Types.                                                                  *)
(***************************************************************************)
LEMMA TypeInit == Init => TypeOK
<1> SUFFICES ASSUME Init PROVE TypeOK
  OBVIOUS
<1>1. 0 \in 0..clock
  BY DEF Init
<1>2. mtime \in [Entries -> 0..clock \cup {None}]
  BY <1>1 DEF Init
<1> QED
  BY <1>1, <1>2 DEF Init, TypeOK, Unlisted

LEMMA TypeNext == TypeOK /\ [Next]_vars => TypeOK'
<1> SUFFICES ASSUME TypeOK, [Next]_vars PROVE TypeOK'
  OBVIOUS
<1> USE JanitorAssumption DEF TypeOK, Entries, jobVars, janVars
<1>0. ASSUME NEW t \in Nat, clock <= t
      PROVE  0..clock \cup {None} \subseteq 0..t \cup {None}
  BY <1>0
<1>1. ASSUME NEW j \in Jobs, Stamp(j) PROVE TypeOK'
  BY <1>0, <1>1 DEF Stamp
<1>2. ASSUME NEW j \in Jobs, Store(j) PROVE TypeOK'
  BY <1>2 DEF Store
<1>3. ASSUME NEW j \in Jobs, Answered(j) PROVE TypeOK'
  BY <1>3 DEF Answered
<1>4. ASSUME NEW j \in Jobs, TimedOut(j) PROVE TypeOK'
  BY <1>4 DEF TimedOut
<1>5. ASSUME NEW j \in Jobs, StartBuild(j) PROVE TypeOK'
  <2>1. mtime' \in [Entries -> 0..clock \cup {None}]
    BY <1>5 DEF StartBuild, Warmed
  <2> QED
    BY <1>5, <2>1 DEF StartBuild
<1>6. ASSUME NEW j \in Jobs, WriteEntry(j) PROVE TypeOK'
  BY <1>0, <1>6 DEF WriteEntry
<1>7. ASSUME NEW j \in Jobs, FinishBuild(j) PROVE TypeOK'
  BY <1>7 DEF FinishBuild
<1>8. CASE BeginSweep
  <2>1. clock' \in Nat /\ clock <= clock' /\ cutoff' \in 0..clock'
    BY <1>8 DEF BeginSweep
  <2>2. 0..clock \cup {None} \subseteq 0..clock' \cup {None}
    BY <1>0, <2>1
  <2> QED
    BY <1>8, <2>1, <2>2 DEF BeginSweep
<1>9. ASSUME NEW j \in Jobs, RangeOne(j) PROVE TypeOK'
  <2>1. cutoff' \in 0..clock
    BY <1>9, MinOfTwo DEF RangeOne
  <2> QED
    BY <1>9, <2>1 DEF RangeOne
<1>10. CASE BeginWalk \/ EndSweep
  BY <1>10 DEF BeginWalk, EndSweep
<1>11. ASSUME NEW e \in Entries, WalkOne(e) PROVE TypeOK'
  BY <1>11 DEF WalkOne
<1>12. CASE BeginTrim \/ EndList \/ Quit
  BY <1>12 DEF BeginTrim, EndList, Quit
<1>13. CASE EndTrim
  BY <1>13 DEF EndTrim, Unlisted
<1>14. ASSUME NEW e \in Entries, ListOne(e) \/ TrimOne(e) PROVE TypeOK'
  BY <1>14 DEF ListOne, TrimOne
<1>15. CASE CloseStop \/ ExitProcess \/ Over \/ UNCHANGED vars
  BY <1>15 DEF CloseStop, ExitProcess, Over, vars
<1> QED
  BY <1>1, <1>2, <1>3, <1>4, <1>5, <1>6, <1>7, <1>8, <1>9, <1>10, <1>11, <1>12,
     <1>13, <1>14, <1>15 DEF Next, JobStep, BuildStep, JanitorStep

\* Stamps and times are never ahead of the clock.
THEOREM TypeCorrect == Spec => []TypeOK
BY TypeInit, TypeNext, PTL DEF Spec

(***************************************************************************)
(* The inductive invariant.                                                *)
(***************************************************************************)

\* A job, its place in the inflight map, its build and its cache entry.
JobsAndBuilds ==
    \A j \in Jobs :
        /\ stage[j] = "stamped" => stamp[j] # None
        /\ stage[j] = "sent" <=> inflight[j] # None
        /\ stage[j] \in {"waiting", "stamped"} => build[j] = "none"
        /\ build[j] = "running" => stage[j] = "sent"
        /\ build[j] = "none" => j \notin wrote
        /\ j \notin wrote => mtime[j] = None

\* What a build in flight wrote is not older than its job's start.
EntriesFollowStarts ==
    \A j \in Jobs :
        build[j] = "running" /\ mtime[j] # None => inflight[j] <= mtime[j]

\* The sweep under way has met the job in the map, or would have.
Passed(j) == jan = "walk" \/ (jan = "range" /\ j \notin left)

\* Once it has, the cutoff spares what the job's build wrote: either the cutoff
\* was lowered to the job's start, or the job was stored after the Range went by
\* and its build, which began later still, wrote after the sweep read the clock.
CutoffSpares ==
    \A j \in Jobs :
        Passed(j) /\ build[j] = "running" /\ mtime[j] # None => cutoff <= mtime[j]

\* An entry that no build left behind by its worker wrote.
Residue(j) == mtime[j] # None /\ build[j] \notin {"orphan", "stray"}

\* When stop is closed no job is in flight, so the last sweep's cutoff stays
\* above every entry; its walk leaves none behind, and none comes after it.
LastSweep ==
    /\ last => stop
    /\ stop => \A j \in Jobs : stage[j] \in {"waiting", "ended"}
    /\ last /\ jan \in {"range", "walk"} =>
          \A j \in Jobs : Residue(j) =>
              mtime[j] < cutoff /\ (jan = "walk" => j \in left)
    /\ mode = "pinned" /\ jan = "gone" =>
          last /\ \A j \in Jobs : ~Residue(j)

SweepInv == JobsAndBuilds /\ EntriesFollowStarts /\ CutoffSpares /\ LastSweep

Inv == TypeOK /\ SweepInv

LEMMA InvInit == Init => Inv
<1> SUFFICES ASSUME Init PROVE Inv
  OBVIOUS
<1>1. TypeOK
  BY TypeInit
<1>2. SweepInv
  BY JanitorAssumption
     DEF Init, SweepInv, JobsAndBuilds, EntriesFollowStarts, CutoffSpares, Passed,
         LastSweep, Entries
<1> QED
  BY <1>1, <1>2 DEF Inv

LEMMA InvNext == Inv /\ [Next]_vars => Inv'
<1> SUFFICES ASSUME Inv, [Next]_vars PROVE Inv'
  OBVIOUS
<1>0. TypeOK /\ TypeOK'
  BY TypeNext DEF Inv
<1> SUFFICES SweepInv'
  BY <1>0 DEF Inv
<1> USE JanitorAssumption DEF Inv, TypeOK, SweepInv, Entries, jobVars, janVars
<1>1. ASSUME NEW j \in Jobs, Stamp(j) PROVE SweepInv'
  BY <1>0, <1>1 DEF Stamp, JobsAndBuilds, EntriesFollowStarts, CutoffSpares,
     Passed, LastSweep, Residue
<1>2. ASSUME NEW j \in Jobs, Store(j) PROVE SweepInv'
  BY <1>0, <1>2 DEF Store, JobsAndBuilds, EntriesFollowStarts, CutoffSpares,
     Passed, LastSweep, Residue
<1>3. ASSUME NEW j \in Jobs, Answered(j) PROVE SweepInv'
  BY <1>0, <1>3 DEF Answered, JobsAndBuilds, EntriesFollowStarts, CutoffSpares,
     Passed, LastSweep, Residue
<1>4. ASSUME NEW j \in Jobs, TimedOut(j) PROVE SweepInv'
  BY <1>0, <1>4 DEF TimedOut, JobsAndBuilds, EntriesFollowStarts, CutoffSpares,
     Passed, LastSweep, Residue
<1>5. ASSUME NEW j \in Jobs, StartBuild(j) PROVE SweepInv'
  <2>1. \A k \in Jobs : mtime'[k] = mtime[k]
    BY <1>5 DEF StartBuild, Warmed
  <2> QED
    BY <1>0, <1>5, <2>1 DEF StartBuild, JobsAndBuilds, EntriesFollowStarts,
       CutoffSpares, Passed, LastSweep, Residue
<1>6. ASSUME NEW j \in Jobs, WriteEntry(j) PROVE SweepInv'
  <2>1. JobsAndBuilds' /\ LastSweep'
    BY <1>0, <1>6 DEF WriteEntry, JobsAndBuilds, LastSweep, Residue
  <2>2. EntriesFollowStarts' /\ CutoffSpares'
    BY <1>0, <1>6 DEF WriteEntry, JobsAndBuilds, EntriesFollowStarts, CutoffSpares,
       Passed
  <2> QED
    BY <2>1, <2>2
<1>7. ASSUME NEW j \in Jobs, FinishBuild(j) PROVE SweepInv'
  BY <1>0, <1>7 DEF FinishBuild, JobsAndBuilds, EntriesFollowStarts, CutoffSpares,
     Passed, LastSweep, Residue
<1>8. CASE BeginSweep
  <2>1. JobsAndBuilds' /\ EntriesFollowStarts' /\ CutoffSpares'
    BY <1>0, <1>8 DEF BeginSweep, JobsAndBuilds, EntriesFollowStarts,
       CutoffSpares, Passed
  <2>2. ASSUME NEW k \in Jobs, mtime[k] # None PROVE mtime[k] < cutoff'
    BY <1>0, <1>8, <2>2 DEF BeginSweep, Stamped
  <2>3. LastSweep'
    <3>1. jan' = "range" /\ UNCHANGED <<stage, build, mtime, stop>>
      BY <1>8 DEF BeginSweep
    <3>2. last' => stop'
      BY <1>8 DEF BeginSweep
    <3>3. stop' => \A j \in Jobs : stage'[j] \in {"waiting", "ended"}
      BY <3>1 DEF LastSweep
    <3> QED
      BY <2>2, <3>1, <3>2, <3>3 DEF LastSweep, Residue
  <2> QED
    BY <2>1, <2>3
<1>9. ASSUME NEW j \in Jobs, RangeOne(j) PROVE SweepInv'
  <2>1. /\ cutoff' <= cutoff
        /\ inflight[j] # None => cutoff' <= inflight[j]
        /\ inflight[j] = None => cutoff' = cutoff
    BY <1>0, <1>9, MinOfTwo DEF RangeOne
  <2>2. JobsAndBuilds' /\ EntriesFollowStarts'
    BY <1>9 DEF RangeOne, JobsAndBuilds, EntriesFollowStarts
  <2>3. CutoffSpares'
    <3> SUFFICES ASSUME NEW k \in Jobs, Passed(k)', build[k] = "running",
                        mtime[k] # None
                 PROVE  cutoff' <= mtime[k]
      BY <1>9 DEF RangeOne, CutoffSpares
    <3>1. CASE k = j
      BY <1>0, <2>1, <3>1 DEF JobsAndBuilds, EntriesFollowStarts
    <3>2. CASE k # j
      BY <1>0, <1>9, <2>1, <3>2 DEF RangeOne, CutoffSpares, Passed
    <3> QED
      BY <3>1, <3>2
  <2>4. LastSweep'
    BY <1>0, <1>9, <2>1 DEF RangeOne, JobsAndBuilds, LastSweep, Residue
  <2> QED
    BY <2>2, <2>3, <2>4
<1>10. CASE BeginWalk
  BY <1>0, <1>10 DEF BeginWalk, JobsAndBuilds, EntriesFollowStarts, CutoffSpares,
     Passed, LastSweep, Residue
<1>11. CASE EndSweep
  BY <1>0, <1>11 DEF EndSweep, JobsAndBuilds, EntriesFollowStarts, CutoffSpares,
     Passed, LastSweep, Residue
<1>12. ASSUME NEW e \in Entries, WalkOne(e) PROVE SweepInv'
  BY <1>0, <1>12 DEF WalkOne, Reclaimable, JobsAndBuilds, EntriesFollowStarts,
     CutoffSpares, Passed, LastSweep, Residue
<1>13. CASE BeginTrim \/ EndList \/ EndTrim \/ Quit
  BY <1>0, <1>13 DEF BeginTrim, EndList, EndTrim, Quit, JobsAndBuilds,
     EntriesFollowStarts, CutoffSpares, Passed, LastSweep, Residue
<1>14. ASSUME NEW e \in Entries, ListOne(e) \/ TrimOne(e) PROVE SweepInv'
  BY <1>0, <1>14 DEF ListOne, TrimOne, JobsAndBuilds, EntriesFollowStarts,
     CutoffSpares, Passed, LastSweep, Residue
<1>15. CASE CloseStop
  BY <1>0, <1>15 DEF CloseStop, JobsAndBuilds, EntriesFollowStarts, CutoffSpares,
     Passed, LastSweep, Residue
<1>16. CASE ExitProcess \/ Over \/ UNCHANGED vars
  BY <1>16 DEF ExitProcess, Over, vars, JobsAndBuilds, EntriesFollowStarts,
     CutoffSpares, Passed, LastSweep, Residue
<1> QED
  BY <1>1, <1>2, <1>3, <1>4, <1>5, <1>6, <1>7, <1>8, <1>9, <1>10, <1>11, <1>12,
     <1>13, <1>14, <1>15, <1>16 DEF Next, JobStep, BuildStep, JanitorStep

LEMMA InvHolds == Spec => []Inv
BY InvInit, InvNext, PTL DEF Spec

(***************************************************************************)
(* The theorems.                                                           *)
(***************************************************************************)

\* After the sweep on stop only builds that outlived their worker have entries,
\* for any number of jobs.
THEOREM FloorIsReached == Spec => []LastSweepReachesFloor
<1>1. Inv => LastSweepReachesFloor
  BY DEF Inv, TypeOK, SweepInv, LastSweep, Residue, LastSweepReachesFloor
<1> QED
  BY <1>1, InvHolds, PTL

\* No sweep removes a dependency or an entry of a build in flight, however the
\* map and the cache change under it.
THEOREM NothingInUseIsReclaimed == Spec => ReclaimsOnlyResidue
<1> DEFINE Step == \A e \in Entries : mode = "pinned" /\ Removed(e) =>
                      e \notin Deps /\ build[e] # "running"
<1>1. Inv /\ [Next]_vars => [Step]_vars
  <2> SUFFICES ASSUME Inv, Next, NEW e \in Entries, mode = "pinned", Removed(e)
               PROVE  e \notin Deps /\ build[e] # "running"
    BY DEF Step
  <2> USE JanitorAssumption DEF Inv, TypeOK, Entries, jobVars, janVars, Removed
  <2>1. ASSUME NEW j \in Jobs PROVE ~Stamp(j) /\ ~JobStep(j) /\ ~RangeOne(j)
    BY DEF JobStep, Stamp, Store, Answered, TimedOut, RangeOne
  <2>2. ASSUME NEW j \in Jobs PROVE ~BuildStep(j)
    BY DEF BuildStep, StartBuild, WriteEntry, FinishBuild
  <2>3. /\ ~BeginSweep /\ ~BeginWalk /\ ~EndSweep
        /\ ~BeginTrim /\ ~EndList /\ ~EndTrim /\ ~Quit
    BY DEF BeginSweep, BeginWalk, EndSweep, BeginTrim, EndList, EndTrim, Quit
  <2>4. ASSUME NEW k \in Entries PROVE ~ListOne(k) /\ ~TrimOne(k)
    BY DEF ListOne, TrimOne
  <2>5. ~CloseStop /\ ~ExitProcess /\ ~Over
    BY DEF CloseStop, ExitProcess, Over, vars
  <2>6. ASSUME NEW k \in Entries, WalkOne(k) PROVE k = e
    BY <2>6 DEF WalkOne
  <2>7. WalkOne(e)
    BY <2>1, <2>2, <2>3, <2>4, <2>5, <2>6 DEF Next, JanitorStep
  <2> QED
    BY <2>7 DEF WalkOne, Reclaimable, SweepInv, CutoffSpares, Passed
<1> QED
  BY <1>1, InvHolds, PTL DEF Spec, ReclaimsOnlyResidue

(***************************************************************************)
(* The janitor under a ceiling.                                            *)
(***************************************************************************)

\* A trim removes an entry only while the cache holds more than the target,
\* although trimGoBuildCache counts what its list says and never looks again.
TrimsOnlyAboveTarget ==
    [][\A e \in Entries : mode = "ceiling" /\ Removed(e) => Total(Present) > Target]_vars

\* What the list says is there: no one else removes entries, and what builds put
\* back or add meanwhile only makes the cache larger than the list.
ListIsPresent ==
    /\ Listed \subseteq Present
    /\ mode = "pinned" => Listed = {}

\* Fewer entries take no more room.
LEMMA TotalGrows ==
    ASSUME NEW S \in SUBSET Entries, NEW T \in SUBSET S
    PROVE  /\ Total(S) \in Nat /\ Total(T) \in Nat
           /\ Total(T) <= Total(S)
<1>1. IsFiniteSet(Entries)
  BY JanitorAssumption, FS_Union DEF Entries
<1>2. IsFiniteSet(S) /\ IsFiniteSet(T)
  BY <1>1, FS_Subset
<1>3. Cardinality(S) \in Nat /\ Cardinality(T) \in Nat /\ Cardinality(T) <= Cardinality(S)
  BY <1>2, FS_CardinalityType, FS_Subset
<1>4. ASSUME NEW a \in Nat, NEW b \in Nat, a <= b PROVE Size * a <= Size * b
  <2>1. PICK d \in Nat : b = a + d
    BY <1>4
  <2>2. Size * b = Size * a + Size * d /\ Size * d \in Nat
    BY <2>1, JanitorAssumption
  <2> QED
    BY <2>2, JanitorAssumption
<1> QED
  BY <1>3, <1>4, JanitorAssumption DEF Total

LEMMA ListInit == Init => ListIsPresent
BY JanitorAssumption DEF Init, ListIsPresent, Listed, Unlisted

LEMMA ListNext == TypeOK /\ ListIsPresent /\ [Next]_vars => ListIsPresent'
<1> SUFFICES ASSUME TypeOK, ListIsPresent, [Next]_vars PROVE ListIsPresent'
  OBVIOUS
<1> USE JanitorAssumption DEF ListIsPresent, Listed, Present, jobVars, janVars
<1>1. ASSUME NEW j \in Jobs, Stamp(j) \/ JobStep(j) \/ FinishBuild(j) \/ RangeOne(j)
      PROVE  ListIsPresent'
  BY <1>1 DEF Stamp, JobStep, Store, Answered, TimedOut, FinishBuild, RangeOne
<1>2. ASSUME NEW j \in Jobs, StartBuild(j) PROVE ListIsPresent'
  <2>1. ASSUME NEW e \in Entries, mtime[e] # None PROVE mtime'[e] # None
    BY <1>2, <2>1 DEF StartBuild, Warmed, TypeOK
  <2> QED
    BY <1>2, <2>1 DEF StartBuild
<1>3. ASSUME NEW j \in Jobs, WriteEntry(j) PROVE ListIsPresent'
  BY <1>3 DEF WriteEntry, TypeOK
<1>4. ASSUME NEW e \in Entries, WalkOne(e) PROVE ListIsPresent'
  BY <1>4 DEF WalkOne, TypeOK
<1>5. ASSUME NEW e \in Entries, ListOne(e) \/ TrimOne(e) PROVE ListIsPresent'
  BY <1>5 DEF ListOne, TrimOne, TypeOK
<1>6. CASE EndTrim
  BY <1>6 DEF EndTrim, Unlisted
<1>7. CASE BeginSweep \/ BeginWalk \/ EndSweep \/ BeginTrim \/ EndList \/ Quit
  BY <1>7 DEF BeginSweep, BeginWalk, EndSweep, BeginTrim, EndList, Quit
<1>8. CASE CloseStop \/ ExitProcess \/ Over \/ UNCHANGED vars
  BY <1>8 DEF CloseStop, ExitProcess, Over, vars
<1> QED
  BY <1>1, <1>2, <1>3, <1>4, <1>5, <1>6, <1>7, <1>8 DEF Next, BuildStep, JanitorStep

LEMMA ListHolds == Spec => [](TypeOK /\ ListIsPresent)
BY TypeInit, TypeNext, ListInit, ListNext, PTL DEF Spec

\* No trim takes the cache further down than one entry below its target, for any
\* ceiling and whatever the builds write while it lists and removes.
THEOREM TrimsStopAtTarget == Spec => TrimsOnlyAboveTarget
<1> DEFINE Step == \A e \in Entries :
                      mode = "ceiling" /\ Removed(e) => Total(Present) > Target
<1>1. TypeOK /\ ListIsPresent /\ [Next]_vars => [Step]_vars
  <2> SUFFICES ASSUME TypeOK, ListIsPresent, Next,
                      NEW e \in Entries, mode = "ceiling", Removed(e)
               PROVE  Total(Present) > Target
    BY DEF Step
  <2> USE JanitorAssumption DEF TypeOK, jobVars, janVars, Removed
  <2>1. ASSUME NEW j \in Jobs PROVE ~Stamp(j) /\ ~JobStep(j) /\ ~RangeOne(j)
    BY DEF JobStep, Stamp, Store, Answered, TimedOut, RangeOne
  <2>2. ASSUME NEW j \in Jobs PROVE ~BuildStep(j)
    BY DEF BuildStep, StartBuild, Warmed, WriteEntry, FinishBuild
  <2>3. /\ ~BeginSweep /\ ~BeginWalk /\ ~EndSweep
        /\ ~BeginTrim /\ ~EndList /\ ~EndTrim /\ ~Quit
    BY DEF BeginSweep, BeginWalk, EndSweep, BeginTrim, EndList, EndTrim, Quit
  <2>4. ASSUME NEW k \in Entries PROVE ~ListOne(k) /\ ~WalkOne(k)
    BY DEF ListOne, WalkOne
  <2>5. ~CloseStop /\ ~ExitProcess /\ ~Over
    BY DEF CloseStop, ExitProcess, Over, vars
  <2>6. PICK k \in Entries : TrimOne(k)
    BY <2>1, <2>2, <2>3, <2>4, <2>5 DEF Next, JanitorStep
  <2>7. Total(Listed) > Target
    BY <2>6 DEF TrimOne
  <2>8. Total(Listed) <= Total(Present) /\ Total(Listed) \in Nat /\ Total(Present) \in Nat
    BY TotalGrows DEF ListIsPresent, Present
  <2>9. Target \in Int
    BY DEF Target
  <2> QED
    BY <2>7, <2>8, <2>9
<1> QED
  BY <1>1, ListHolds, PTL DEF Spec, TrimsOnlyAboveTarget
=============================================================================
