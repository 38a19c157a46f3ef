-------------------------- MODULE AotWorkerProofs --------------------------
(***************************************************************************)
(* Proofs about a worker's verdicts and directories for any set of         *)
(* programs and any number of jobs, runs, kills and machine faults.        *)
(***************************************************************************)
EXTENDS AotWorker, FiniteSetTheorems, TLAPS

(***************************************************************************)
(* The inductive invariant.                                                *)
(***************************************************************************)

\* The job at hand has a program, and what the pipeline has learnt of it holds.
AtHand ==
    /\ pc \in {"idle", "staged", "lowered", "building", "built"}
    /\ pc # "idle" => prog \in Programs
    /\ pc \in {"lowered", "building", "built"} => prog.front = "lowers"
    /\ pc = "built" => prog.compiles

\* What may be said of a program when the machine has disturbed those in T: the
\* truth of any other (a late death apart), and no pass that a positive test has
\* not earned.
Sound(p, s, T) ==
    /\ p \notin T /\ ~LateDeath(p) => s = Truth(p)
    /\ p.neg = "none" /\ s = "pass" => Truth(p) = "pass"

\* The tail cache holds nothing else, and the snapshot nothing but the cache's.
TailIsSound ==
    /\ known \subseteq tail
    /\ \A e \in tail : Sound(e[1], e[2], tainted)

LastIsSound == last # None => Sound(last[1], last[2], tainted)

\* The build directories other than the job's own.
Bystanders == IF pc = "idle" THEN stubs ELSE stubs \ {dir}

\* Each of them is the leftover of a kill in this run.
StubsInv ==
    /\ IsFiniteSet(stubs)
    /\ orphaned \in Nat
    /\ Cardinality(Bystanders) <= orphaned

VerdictInv == AtHand /\ TailIsSound /\ LastIsSound

LEMMA VerdictInvInit == Init => VerdictInv
BY DEF Init, VerdictInv, AtHand, TailIsSound, LastIsSound

(***************************************************************************)
(* The statuses the code gives.                                            *)
(***************************************************************************)

LEMMA ProgramType ==
    ASSUME NEW p \in Programs
    PROVE  /\ p.front \in {"lowers", "declines", "rejects", "panics"}
           /\ p.neg \in {"none", "early", "runtime"}
           /\ p.compiles \in BOOLEAN
           /\ p.ends \in {"clean", "dies", "hangs"}
           /\ p.names \in BOOLEAN /\ p.async \in BOOLEAN
           /\ p.completes \in BOOLEAN
BY AotWorkerAssumption DEF Universe

\* A front end that emits no Go is reported as what it is.
LEMMA FrontStatusIsTruth ==
    ASSUME NEW p \in Programs, p.front # "lowers"
    PROVE  FrontStatus(p) = Truth(p)
BY ProgramType DEF FrontStatus, Truth

\* The judge's status of a binary that ended as its program does, unless that
\* was a late death.
LEMMA RunStatusIsTruth ==
    ASSUME NEW p \in Programs, p.front = "lowers", p.compiles, ~LateDeath(p)
    PROVE  RunStatus(p, p.ends, p.names, p.completes) = Truth(p)
<1> USE ProgramType
<1>1. CASE p.ends = "hangs"
  BY <1>1 DEF RunStatus, Truth
<1>2. CASE p.ends # "hangs" /\ p.neg = "runtime"
  BY <1>2 DEF RunStatus, Truth, Behaves
<1>4. CASE p.ends # "hangs" /\ p.neg = "early"
  BY <1>4 DEF RunStatus, Truth, Behaves, LateDeath
<1>3. CASE p.ends # "hangs" /\ p.neg = "none"
  BY <1>3 DEF RunStatus, Truth, Behaves
<1> QED
  BY <1>1, <1>2, <1>3, <1>4

\* A binary the machine killed or starved is no pass of a positive test.
LEMMA FaultedRunIsNoPass ==
    ASSUME NEW p \in Programs, p.neg = "none", NEW end \in {"dies", "hangs"},
           NEW names, NEW completes
    PROVE  RunStatus(p, end, names, completes) # "pass"
<1>1. CASE end = "hangs"
  BY <1>1 DEF RunStatus
<1>2. CASE end = "dies"
  BY <1>2 DEF RunStatus
<1> QED
  BY <1>1, <1>2

\* A late death is no positive test, so any status of it is sound.
LEMMA LateDeathIsSound ==
    ASSUME NEW p, NEW s, NEW T, LateDeath(p)
    PROVE  Sound(p, s, T)
BY DEF Sound, LateDeath

\* A true status is sound.
LEMMA TruthIsSound ==
    ASSUME NEW p, NEW s, NEW T, s = Truth(p)
    PROVE  Sound(p, s, T)
BY DEF Sound

\* An answer that is sound once the step is taken keeps the invariant: the job
\* is over, and its status may go to the tail cache.
LEMMA FinishKeepsVerdicts ==
    ASSUME VerdictInv, NEW p \in Programs, NEW s, Finish(p, s),
           tainted \subseteq tainted', Sound(p, s, tainted')
    PROVE  VerdictInv'
<1>1. AtHand'
  BY DEF Finish, AtHand
<1>4. known' \subseteq tail'
  BY DEF Finish, Recorded, VerdictInv, TailIsSound
<1>2. ASSUME NEW e \in tail' PROVE Sound(e[1], e[2], tainted')
  <2>1. CASE e \in tail
    BY <2>1 DEF VerdictInv, TailIsSound, Sound
  <2>2. CASE e = <<p, s>>
    <3>1. e[1] = p /\ e[2] = s
      BY <2>2
    <3> QED
      BY <3>1
  <2> QED
    BY <1>2, <2>1, <2>2 DEF Finish, Recorded
<1>3. LastIsSound'
  <2>1. last' = <<p, s>> /\ last'[1] = p /\ last'[2] = s
    BY DEF Finish
  <2> QED
    BY <2>1 DEF LastIsSound
<1> QED
  BY <1>1, <1>2, <1>3, <1>4 DEF VerdictInv, TailIsSound

(***************************************************************************)
(* Every step keeps the verdicts sound.                                    *)
(***************************************************************************)
LEMMA VerdictInvNext == VerdictInv /\ [Next]_vars => VerdictInv'
<1> SUFFICES ASSUME VerdictInv, [Next]_vars PROVE VerdictInv'
  OBVIOUS
<1> USE DEF dirs, counts
<1>1. ASSUME NEW p \in Programs, Begin(p) PROVE VerdictInv'
  BY <1>1 DEF Begin, VerdictInv, AtHand, TailIsSound, LastIsSound
<1>2. ASSUME NEW p \in Programs, BeginFails(p) PROVE VerdictInv'
  <2>1. AtHand' /\ TailIsSound'
    BY <1>2 DEF BeginFails, VerdictInv, AtHand, TailIsSound, Sound
  <2>2. last' = <<p, "crash">> /\ last'[1] = p /\ last'[2] = "crash"
    BY <1>2 DEF BeginFails
  <2>3. LastIsSound'
    BY <1>2, <2>2 DEF BeginFails, LastIsSound, Sound
  <2> QED
    BY <2>1, <2>3 DEF VerdictInv
<1>3. CASE CompileStops
  <2>1. /\ prog \in Programs /\ prog.front # "lowers"
        /\ Finish(prog, FrontStatus(prog)) /\ tainted' = tainted
    BY <1>3 DEF CompileStops, VerdictInv, AtHand
  <2> QED
    BY <2>1, FrontStatusIsTruth, TruthIsSound, FinishKeepsVerdicts
<1>4. CASE Compile
  BY <1>4 DEF Compile, VerdictInv, AtHand, TailIsSound, LastIsSound
<1>5. CASE Replay
  <2>1. PICK e \in Hits(prog) : Finish(prog, e[2])
    BY <1>5 DEF Replay
  <2>2. prog \in Programs /\ tainted' = tainted /\ Sound(prog, e[2], tainted)
    BY <1>5 DEF Replay, Hits, VerdictInv, AtHand, TailIsSound
  <2> QED
    BY <2>1, <2>2, FinishKeepsVerdicts
<1>6. CASE StartBuild
  BY <1>6 DEF StartBuild, VerdictInv, AtHand, TailIsSound, LastIsSound
<1>7. CASE BuildSucceeds
  BY <1>7 DEF BuildSucceeds, VerdictInv, AtHand, TailIsSound, LastIsSound
<1>8. CASE BuildRefuses
  <2>1. /\ prog \in Programs /\ prog.front = "lowers" /\ ~prog.compiles
        /\ Finish(prog, "fail") /\ tainted' = tainted
    BY <1>8 DEF BuildRefuses, VerdictInv, AtHand
  <2>2. Truth(prog) = "fail"
    BY <2>1 DEF Truth
  <2> QED
    BY <2>1, <2>2, TruthIsSound, FinishKeepsVerdicts
<1>9. CASE BuildFaults
  <2>1. /\ prog \in Programs /\ Finish(prog, "fail")
        /\ tainted' = tainted \cup {prog}
    BY <1>9 DEF BuildFaults, Fault, VerdictInv, AtHand
  <2>2. Sound(prog, "fail", tainted')
    BY <2>1 DEF Sound
  <2> QED
    BY <2>1, <2>2, FinishKeepsVerdicts
<1>10. CASE Judge
  <2>1. /\ prog \in Programs /\ prog.front = "lowers" /\ prog.compiles
        /\ Finish(prog, RunStatus(prog, prog.ends, prog.names, prog.completes))
        /\ tainted' = tainted
    BY <1>10 DEF Judge, VerdictInv, AtHand
  <2>2. Sound(prog, RunStatus(prog, prog.ends, prog.names, prog.completes),
              tainted')
    BY <2>1, RunStatusIsTruth, TruthIsSound, LateDeathIsSound
  <2> QED
    BY <2>1, <2>2, FinishKeepsVerdicts
<1>11. CASE RunFaults
  <2>1. PICK end \in {"dies", "hangs"}, names \in {FALSE, prog.names},
             completes \in {FALSE, prog.completes} :
             Finish(prog, RunStatus(prog, end, names, completes))
    BY <1>11 DEF RunFaults
  <2>2. prog \in Programs /\ tainted' = tainted \cup {prog}
    BY <1>11 DEF RunFaults, Fault, VerdictInv, AtHand
  <2>3. Sound(prog, RunStatus(prog, end, names, completes), tainted')
    BY <2>2, FaultedRunIsNoPass DEF Sound
  <2> QED
    BY <2>1, <2>2, <2>3, FinishKeepsVerdicts
<1>12. CASE Kill \/ Recycle \/ NewRun
  BY <1>12 DEF Kill, Recycle, NewRun, VerdictInv, AtHand, TailIsSound, LastIsSound
<1>13. CASE Over \/ UNCHANGED vars
  BY <1>13 DEF Over, vars, VerdictInv, AtHand, TailIsSound, LastIsSound
<1> QED
  BY <1>1, <1>2, <1>3, <1>4, <1>5, <1>6, <1>7, <1>8, <1>9, <1>10, <1>11, <1>12,
     <1>13 DEF Next

LEMMA VerdictInvHolds == Spec => []VerdictInv
BY VerdictInvInit, VerdictInvNext, PTL DEF Spec

(***************************************************************************)
(* The build directories.                                                  *)
(***************************************************************************)

\* A finite set without one of its elements.
LEMMA WithoutOne ==
    ASSUME NEW S, IsFiniteSet(S), NEW d
    PROVE  /\ IsFiniteSet(S \ {d})
           /\ Cardinality(S) \in Nat /\ Cardinality(S \ {d}) \in Nat
           /\ Cardinality(S \ {d}) <= Cardinality(S)
           /\ Cardinality(S) <= Cardinality(S \ {d}) + 1
<1>1. /\ IsFiniteSet(S \ {d})
      /\ Cardinality(S \ {d}) = IF d \in S THEN Cardinality(S) - 1 ELSE Cardinality(S)
  BY FS_RemoveElement
<1>2. Cardinality(S) \in Nat /\ Cardinality(S \ {d}) \in Nat
  BY <1>1, FS_CardinalityType
<1> QED
  BY <1>1, <1>2

LEMMA StubsInvInit == Init => StubsInv
BY FS_EmptySet DEF Init, StubsInv, Bystanders

LEMMA StubsInvNext == AtHand /\ StubsInv /\ [Next]_vars => StubsInv'
<1> SUFFICES ASSUME AtHand, StubsInv, [Next]_vars PROVE StubsInv'
  OBVIOUS
<1> USE DEF dirs, counts
\* Leaving one directory out of account leaves no more of them.
<1>0. ASSUME NEW d
      PROVE  /\ IsFiniteSet(stubs \ {d})
             /\ Cardinality(stubs \ {d}) \in Nat
             /\ Cardinality(stubs \ {d}) <= Cardinality(stubs)
             /\ Cardinality(stubs) <= Cardinality(stubs \ {d}) + 1
             /\ Cardinality(stubs) \in Nat
  BY WithoutOne DEF StubsInv
<1>1. ASSUME NEW p \in Programs, Begin(p) PROVE StubsInv'
  <2>1. /\ Cardinality(stubs \ {jobs + 1}) \in Nat /\ Cardinality(stubs) \in Nat
        /\ Cardinality(stubs \ {jobs + 1}) <= Cardinality(stubs)
    BY <1>0
  <2>2. Bystanders' = stubs \ {jobs + 1} /\ Bystanders = stubs
    BY <1>1 DEF Begin, Bystanders
  <2> QED
    BY <1>1, <2>1, <2>2 DEF Begin, StubsInv
<1>2. ASSUME NEW p, NEW s, Finish(p, s), pc # "idle" PROVE StubsInv'
  BY <1>0, <1>2 DEF Finish, StubsInv, Bystanders
<1>3. CASE StartBuild
  <2>1. stubs' \ {dir} = stubs \ {dir} /\ IsFiniteSet(stubs')
    BY <1>3, FS_AddElement DEF StartBuild, StubsInv
  <2> QED
    BY <1>3, <2>1 DEF StartBuild, StubsInv, Bystanders
<1>4. CASE Kill
  <2>1. /\ Cardinality(stubs \ {dir}) \in Nat /\ Cardinality(stubs) \in Nat
        /\ Cardinality(stubs) <= Cardinality(stubs \ {dir}) + 1
    BY <1>0
  <2>2. /\ Bystanders = stubs \ {dir} /\ Bystanders' = stubs /\ stubs' = stubs
        /\ orphaned' = orphaned + 1
    BY <1>4 DEF Kill, Bystanders
  <2> QED
    BY <2>1, <2>2 DEF StubsInv
<1>5. CASE NewRun
  BY <1>5, FS_EmptySet DEF NewRun, StubsInv, Bystanders
<1>6. ASSUME NEW p \in Programs, BeginFails(p) PROVE StubsInv'
  BY <1>6 DEF BeginFails, StubsInv, Bystanders
<1>7. CASE Compile \/ BuildSucceeds \/ Recycle \/ Over \/ UNCHANGED vars
  BY <1>7 DEF Compile, BuildSucceeds, Recycle, Over, vars, StubsInv, Bystanders
<1>8. CASE CompileStops \/ Replay \/ BuildRefuses \/ BuildFaults \/ Judge \/ RunFaults
  <2>1. pc # "idle" /\ \E p, s : Finish(p, s)
    BY <1>8 DEF CompileStops, Replay, BuildRefuses, BuildFaults, Judge, RunFaults
  <2> QED
    BY <1>2, <2>1
<1> QED
  BY <1>1, <1>3, <1>4, <1>5, <1>6, <1>7, <1>8 DEF Next

(***************************************************************************)
(* The theorems.                                                           *)
(***************************************************************************)

\* A program the machine never disturbed gets its documented status from
\* ExecuteAOT, built or replayed, for every program but the late deaths and
\* through any kills and fresh workers.
THEOREM VerdictsAreTrue == Spec => []UndisturbedVerdictIsTrue
<1>1. VerdictInv => UndisturbedVerdictIsTrue
  BY DEF VerdictInv, LastIsSound, Sound, UndisturbedVerdictIsTrue
<1> QED
  BY <1>1, VerdictInvHolds, PTL

\* A failing machine never turns a positive test into a pass, in the tail cache
\* neither.
THEOREM FaultsNeverPass == Spec => []NoFalsePass
<1>1. VerdictInv => NoFalsePass
  BY DEF VerdictInv, LastIsSound, Sound, NoFalsePass
<1> QED
  BY <1>1, VerdictInvHolds, PTL

\* The build directories are those of this run's killed jobs and of the job at
\* hand, over any number of runs.
THEOREM StubsDoNotPileUp == Spec => []StubsBounded
<1>1. VerdictInv => AtHand
  BY DEF VerdictInv
<1>2. StubsInv => StubsBounded
  <2> SUFFICES ASSUME StubsInv PROVE StubsBounded
    OBVIOUS
  <2>1. /\ Cardinality(stubs) \in Nat /\ Cardinality(stubs \ {dir}) \in Nat
        /\ Cardinality(stubs) <= Cardinality(stubs \ {dir}) + 1
    BY WithoutOne DEF StubsInv
  <2> QED
    BY <2>1 DEF StubsInv, Bystanders, StubsBounded
<1> QED
  BY <1>1, <1>2, VerdictInvHolds, StubsInvInit, StubsInvNext, PTL DEF Spec
=============================================================================
