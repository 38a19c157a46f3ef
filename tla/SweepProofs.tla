---------------------------- MODULE SweepProofs ----------------------------
(***************************************************************************)
(* Proofs about the group sweep for any corpus, any groups, overlapping or *)
(* not, and any number of interrupts, kills and edits.                     *)
(***************************************************************************)
EXTENDS Sweep, TLAPS

Snapshots == [Jobs -> Statuses \cup {None}]

(***************************************************************************)
(* The inductive invariant.                                                *)
(***************************************************************************)
TypeInv ==
    /\ script \in {"down", "walking", "waiting"}
    /\ at \in Nat \ {0}
    /\ log \in [Groups -> SUBSET Jobs]
    /\ done \in [Groups -> (SUBSET Jobs) \cup {None}]
    /\ run \in {"none", "running", "returned", "exited"}
    /\ mode \in {"update", "check"}
    /\ planned \in SUBSET Jobs
    /\ results \in Snapshots
    /\ cache \in [Jobs -> Verdicts \cup {None}]
    /\ onto \in SUBSET Jobs
    /\ snap \in [Groups -> Snapshots \cup {None}]
    /\ standing \in [Jobs -> Int]
    /\ wrote \in [Groups -> (SUBSET Jobs) \cup {None}]

\* The script waits exactly for a run that updates; that run's group has no
\* checkpoint yet, and the corpus stands still under any run.
Control ==
    /\ script = "waiting" => run # "none" /\ mode = "update"
    /\ run # "none" =>
          /\ cur \in Groups
          /\ planned = Scope[cur] \cap present
          /\ mode = "update" => script = "waiting" /\ done[cur] = None
          /\ mode = "check" => script = "down"

\* A result of a run is in the cache, or it is a timeout, and a job without one
\* is not in the cache; only an interrupt lets RunAll return without a result.
ResultsFollowCache ==
    run # "none" =>
        /\ \A j \in Jobs :
              /\ j \notin Runnable => results[j] = None
              /\ j \in Runnable =>
                    \/ results[j] = cache[j]
                    \/ results[j] = "timeout" /\ j \in shaky /\ cache[j] = None
        /\ run # "running" /\ ~abort => \A j \in Runnable : results[j] # None

\* The verdicts that stand are those in the cache, one for each job.
CacheCounts ==
    \A j \in Jobs : standing[j] = IF cache[j] = None THEN 0 ELSE 1

\* A line behind a part of a line is of this run, which has not returned, and no
\* whole snapshot rests on it.
BehindAPart ==
    /\ onto # {} => run = "running"
    /\ \A j \in onto :
          /\ cache[j] # None
          /\ \A g \in Groups :
                wrote[g] # None => j \notin wrote[g] \ (Precooked \cup shaky)

\* A run that was not interrupted has recorded its whole group when it exits.
ExitIsWhole ==
    run = "exited" /\ mode = "update" /\ ~abort =>
        wrote[cur] = planned /\ log[cur] = planned

\* A whole snapshot covers all that is left of its group, lists the precooked
\* handbacks, and agrees with the cache.
SnapshotIsWhole ==
    \A g \in Groups : wrote[g] # None =>
        /\ snap[g] \in Snapshots
        /\ Scope[g] \cap present \subseteq wrote[g]
        /\ \A j \in wrote[g] \cap Precooked : snap[g][j] = "handback"

\* There is a report of drift only between a checking run's exit and its end.
DriftIsOfCheck == drift # None => run = "exited" /\ mode = "check"

Inv ==
    /\ TypeInv
    /\ Control
    /\ ResultsFollowCache
    /\ CacheCounts
    /\ BehindAPart
    /\ ExitIsWhole
    /\ DoneGroupsAreComplete
    /\ SnapshotIsWhole
    /\ SnapshotAgreesWithCache
    /\ DriftIsOfCheck
    /\ CheckHoldsAfterUpdate

LEMMA EmptyTypes ==
    /\ NoResults \in Snapshots
    /\ NoResults \in [Jobs -> Verdicts \cup {None}]
    /\ [g \in Groups |-> None] \in [Groups -> (SUBSET Jobs) \cup {None}]
    /\ [g \in Groups |-> None] \in [Groups -> Snapshots \cup {None}]
    /\ [g \in Groups |-> {}] \in [Groups -> SUBSET Jobs]
    /\ [j \in Jobs |-> 0] \in [Jobs -> Int]
BY DEF NoResults, Snapshots

LEMMA InvInit == Init => Inv
<1> SUFFICES ASSUME Init PROVE Inv
  OBVIOUS
<1> USE DEF Init
<1>1. TypeInv
  BY EmptyTypes DEF TypeInv
<1>2. Control /\ ResultsFollowCache /\ CacheCounts /\ BehindAPart /\ ExitIsWhole
  BY DEF Control, ResultsFollowCache, CacheCounts, BehindAPart, ExitIsWhole, NoResults
<1>3. DoneGroupsAreComplete /\ SnapshotIsWhole /\ SnapshotAgreesWithCache
  BY DEF DoneGroupsAreComplete, SnapshotIsWhole, SnapshotAgreesWithCache
<1>4. DriftIsOfCheck /\ CheckHoldsAfterUpdate
  BY DEF DriftIsOfCheck, CheckHoldsAfterUpdate
<1> QED
  BY <1>1, <1>2, <1>3, <1>4 DEF Inv

(***************************************************************************)
(* Types and control.                                                      *)
(***************************************************************************)
LEMMA MergedType ==
    ASSUME TypeInv
    PROVE  Merged \in Snapshots /\ Recorded(Merged) \in Snapshots
BY DEF TypeInv, Merged, Recorded, Snapshots, Statuses

\* The place of the script in order.txt names a group.
LEMMA OrderedGroup ==
    ASSUME TypeInv, at <= Len(Order)
    PROVE  Order[at] \in Groups
BY SweepAssumption DEF TypeInv

\* The variables of the run after it began, and after it ended.
LEMMA BeginType ==
    ASSUME TypeInv, NEW g \in Groups, NEW m \in {"update", "check"}, Begin(g, m)
    PROVE  /\ run' \in {"none", "running", "returned", "exited"}
           /\ mode' \in {"update", "check"}
           /\ planned' \in SUBSET Jobs
           /\ results' \in Snapshots
<1>1. planned' \in SUBSET Jobs
  BY SweepAssumption DEF Begin
<1>2. results' \in Snapshots
  BY DEF Begin, TypeInv, Snapshots, Statuses
<1> QED
  BY <1>1, <1>2 DEF Begin

LEMMA EndedType ==
    ASSUME Ended
    PROVE  /\ run' \in {"none", "running", "returned", "exited"}
           /\ mode' \in {"update", "check"}
           /\ planned' \in SUBSET Jobs
           /\ results' \in Snapshots
BY EmptyTypes DEF Ended

LEMMA TypeNext == TypeInv /\ Control /\ [Next]_vars => TypeInv'
<1> SUFFICES ASSUME TypeInv, Control, [Next]_vars PROVE TypeInv'
  OBVIOUS
<1> USE DEF TypeInv, scriptVars, runVars, cacheVars, worldVars, histVars
<1>1. CASE Launch \/ LaunchPart \/ LaunchReset
  <2>1. /\ script' = "walking" /\ at' = 1
        /\ UNCHANGED <<runVars, cacheVars, snap, standing, wrote>>
    BY <1>1 DEF Launch, LaunchPart, LaunchReset, Walk
  <2>2. \/ UNCHANGED <<log, done>>
        \/ log' = [g \in Groups |-> {}] /\ done' = [g \in Groups |-> None]
    BY <1>1 DEF Launch, LaunchPart, LaunchReset
  <2>3. log' \in [Groups -> SUBSET Jobs] /\ done' \in [Groups -> (SUBSET Jobs) \cup {None}]
    BY <2>2, EmptyTypes
  <2> QED
    BY <2>1, <2>3
<1>2. CASE Skip \/ EndSweep
  BY <1>2 DEF Skip, EndSweep, ScriptOver
<1>3. CASE RunGroup
  <2>1. Order[at] \in Groups /\ Begin(Order[at], "update")
    BY <1>3, OrderedGroup DEF RunGroup
  <2>2. log' \in [Groups -> SUBSET Jobs]
    BY <1>3 DEF RunGroup
  <2>3. /\ script' = "waiting"
        /\ UNCHANGED <<at, done, cacheVars, snap, standing, wrote>>
    BY <1>3 DEF RunGroup
  <2> QED
    BY <2>1, <2>2, <2>3, BeginType
<1>4. ASSUME NEW g \in Groups, Check(g) PROVE TypeInv'
  <2>1. Begin(g, "check") /\ UNCHANGED <<script, at, log, done, cacheVars, snap, standing, wrote>>
    BY <1>4 DEF Check
  <2> QED
    BY <2>1, BeginType
<1>5. ASSUME NEW j \in Jobs, NEW s \in Verdicts \cup {"timeout"}, JobEnds(j, s)
      PROVE  TypeInv'
  <2>1. results' \in Snapshots
    BY <1>5 DEF JobEnds, Snapshots, Statuses
  <2>2. /\ cache' \in [Jobs -> Verdicts \cup {None}] /\ standing' \in [Jobs -> Int]
        /\ onto' \in SUBSET Jobs
    BY <1>5 DEF JobEnds
  <2>3. UNCHANGED <<script, at, log, done, run, mode, planned, snap, wrote>>
    BY <1>5 DEF JobEnds
  <2> QED
    BY <2>1, <2>2, <2>3
<1>6. CASE Interrupt \/ Return
  BY <1>6 DEF Interrupt, Return
<1>7. ASSUME NEW r \in Snapshots, Summarize(r)
      PROVE  log' \in [Groups -> SUBSET Jobs]
  BY <1>7 DEF Summarize, Have
<1>8. CASE ExitInterrupted
  BY <1>7, <1>8 DEF ExitInterrupted
<1>9. CASE ExitUpdated
  <2>1. log' \in [Groups -> SUBSET Jobs]
    BY <1>7, <1>9, MergedType DEF ExitUpdated
  <2>2. snap' \in [Groups -> Snapshots \cup {None}]
    BY <1>9, MergedType DEF ExitUpdated
  <2>3. wrote' \in [Groups -> (SUBSET Jobs) \cup {None}]
    BY <1>9 DEF ExitUpdated
  <2>4. /\ run' = "exited"
        /\ UNCHANGED <<script, at, done, mode, planned, results, cacheVars, standing>>
    BY <1>9 DEF ExitUpdated
  <2> QED
    BY <2>1, <2>2, <2>3, <2>4
<1>10. CASE ExitChecked
  BY <1>7, <1>10, MergedType DEF ExitChecked
<1>11. CASE EndCheck
  BY <1>11, EndedType DEF EndCheck
<1>12. CASE Checkpoint
  <2>1. done' \in [Groups -> (SUBSET Jobs) \cup {None}]
    BY <1>12 DEF Checkpoint, Control
  <2>2. /\ script' = "walking" /\ at' = at + 1 /\ Ended
        /\ UNCHANGED <<log, cacheVars, snap, standing, wrote>>
    BY <1>12 DEF Checkpoint
  <2> QED
    BY <2>1, <2>2, EndedType
<1>13. CASE NoTotal \/ Killed
  <2>1. /\ script' = "down" /\ at' = 1 /\ Ended
        /\ UNCHANGED <<log, done, snap, wrote>>
    BY <1>13 DEF NoTotal, Killed, Down, ScriptOver
  <2>2. /\ cache' \in [Jobs -> Verdicts \cup {None}] /\ standing' \in [Jobs -> Int]
        /\ onto' \in SUBSET Jobs
    BY <1>13 DEF NoTotal, Killed
  <2> QED
    BY <2>1, <2>2, EndedType
<1>14. CASE KilledCheckpointing
  <2>1. done' \in [Groups -> (SUBSET Jobs) \cup {None}]
    BY <1>14 DEF KilledCheckpointing
  <2>2. /\ script' = "down" /\ at' = 1 /\ Ended
        /\ UNCHANGED <<log, cacheVars, snap, standing, wrote>>
    BY <1>14 DEF KilledCheckpointing, Down, ScriptOver
  <2> QED
    BY <2>1, <2>2, EndedType
<1>15. CASE KilledWriting
  <2>1. PICK part \in SUBSET Have(Recorded(Merged)) :
          snap' = [snap EXCEPT ![cur] =
                      [j \in Jobs |-> IF j \in part THEN Recorded(Merged)[j] ELSE None]]
    BY <1>15 DEF KilledWriting
  <2>2. [j \in Jobs |-> IF j \in part THEN Recorded(Merged)[j] ELSE None] \in Snapshots
    BY MergedType DEF Snapshots
  <2>3. snap' \in [Groups -> Snapshots \cup {None}]
    BY <2>1, <2>2
  <2>4. wrote' \in [Groups -> (SUBSET Jobs) \cup {None}]
    BY <1>15 DEF KilledWriting
  <2>5. script' = "down" /\ at' = 1 /\ Ended /\ UNCHANGED <<log, done, cacheVars, standing>>
    BY <1>15 DEF KilledWriting, Down, ScriptOver
  <2> QED
    BY <2>3, <2>4, <2>5, EndedType
<1>16. CASE Bump \/ BumpUnseen
  BY <1>16, EmptyTypes DEF Bump, BumpUnseen, NewVersion
<1>17. CASE Repin
  BY <1>17 DEF Repin
<1>18. CASE UNCHANGED vars
  BY <1>18 DEF vars
<1> QED
  BY <1>1, <1>2, <1>3, <1>4, <1>5, <1>6, <1>8, <1>9, <1>10, <1>11, <1>12, <1>13,
     <1>14, <1>15, <1>16, <1>17, <1>18 DEF Next, ScriptStep, JobStep, RunStep

\* The script walks only while no bento262 runs.
LEMMA WalkingIsAlone ==
    ASSUME TypeInv, Control, script = "walking"
    PROVE  run = "none"
BY DEF TypeInv, Control

LEMMA ControlNext == TypeInv /\ Control /\ [Next]_vars => Control'
<1> SUFFICES ASSUME TypeInv, Control, [Next]_vars PROVE Control'
  OBVIOUS
<1> USE DEF scriptVars, runVars, cacheVars, worldVars, histVars
<1>1. CASE Launch \/ LaunchPart \/ LaunchReset
  BY <1>1 DEF Control, Launch, LaunchPart, LaunchReset, Walk
<1>2. CASE Skip \/ EndSweep
  BY <1>2, WalkingIsAlone DEF Control, Skip, EndSweep, ScriptOver
<1>3. CASE RunGroup
  BY <1>3, OrderedGroup DEF Control, RunGroup, Begin
<1>4. ASSUME NEW g \in Groups, Check(g) PROVE Control'
  BY <1>4 DEF Control, Check, Begin
<1>5. ASSUME NEW j \in Jobs, NEW s \in Verdicts \cup {"timeout"}, JobEnds(j, s)
      PROVE  Control'
  BY <1>5 DEF Control, JobEnds
<1>6. CASE Interrupt \/ Return \/ ExitInterrupted \/ ExitUpdated \/ ExitChecked
  BY <1>6 DEF Control, Interrupt, Return, ExitInterrupted, ExitUpdated, ExitChecked
<1>7. CASE EndCheck
  BY <1>7 DEF Control, EndCheck, Ended
<1>8. CASE Checkpoint \/ NoTotal
  BY <1>8 DEF Control, Checkpoint, NoTotal, ScriptOver, Ended
<1>9. CASE Killed \/ KilledWriting \/ KilledCheckpointing
  BY <1>9 DEF Control, Killed, KilledWriting, KilledCheckpointing, Down, ScriptOver, Ended
<1>10. CASE Bump \/ BumpUnseen \/ Repin
  BY <1>10 DEF Control, Bump, BumpUnseen, NewVersion, Repin
<1>11. CASE UNCHANGED vars
  BY <1>11 DEF Control, vars
<1> QED
  BY <1>1, <1>2, <1>3, <1>4, <1>5, <1>6, <1>7, <1>8, <1>9, <1>10, <1>11
     DEF Next, ScriptStep, JobStep, RunStep

(***************************************************************************)
(* The results of a run and the cache.                                     *)
(***************************************************************************)

\* A job that is still to end is not in the cache.
LEMMA EndsUncached ==
    ASSUME ResultsFollowCache, NEW j \in Jobs, NEW s, JobEnds(j, s)
    PROVE  cache[j] = None
BY SweepAssumption DEF ResultsFollowCache, JobEnds, Pending, Statuses

LEMMA ResultsNext ==
    TypeInv /\ Control /\ ResultsFollowCache /\ [Next]_vars => ResultsFollowCache'
<1> SUFFICES ASSUME TypeInv, Control, ResultsFollowCache, [Next]_vars
             PROVE  ResultsFollowCache'
  OBVIOUS
<1> USE DEF scriptVars, runVars, cacheVars, worldVars, histVars, Runnable
<1>1. ASSUME NEW g, NEW m, Begin(g, m), UNCHANGED cache PROVE ResultsFollowCache'
  BY <1>1 DEF ResultsFollowCache, Begin
<1>2. CASE RunGroup \/ \E g \in Groups : Check(g)
  BY <1>1, <1>2 DEF RunGroup, Check
<1>3. ASSUME NEW j \in Jobs, NEW s \in Verdicts \cup {"timeout"}, JobEnds(j, s)
      PROVE  ResultsFollowCache'
  <2> USE <1>3 DEF JobEnds, Pending
  <2>1. /\ results'[j] = s
        /\ \A i \in Jobs \ {j} : results'[i] = results[i] /\ cache'[i] = cache[i]
    BY DEF TypeInv, Snapshots
  <2>2. IF s = "timeout" THEN j \in shaky' /\ cache'[j] = None
                         ELSE cache'[j] = s
    BY EndsUncached DEF TypeInv
  <2>3. /\ run' = "running" /\ UNCHANGED <<planned, abort>>
        /\ shaky \subseteq shaky' /\ j \in planned \ Precooked
    OBVIOUS
  <2>4. \A i \in Jobs : i \notin planned \ Precooked => results'[i] = None
    BY <2>1, <2>3 DEF ResultsFollowCache
  <2>5. \A i \in planned \ Precooked : i \in Jobs =>
           \/ results'[i] = cache'[i]
           \/ results'[i] = "timeout" /\ i \in shaky' /\ cache'[i] = None
    BY <2>1, <2>2, <2>3 DEF ResultsFollowCache
  <2> QED
    BY <2>3, <2>4, <2>5 DEF ResultsFollowCache
<1>4. CASE Interrupt \/ Return
  BY <1>4 DEF ResultsFollowCache, Interrupt, Return, Pending
<1>5. CASE ExitInterrupted \/ ExitUpdated \/ ExitChecked
  BY <1>5 DEF ResultsFollowCache, ExitInterrupted, ExitUpdated, ExitChecked
<1>6. CASE Ended
  BY <1>6 DEF ResultsFollowCache, Ended
<1>7. CASE run = "none" /\ run' = run
  BY <1>7 DEF ResultsFollowCache
<1>8. CASE UNCHANGED vars
  BY <1>8 DEF ResultsFollowCache, vars
<1>9. CASE EndCheck \/ Checkpoint \/ NoTotal \/ Killed \/ KilledWriting \/ KilledCheckpointing
  BY <1>6, <1>9 DEF EndCheck, Checkpoint, NoTotal, Killed, KilledWriting,
     KilledCheckpointing, Down
<1>10. CASE Launch \/ LaunchPart \/ LaunchReset \/ Skip \/ EndSweep \/ Bump \/ BumpUnseen \/ Repin
  BY <1>7, <1>10, WalkingIsAlone DEF Launch, LaunchPart, LaunchReset, Walk, Skip,
     EndSweep, Bump, BumpUnseen, NewVersion, Repin
<1> QED
  BY <1>2, <1>3, <1>4, <1>5, <1>8, <1>9, <1>10 DEF Next, ScriptStep, JobStep, RunStep

LEMMA CountsNext ==
    TypeInv /\ ResultsFollowCache /\ CacheCounts /\ BehindAPart /\ [Next]_vars
        => CacheCounts'
<1> SUFFICES ASSUME TypeInv, ResultsFollowCache, CacheCounts, BehindAPart, [Next]_vars
             PROVE  CacheCounts'
  OBVIOUS
<1> USE DEF cacheVars, histVars
<1>1. ASSUME NEW j \in Jobs, NEW s \in Verdicts \cup {"timeout"}, JobEnds(j, s)
      PROVE  CacheCounts'
  <2>1. CASE s = "timeout"
    BY <1>1, <2>1 DEF JobEnds, CacheCounts
  <2>2. CASE s # "timeout"
    <3>1. s # None
      BY <2>2, SweepAssumption DEF Statuses
    <3>2. /\ cache' = [cache EXCEPT ![j] = s]
          /\ standing' = [standing EXCEPT ![j] = @ + 1]
      BY <1>1, <2>2 DEF JobEnds
    <3>3. standing[j] = 0
      BY <1>1, EndsUncached DEF CacheCounts
    <3>4. standing'[j] = 1 /\ cache'[j] = s
      BY <3>2, <3>3 DEF TypeInv
    <3>5. \A i \in Jobs \ {j} : standing'[i] = standing[i] /\ cache'[i] = cache[i]
      BY <3>2 DEF TypeInv
    <3> QED
      BY <3>1, <3>4, <3>5 DEF CacheCounts
  <2> QED
    BY <2>1, <2>2
<1>2. CASE Bump \/ BumpUnseen
  BY <1>2 DEF Bump, BumpUnseen, NewVersion, CacheCounts, NoResults
<1>3. CASE UNCHANGED <<cache, standing>>
  BY <1>3 DEF CacheCounts
<1>4. CASE Launch \/ LaunchPart \/ LaunchReset \/ ScriptStep
  BY <1>3, <1>4 DEF Launch, LaunchPart, LaunchReset, Walk, ScriptStep, Skip, EndSweep,
     RunGroup, Checkpoint, NoTotal
<1>5. CASE RunStep \/ Interrupt \/ \E g \in Groups : Check(g)
  BY <1>3, <1>5 DEF RunStep, Return, ExitInterrupted, ExitUpdated, ExitChecked,
     EndCheck, Interrupt, Check
<1>6. CASE KilledWriting \/ KilledCheckpointing \/ Repin \/ UNCHANGED vars
  BY <1>3, <1>6 DEF KilledWriting, KilledCheckpointing, Repin, vars
<1>7. CASE Killed
  <2>1. \A j \in Jobs :
          /\ cache'[j] = IF j \in onto THEN None ELSE cache[j]
          /\ standing'[j] = standing[j] - IF j \in onto THEN 1 ELSE 0
    BY <1>7 DEF Killed
  <2>2. \A j \in onto : standing[j] = 1
    BY DEF CacheCounts, BehindAPart, TypeInv
  <2> QED
    BY <2>1, <2>2 DEF CacheCounts, TypeInv
<1> QED
  BY <1>1, <1>2, <1>4, <1>5, <1>6, <1>7 DEF Next, JobStep

\* A line goes behind a part of a line only for a job that was not in the cache,
\* and on which no whole snapshot of this version rests therefore.
LEMMA BehindNext ==
    TypeInv /\ Control /\ ResultsFollowCache /\ BehindAPart
            /\ SnapshotAgreesWithCache /\ [Next]_vars
        => BehindAPart'
<1> SUFFICES ASSUME TypeInv, Control, ResultsFollowCache, BehindAPart,
                    SnapshotAgreesWithCache, [Next]_vars
             PROVE  BehindAPart'
  OBVIOUS
<1> USE DEF scriptVars, runVars, cacheVars, worldVars, histVars
<1>1. ASSUME NEW j \in Jobs, NEW s \in Verdicts \cup {"timeout"}, JobEnds(j, s)
      PROVE  BehindAPart'
  <2>1. /\ run' = "running" /\ onto' \subseteq onto \cup {j} /\ UNCHANGED wrote
        /\ shaky \subseteq shaky'
    BY <1>1 DEF JobEnds, Pending
  <2>2. cache[j] = None
    BY <1>1, EndsUncached
  <2>3. \A g \in Groups : wrote[g] # None => j \notin wrote[g] \ (Precooked \cup shaky)
    BY <2>2 DEF SnapshotAgreesWithCache
  <2>4. s # None
    BY SweepAssumption DEF Statuses
  <2>5. \A i \in onto' : cache'[i] # None
    <3>1. CASE s = "timeout"
      BY <1>1, <3>1 DEF JobEnds, BehindAPart
    <3>2. CASE s # "timeout"
      BY <1>1, <2>1, <2>4, <3>2 DEF JobEnds, BehindAPart, TypeInv
    <3> QED
      BY <3>1, <3>2
  <2> QED
    BY <2>1, <2>3, <2>5 DEF BehindAPart
<1>2. CASE onto' = {}
  BY <1>2 DEF BehindAPart
<1>3. CASE Return \/ Killed \/ Bump \/ BumpUnseen
  BY <1>2, <1>3 DEF Return, Killed, Bump, BumpUnseen, NewVersion
<1>4. CASE run # "running" /\ UNCHANGED onto
  BY <1>2, <1>4 DEF BehindAPart
<1>5. CASE Launch \/ LaunchPart \/ LaunchReset \/ Skip \/ EndSweep \/ RunGroup
  BY <1>4, <1>5, WalkingIsAlone DEF Launch, LaunchPart, LaunchReset, Walk, Skip,
     EndSweep, RunGroup
<1>6. CASE ExitInterrupted \/ ExitUpdated \/ ExitChecked \/ EndCheck \/ Repin
  BY <1>4, <1>6 DEF ExitInterrupted, ExitUpdated, ExitChecked, EndCheck, Repin
<1>7. CASE Checkpoint \/ NoTotal \/ KilledWriting \/ KilledCheckpointing
  BY <1>4, <1>7 DEF Checkpoint, NoTotal, KilledWriting, KilledCheckpointing
<1>8. CASE \E g \in Groups : Check(g)
  BY <1>4, <1>8 DEF Check
<1>9. CASE Interrupt \/ UNCHANGED vars
  BY <1>9 DEF Interrupt, vars, BehindAPart
<1> QED
  BY <1>1, <1>3, <1>5, <1>6, <1>7, <1>8, <1>9 DEF Next, ScriptStep, JobStep, RunStep

(***************************************************************************)
(* Snapshots and checkpoints.                                              *)
(***************************************************************************)

\* After a run that was not interrupted, Merged has a status for every job of
\* the group and for no other.
LEMMA MergedIsWhole ==
    ASSUME TypeInv, ResultsFollowCache, run = "returned", ~abort
    PROVE  /\ Have(Merged) = planned
           /\ \A j \in planned \cap Precooked : Merged[j] = "handback"
           /\ \A j \in Runnable : Merged[j] = results[j] /\ results[j] # None
<1>1. \A j \in planned : j \in Jobs
  BY DEF TypeInv
<1>2. \A j \in planned \cap Precooked : Merged[j] = "handback"
  BY <1>1 DEF Merged
<1>3. \A j \in Runnable : Merged[j] = results[j] /\ results[j] # None
  BY <1>1 DEF Merged, Runnable, ResultsFollowCache
<1>4. \A j \in Jobs \ planned : Merged[j] = None
  BY DEF Merged, Runnable, ResultsFollowCache
<1>5. "handback" # None
  BY SweepAssumption DEF Statuses
<1> QED
  BY <1>1, <1>2, <1>3, <1>4, <1>5 DEF Have, Runnable

LEMMA ExitNext ==
    TypeInv /\ Control /\ ResultsFollowCache /\ ExitIsWhole /\ [Next]_vars
        => ExitIsWhole'
<1> SUFFICES ASSUME TypeInv, Control, ResultsFollowCache, ExitIsWhole, [Next]_vars
             PROVE  ExitIsWhole'
  OBVIOUS
<1> USE DEF scriptVars, runVars, cacheVars, histVars
<1>1. CASE ExitUpdated
  <2>1. cur \in Groups /\ UNCHANGED <<cur, planned>>
    BY <1>1 DEF ExitUpdated, Control
  <2>2. wrote'[cur] = planned
    BY <1>1, <2>1 DEF ExitUpdated, TypeInv
  <2>3. log'[cur] = planned
    BY <1>1, <2>1, MergedIsWhole DEF ExitUpdated, Summarize, TypeInv
  <2> QED
    BY <2>1, <2>2, <2>3 DEF ExitIsWhole
<1>2. CASE ExitInterrupted \/ ExitChecked
  BY <1>2 DEF ExitInterrupted, ExitChecked, ExitIsWhole
<1>3. CASE run' # "exited"
  BY <1>3 DEF ExitIsWhole
<1>4. CASE Interrupt \/ Return \/ RunGroup \/ JobStep \/ \E g \in Groups : Check(g)
  BY <1>3, <1>4 DEF Interrupt, Return, RunGroup, Check, Begin, JobStep, JobEnds, Pending
<1>5. CASE EndCheck \/ Checkpoint \/ NoTotal \/ Killed \/ KilledWriting \/ KilledCheckpointing
  BY <1>3, <1>5 DEF EndCheck, Checkpoint, NoTotal, Killed, KilledWriting,
     KilledCheckpointing, Down, Ended
<1>6. CASE Launch \/ LaunchPart \/ LaunchReset \/ Skip \/ EndSweep \/ Bump \/ BumpUnseen \/ Repin
  BY <1>3, <1>6, WalkingIsAlone DEF Launch, LaunchPart, LaunchReset, Walk, Skip,
     EndSweep, Bump, BumpUnseen, NewVersion, Repin
<1>7. CASE UNCHANGED vars
  BY <1>7 DEF vars, ExitIsWhole
<1> QED
  BY <1>1, <1>2, <1>4, <1>5, <1>6, <1>7 DEF Next, ScriptStep, RunStep

\* A group gets its checkpoint after the run recorded it, and while it has one
\* no run records it again.
LEMMA DoneNext ==
    TypeInv /\ Control /\ ExitIsWhole /\ DoneGroupsAreComplete /\ [Next]_vars
        => DoneGroupsAreComplete'
<1> SUFFICES ASSUME TypeInv, Control, ExitIsWhole, DoneGroupsAreComplete, [Next]_vars
             PROVE  DoneGroupsAreComplete'
  OBVIOUS
<1> USE DEF scriptVars, runVars, cacheVars, histVars
<1>1. CASE ExitUpdated \/ KilledWriting
  <2>1. done[cur] = None /\ UNCHANGED <<done, cut, stale>>
    BY <1>1 DEF ExitUpdated, KilledWriting, Control
  <2>2. \A g \in Groups \ {cur} : wrote'[g] = wrote[g]
    BY <1>1 DEF ExitUpdated, KilledWriting, TypeInv
  <2> QED
    BY <2>1, <2>2 DEF DoneGroupsAreComplete
<1>2. CASE Checkpoint
  <2>1. /\ cur \in Groups /\ UNCHANGED <<wrote, stale>>
        /\ done' = [done EXCEPT ![cur] = log[cur]]
        /\ cut' = IF abort THEN cut \cup {cur} ELSE cut
    BY <1>2 DEF Checkpoint, Checkpointed, Control
  <2>2. \A g \in Groups \ {cur} : done'[g] = done[g] /\ (g \in cut => g \in cut')
    BY <2>1 DEF TypeInv
  <2>3. CASE abort
    BY <2>1, <2>2, <2>3 DEF DoneGroupsAreComplete
  <2>4. CASE ~abort
    <3>1. done'[cur] = planned /\ wrote'[cur] = planned
      BY <1>2, <2>1, <2>4 DEF TypeInv, ExitIsWhole, Checkpoint, Control
    <3>2. planned # None
      BY SweepAssumption DEF TypeInv
    <3> QED
      BY <2>1, <2>2, <2>4, <3>1, <3>2 DEF DoneGroupsAreComplete
  <2> QED
    BY <2>3, <2>4
<1>3. CASE KilledCheckpointing
  <2>1. /\ UNCHANGED <<wrote, stale>>
        /\ done' = [done EXCEPT ![cur] = {}]
        /\ cut' = cut \cup {cur}
    BY <1>3 DEF KilledCheckpointing
  <2>2. \A g \in Groups \ {cur} : done'[g] = done[g]
    BY <2>1 DEF TypeInv
  <2> QED
    BY <2>1, <2>2 DEF DoneGroupsAreComplete
<1>4. CASE LaunchReset \/ Bump \/ BumpUnseen
  BY <1>4 DEF LaunchReset, Bump, BumpUnseen, DoneGroupsAreComplete
<1>5. CASE UNCHANGED <<done, wrote, cut, stale>>
  BY <1>5 DEF DoneGroupsAreComplete
<1>6. CASE Launch \/ LaunchPart \/ Skip \/ EndSweep \/ RunGroup \/ NoTotal
  BY <1>5, <1>6 DEF Launch, LaunchPart, Walk, Skip, EndSweep, RunGroup, NoTotal
<1>7. CASE Return \/ ExitInterrupted \/ ExitChecked \/ EndCheck \/ Interrupt
  BY <1>5, <1>7 DEF Return, ExitInterrupted, ExitChecked, EndCheck, Interrupt
<1>8. CASE JobStep \/ \E g \in Groups : Check(g)
  BY <1>5, <1>8 DEF JobStep, JobEnds, Pending, Check
<1>9. CASE Killed \/ Repin \/ UNCHANGED vars
  BY <1>5, <1>9 DEF Killed, Repin, vars
<1> QED
  BY <1>1, <1>2, <1>3, <1>4, <1>6, <1>7, <1>8, <1>9 DEF Next, ScriptStep, RunStep

\* The snapshot that an update writes.
LEMMA RecordedIsWhole ==
    ASSUME TypeInv, Control, ResultsFollowCache, run = "returned", ~abort
    PROVE  /\ \A j \in Jobs : Recorded(Merged)[j] # None => j \in planned
           /\ \A j \in planned \cap Precooked : Recorded(Merged)[j] = "handback"
           /\ \A j \in planned \ (Precooked \cup shaky) :
                 /\ cache[j] # None
                 /\ Recorded(Merged)[j] = IF cache[j] = "pass" THEN None ELSE cache[j]
<1>1. \A j \in Jobs : Recorded(Merged)[j] = IF Merged[j] = "pass" THEN None ELSE Merged[j]
  BY DEF Recorded
<1>2. \A j \in planned : j \in Jobs
  BY DEF TypeInv
<1>3. \A j \in Jobs : Recorded(Merged)[j] # None => j \in planned
  BY <1>1, MergedIsWhole DEF Have
<1>4. \A j \in planned \cap Precooked : Recorded(Merged)[j] = "handback"
  BY <1>1, <1>2, MergedIsWhole
<1>5. \A j \in planned \ (Precooked \cup shaky) : Merged[j] = cache[j] /\ cache[j] # None
  BY <1>2, MergedIsWhole DEF Runnable, ResultsFollowCache
<1> QED
  BY <1>1, <1>2, <1>3, <1>4, <1>5

LEMMA SnapshotNext ==
    TypeInv /\ Control /\ ResultsFollowCache /\ SnapshotIsWhole
            /\ SnapshotAgreesWithCache /\ BehindAPart /\ [Next]_vars
        => SnapshotIsWhole' /\ SnapshotAgreesWithCache'
<1> SUFFICES ASSUME TypeInv, Control, ResultsFollowCache, SnapshotIsWhole,
                    SnapshotAgreesWithCache, BehindAPart, [Next]_vars
             PROVE  SnapshotIsWhole' /\ SnapshotAgreesWithCache'
  OBVIOUS
<1> USE DEF scriptVars, runVars, cacheVars, worldVars, histVars
<1>1. CASE ExitUpdated
  <2>1. /\ cur \in Groups /\ planned = Scope[cur] \cap present
        /\ snap' = [snap EXCEPT ![cur] = Recorded(Merged)]
        /\ wrote' = [wrote EXCEPT ![cur] = planned]
        /\ UNCHANGED <<present, cache, shaky>>
    BY <1>1 DEF ExitUpdated, Control
  <2>2. snap'[cur] = Recorded(Merged) /\ wrote'[cur] = planned
    BY <2>1 DEF TypeInv
  <2>3. \A g \in Groups \ {cur} : snap'[g] = snap[g] /\ wrote'[g] = wrote[g]
    BY <2>1 DEF TypeInv
  <2>4. run = "returned" /\ ~abort
    BY <1>1 DEF ExitUpdated
  <2>5. SnapshotIsWhole'
    BY <2>1, <2>2, <2>3, <2>4, MergedType, RecordedIsWhole DEF SnapshotIsWhole
  <2>6. SnapshotAgreesWithCache'
    BY <2>1, <2>2, <2>3, <2>4, RecordedIsWhole DEF SnapshotAgreesWithCache
  <2> QED
    BY <2>5, <2>6
<1>2. CASE KilledWriting
  <2>1. UNCHANGED <<present, cache, shaky>> /\ cur \in Groups
    BY <1>2 DEF KilledWriting, Control
  <2>2. wrote'[cur] = None
    BY <1>2, <2>1 DEF KilledWriting, TypeInv
  <2>3. \A g \in Groups \ {cur} : snap'[g] = snap[g] /\ wrote'[g] = wrote[g]
    BY <1>2 DEF KilledWriting, TypeInv
  <2> QED
    BY <2>1, <2>2, <2>3 DEF SnapshotIsWhole, SnapshotAgreesWithCache
<1>3. ASSUME NEW j \in Jobs, NEW s \in Verdicts \cup {"timeout"}, JobEnds(j, s)
      PROVE  SnapshotIsWhole' /\ SnapshotAgreesWithCache'
  <2>1. UNCHANGED <<snap, present, wrote>> /\ shaky \subseteq shaky'
    BY <1>3 DEF JobEnds
  <2>2. \A i \in Jobs : cache[i] # None => cache'[i] = cache[i]
    BY <1>3, EndsUncached DEF JobEnds, TypeInv
  <2> QED
    BY <2>1, <2>2 DEF SnapshotIsWhole, SnapshotAgreesWithCache
<1>4. CASE Bump \/ BumpUnseen
  BY <1>4 DEF Bump, BumpUnseen, NewVersion, SnapshotIsWhole, SnapshotAgreesWithCache
<1>5. CASE Repin
  BY <1>5 DEF Repin, SnapshotIsWhole, SnapshotAgreesWithCache
<1>6. CASE UNCHANGED <<snap, wrote, cache, shaky, present>>
  BY <1>6 DEF SnapshotIsWhole, SnapshotAgreesWithCache
<1>7. CASE Launch \/ LaunchPart \/ LaunchReset \/ ScriptStep
  BY <1>6, <1>7 DEF Launch, LaunchPart, LaunchReset, Walk, ScriptStep, Skip, EndSweep,
     RunGroup, Checkpoint, NoTotal
<1>8. CASE Return \/ ExitInterrupted \/ ExitChecked \/ EndCheck \/ Interrupt
  BY <1>6, <1>8 DEF Return, ExitInterrupted, ExitChecked, EndCheck, Interrupt
<1>9. CASE (\E g \in Groups : Check(g)) \/ KilledCheckpointing \/ UNCHANGED vars
  BY <1>6, <1>9 DEF Check, KilledCheckpointing, vars
<1>10. CASE Killed
  <2>1. UNCHANGED <<snap, wrote, shaky, present>>
    BY <1>10 DEF Killed
  <2>2. \A j \in Jobs \ onto : cache'[j] = cache[j]
    BY <1>10 DEF Killed
  <2>3. \A g \in Groups, j \in onto :
           wrote[g] # None => j \notin wrote[g] \ (Precooked \cup shaky)
    BY DEF BehindAPart
  <2> QED
    BY <2>1, <2>2, <2>3 DEF SnapshotIsWhole, SnapshotAgreesWithCache
<1> QED
  BY <1>1, <1>2, <1>3, <1>4, <1>5, <1>7, <1>8, <1>9, <1>10 DEF Next, JobStep, RunStep

(***************************************************************************)
(* A checking run against a whole snapshot.                                *)
(***************************************************************************)
LEMMA DiffIsShaky ==
    ASSUME TypeInv, Control, ResultsFollowCache, SnapshotIsWhole,
           SnapshotAgreesWithCache, run = "returned", ~abort, wrote[cur] # None
    PROVE  Diff(Merged, Loaded(cur)) \subseteq shaky
<1>1. cur \in Groups /\ planned \subseteq wrote[cur]
  BY DEF Control, SnapshotIsWhole
<1>2. Loaded(cur) = snap[cur]
  BY <1>1, SweepAssumption DEF SnapshotIsWhole, Loaded, Snapshots
<1> SUFFICES ASSUME NEW j \in Have(Merged),
                    Merged[j] # IF snap[cur][j] = None THEN "pass" ELSE snap[cur][j],
                    j \notin shaky
             PROVE  FALSE
  BY <1>2 DEF Diff
<1>3. j \in planned /\ j \in Jobs /\ j \in wrote[cur]
  BY <1>1, MergedIsWhole DEF Have
<1>4. CASE j \in Precooked
  <2>1. Merged[j] = "handback" /\ snap[cur][j] = "handback"
    BY <1>1, <1>3, <1>4, MergedIsWhole DEF SnapshotIsWhole
  <2> QED
    BY <2>1, SweepAssumption DEF Statuses
<1>5. CASE j \notin Precooked
  <2>1. Merged[j] = cache[j]
    BY <1>3, <1>5, MergedIsWhole DEF Runnable, ResultsFollowCache
  <2>2. /\ cache[j] # None
        /\ snap[cur][j] = IF cache[j] = "pass" THEN None ELSE cache[j]
    BY <1>1, <1>3, <1>5 DEF SnapshotAgreesWithCache
  <2> QED
    BY <2>1, <2>2
<1> QED
  BY <1>4, <1>5

LEMMA DriftNext ==
    Inv /\ [Next]_vars => DriftIsOfCheck' /\ CheckHoldsAfterUpdate'
<1> SUFFICES ASSUME Inv, [Next]_vars PROVE DriftIsOfCheck' /\ CheckHoldsAfterUpdate'
  OBVIOUS
<1> USE DEF scriptVars, runVars, cacheVars, worldVars, histVars
<1>1. CASE ExitChecked
  BY <1>1, DiffIsShaky DEF Inv, ExitChecked, DriftIsOfCheck, CheckHoldsAfterUpdate
<1>2. CASE drift' = None
  BY <1>2 DEF DriftIsOfCheck, CheckHoldsAfterUpdate
<1>3. CASE drift' = drift /\ ~(run = "exited" /\ mode = "check")
  BY <1>2, <1>3 DEF Inv, DriftIsOfCheck
<1>4. CASE UNCHANGED vars
  BY <1>4 DEF Inv, DriftIsOfCheck, CheckHoldsAfterUpdate, vars
<1>5. CASE EndCheck \/ Checkpoint \/ NoTotal \/ Killed \/ KilledWriting \/ KilledCheckpointing
  BY <1>2, <1>5 DEF EndCheck, Checkpoint, NoTotal, Killed, KilledWriting,
     KilledCheckpointing, Down, Ended
<1>6. CASE Launch \/ LaunchPart \/ LaunchReset \/ Skip \/ EndSweep \/ RunGroup
  BY <1>3, <1>6, WalkingIsAlone DEF Inv, Launch, LaunchPart, LaunchReset, Walk, Skip,
     EndSweep, RunGroup
<1>7. CASE Bump \/ BumpUnseen \/ Repin \/ Interrupt \/ Return \/ ExitInterrupted \/ ExitUpdated
  BY <1>3, <1>7 DEF Bump, BumpUnseen, NewVersion, Repin, Interrupt, Return,
     ExitInterrupted, ExitUpdated
<1>8. CASE JobStep \/ \E g \in Groups : Check(g)
  BY <1>3, <1>8 DEF JobStep, JobEnds, Pending, Check
<1> QED
  BY <1>1, <1>4, <1>5, <1>6, <1>7, <1>8 DEF Next, ScriptStep, RunStep

LEMMA InvNext == Inv /\ [Next]_vars => Inv'
BY TypeNext, ControlNext, ResultsNext, CountsNext, BehindNext, ExitNext, DoneNext, SnapshotNext,
   DriftNext DEF Inv

(***************************************************************************)
(* The theorems.                                                           *)
(***************************************************************************)
\* Every reachable state of script, run, cache and snapshots satisfies Inv.
THEOREM Invariance == Spec => []Inv
<1>1. Init => Inv
  BY InvInit
<1>2. Inv /\ [Next]_vars => Inv'
  BY InvNext
<1> QED
  BY <1>1, <1>2, PTL DEF Spec

\* Through interrupts, kills, resets and overlapping groups no job has two
\* verdicts that stand under one bento and harness: the pre-pass of RunAll takes
\* the first from the cache, unless a kill took it.
THEOREM VerdictsAreKept == Spec => []NoJobRunsTwice
<1>1. Inv => NoJobRunsTwice
  BY DEF Inv, CacheCounts, NoJobRunsTwice
<1> QED
  BY <1>1, Invariance, PTL

\* A checkpoint that is not of an interrupted run, not torn and not older than an
\* edit its directory does not show stands for a whole snapshot of its group, of
\* this bento and harness.
THEOREM CheckpointsAreEarned == Spec => []DoneGroupsAreComplete
<1>1. Inv => DoneGroupsAreComplete
  BY DEF Inv
<1> QED
  BY <1>1, Invariance, PTL

\* A whole snapshot and the cache never part, whatever other groups run.
THEOREM SnapshotsFollowTheCache == Spec => []SnapshotAgreesWithCache
<1>1. Inv => SnapshotAgreesWithCache
  BY DEF Inv
<1> QED
  BY <1>1, Invariance, PTL

\* A checking run of the same bento against a whole snapshot reports only jobs
\* that timed out.
THEOREM UpdateThenCheckIsClean == Spec => []CheckHoldsAfterUpdate
<1>1. Inv => CheckHoldsAfterUpdate
  BY DEF Inv
<1> QED
  BY <1>1, Invariance, PTL
=============================================================================
