------------------------- MODULE OrchestratorProofs -------------------------
(***************************************************************************)
(* Proofs about RunAll for any number of jobs and worker slots and any     *)
(* recycling bound.                                                        *)
(***************************************************************************)
EXTENDS Orchestrator, TLAPS

\* The made-up result of a job is a Result.
LEMMA BlameType ==
    ASSUME TypeOK, NEW i \in Slots, cur[i] # None, NEW s \in Transient
    PROVE  Blame(i, s) \in Answers
BY OrchestratorAssumption DEF TypeOK, Blame, Answers, Statuses

\* Cache.Put keeps a map of verdicts a map of verdicts.
LEMMA PutType ==
    ASSUME NEW K, NEW f \in [K -> Verdicts \cup {None}], NEW k \in K,
           NEW s \in Statuses
    PROVE  Put(f, k, s) \in [K -> Verdicts \cup {None}]
BY DEF Put, Statuses

(***************************************************************************)
(* The inductive invariant.  Each part says what one piece of the state    *)
(* knows of the others.                                                    *)
(***************************************************************************)

\* A worker goroutine has a job exactly while it works on one.
HoldsJob ==
    \A i \in Slots : cur[i] = None <=> pc[i] \in {"idle", "exited"}

\* The pipes of a slot are empty except while it waits for an answer, and
\* then they hold its own job or the answer to it.
PipesBelongToJob ==
    \A i \in Slots :
        /\ pc[i] # "await" => stdin[i] = None /\ stdout[i] = None
        /\ stdin[i] # None => stdin[i] = cur[i] /\ stdout[i] = None
        /\ stdout[i] \in Answers => stdout[i].id = cur[i]
        /\ pc[i] = "deliver" => out[i] \in Answers /\ out[i].id = cur[i]
        /\ pc[i] # "deliver" => out[i] = None

\* A slot's subprocess, seen from where its loop is.
ProcOfSlot ==
    \A i \in Slots :
        /\ pc[i] \in {"spawn", "exited"} => proc[i] = "none"
        /\ proc[i] = "none" => pc[i] \notin {"store", "write", "await"}

TypeInv == TypeOK /\ HoldsJob /\ PipesBelongToJob /\ ProcOfSlot

LEMMA TypeInvInit == Init => TypeInv
<1> SUFFICES ASSUME Init PROVE TypeInv
  OBVIOUS
<1>1. TypeOK
  BY OrchestratorAssumption DEF Init, TypeOK, Statuses
<1>2. HoldsJob /\ PipesBelongToJob /\ ProcOfSlot
  BY OrchestratorAssumption DEF Init, HoldsJob, PipesBelongToJob, ProcOfSlot
<1> QED
  BY <1>1, <1>2 DEF TypeInv

\* Every step keeps the types and what the pipes hold.
LEMMA TypeInvNext == TypeInv /\ [Next]_vars => TypeInv'
<1> SUFFICES ASSUME TypeInv, [Next]_vars PROVE TypeInv'
  OBVIOUS
<1> USE OrchestratorAssumption
    DEF TypeInv, feederVars, slotVars, procVars, runVars, callerVars
<1>1. ASSUME NEW i \in Slots, NEW j \in Jobs, HandOut(i, j)
      PROVE  TypeInv'
  <2>1. TypeOK'
    BY <1>1 DEF HandOut, TypeOK
  <2>2. HoldsJob' /\ ProcOfSlot'
    BY <1>1 DEF HandOut, TypeOK, HoldsJob, ProcOfSlot
  <2>3. PipesBelongToJob'
    BY <1>1 DEF HandOut, TypeOK, HoldsJob, ProcOfSlot,
       PipesBelongToJob
  <2> QED
    BY <2>1, <2>2, <2>3
<1>2. CASE StopFeeding
  <2>1. TypeOK'
    BY <1>2 DEF StopFeeding, TypeOK
  <2>2. HoldsJob' /\ ProcOfSlot'
    BY <1>2 DEF StopFeeding, TypeOK, HoldsJob, ProcOfSlot
  <2>3. PipesBelongToJob'
    BY <1>2 DEF StopFeeding, TypeOK, HoldsJob, ProcOfSlot,
       PipesBelongToJob
  <2> QED
    BY <2>1, <2>2, <2>3
<1>3. CASE CloseResults
  <2>1. TypeOK'
    BY <1>3 DEF CloseResults, TypeOK
  <2>2. HoldsJob' /\ ProcOfSlot'
    BY <1>3 DEF CloseResults, TypeOK, HoldsJob, ProcOfSlot
  <2>3. PipesBelongToJob'
    BY <1>3 DEF CloseResults, TypeOK, HoldsJob, ProcOfSlot,
       PipesBelongToJob
  <2> QED
    BY <2>1, <2>2, <2>3
<1>4. ASSUME NEW i \in Slots, SpawnOK(i) PROVE TypeInv'
  <2>1. TypeOK'
    BY <1>4 DEF SpawnOK, TypeOK
  <2>2. HoldsJob' /\ ProcOfSlot'
    BY <1>4 DEF SpawnOK, TypeOK, HoldsJob, ProcOfSlot
  <2>3. PipesBelongToJob'
    BY <1>4 DEF SpawnOK, TypeOK, HoldsJob, ProcOfSlot,
       PipesBelongToJob
  <2> QED
    BY <2>1, <2>2, <2>3
<1>5. ASSUME NEW i \in Slots, SpawnFails(i) PROVE TypeInv'
  <2>0. Blame(i, "crash") \in Answers /\ Blame(i, "crash").id = cur[i]
    BY <1>5, BlameType DEF SpawnFails, HoldsJob, Blame, Transient
  <2>1. TypeOK'
    BY <2>0, <1>5 DEF SpawnFails, Deliver, TypeOK
  <2>2. HoldsJob' /\ ProcOfSlot'
    BY <2>0, <1>5 DEF SpawnFails, Deliver, TypeOK, HoldsJob, ProcOfSlot
  <2>3. PipesBelongToJob'
    BY <2>0, <1>5 DEF SpawnFails, Deliver, TypeOK, HoldsJob, ProcOfSlot,
       PipesBelongToJob
  <2> QED
    BY <2>1, <2>2, <2>3
<1>6. ASSUME NEW i \in Slots, Store(i) PROVE TypeInv'
  <2>1. TypeOK'
    BY <1>6 DEF Store, TypeOK, HoldsJob
  <2>2. HoldsJob' /\ ProcOfSlot'
    BY <1>6 DEF Store, TypeOK, HoldsJob, ProcOfSlot
  <2>3. PipesBelongToJob'
    BY <1>6 DEF Store, TypeOK, HoldsJob, ProcOfSlot,
       PipesBelongToJob
  <2> QED
    BY <2>1, <2>2, <2>3
<1>7. ASSUME NEW i \in Slots, Write(i) PROVE TypeInv'
  <2>1. TypeOK'
    BY <1>7 DEF Write, TypeOK
  <2>2. HoldsJob' /\ ProcOfSlot'
    BY <1>7 DEF Write, TypeOK, HoldsJob, ProcOfSlot
  <2>3. PipesBelongToJob'
    BY <1>7 DEF Write, TypeOK, HoldsJob, ProcOfSlot,
       PipesBelongToJob
  <2> QED
    BY <2>1, <2>2, <2>3
<1>8. ASSUME NEW i \in Slots, WriteFails(i) PROVE TypeInv'
  <2>0. Blame(i, "crash") \in Answers /\ Blame(i, "crash").id = cur[i]
    BY <1>8, BlameType DEF WriteFails, HoldsJob, Blame, Transient
  <2>1. TypeOK'
    BY <2>0, <1>8 DEF WriteFails, SendFailed, Kill, Deliver, TypeOK
  <2>2. HoldsJob' /\ ProcOfSlot'
    BY <2>0, <1>8 DEF WriteFails, SendFailed, Kill, Deliver, TypeOK, HoldsJob, ProcOfSlot
  <2>3. PipesBelongToJob'
    BY <2>0, <1>8 DEF WriteFails, SendFailed, Kill, Deliver, TypeOK, HoldsJob, ProcOfSlot,
       PipesBelongToJob
  <2> QED
    BY <2>1, <2>2, <2>3
<1>9. ASSUME NEW i \in Slots, Answered(i) PROVE TypeInv'
  <2>1. TypeOK'
    BY <1>9 DEF Answered, Kill, Deliver, TypeOK
  <2>2. HoldsJob' /\ ProcOfSlot'
    BY <1>9 DEF Answered, Kill, Deliver, TypeOK, HoldsJob, ProcOfSlot
  <2>3. PipesBelongToJob'
    BY <1>9 DEF Answered, Kill, Deliver, TypeOK, HoldsJob, ProcOfSlot,
       PipesBelongToJob
  <2> QED
    BY <2>1, <2>2, <2>3
<1>10. ASSUME NEW i \in Slots, ScanFails(i) PROVE TypeInv'
  <2>0. Blame(i, "crash") \in Answers /\ Blame(i, "crash").id = cur[i]
    BY <1>10, BlameType DEF ScanFails, HoldsJob, Blame, Transient
  <2>1. TypeOK'
    BY <2>0, <1>10 DEF ScanFails, SendFailed, Kill, Deliver, TypeOK
  <2>2. HoldsJob' /\ ProcOfSlot'
    BY <2>0, <1>10 DEF ScanFails, SendFailed, Kill, Deliver, TypeOK, HoldsJob, ProcOfSlot
  <2>3. PipesBelongToJob'
    BY <2>0, <1>10 DEF ScanFails, SendFailed, Kill, Deliver, TypeOK, HoldsJob, ProcOfSlot,
       PipesBelongToJob
  <2> QED
    BY <2>1, <2>2, <2>3
<1>11. ASSUME NEW i \in Slots, TimedOut(i) PROVE TypeInv'
  <2>0. Blame(i, "timeout") \in Answers /\ Blame(i, "timeout").id = cur[i]
    BY <1>11, BlameType DEF TimedOut, HoldsJob, Blame, Transient
  <2>1. TypeOK'
    BY <2>0, <1>11 DEF TimedOut, SendFailed, Kill, Deliver, TypeOK
  <2>2. HoldsJob' /\ ProcOfSlot'
    BY <2>0, <1>11 DEF TimedOut, SendFailed, Kill, Deliver, TypeOK, HoldsJob, ProcOfSlot
  <2>3. PipesBelongToJob'
    BY <2>0, <1>11 DEF TimedOut, SendFailed, Kill, Deliver, TypeOK, HoldsJob, ProcOfSlot,
       PipesBelongToJob
  <2> QED
    BY <2>1, <2>2, <2>3
<1>12. ASSUME NEW i \in Slots, Exit(i) PROVE TypeInv'
  <2>1. TypeOK'
    BY <1>12 DEF Exit, Kill, TypeOK
  <2>2. HoldsJob' /\ ProcOfSlot'
    BY <1>12 DEF Exit, Kill, TypeOK, HoldsJob, ProcOfSlot
  <2>3. PipesBelongToJob'
    BY <1>12 DEF Exit, Kill, TypeOK, HoldsJob, ProcOfSlot,
       PipesBelongToJob
  <2> QED
    BY <2>1, <2>2, <2>3
<1>13. ASSUME NEW i \in Slots, Ready(i) PROVE TypeInv'
  <2>1. TypeOK'
    BY <1>13 DEF Ready, TypeOK
  <2>2. HoldsJob' /\ ProcOfSlot'
    BY <1>13 DEF Ready, TypeOK, HoldsJob, ProcOfSlot
  <2>3. PipesBelongToJob'
    BY <1>13 DEF Ready, TypeOK, HoldsJob, ProcOfSlot,
       PipesBelongToJob
  <2> QED
    BY <2>1, <2>2, <2>3
<1>14. ASSUME NEW i \in Slots, Execute(i) PROVE TypeInv'
  <2>0. stdout'[i] \in Answers /\ stdout'[i].id = stdin[i] /\ stdin[i] \in Jobs
    BY <1>14 DEF Execute, TypeOK, Answers
  <2>1. TypeOK'
    BY <2>0, <1>14 DEF Execute, TypeOK, Statuses
  <2>2. HoldsJob' /\ ProcOfSlot'
    BY <2>0, <1>14 DEF Execute, TypeOK, HoldsJob, ProcOfSlot
  <2>3. PipesBelongToJob'
    BY <2>0, <1>14 DEF Execute, TypeOK, HoldsJob, ProcOfSlot,
       PipesBelongToJob
  <2> QED
    BY <2>1, <2>2, <2>3
<1>15. ASSUME NEW i \in Slots, Die(i) PROVE TypeInv'
  <2>1. TypeOK'
    BY <1>15 DEF Die, TypeOK
  <2>2. HoldsJob' /\ ProcOfSlot'
    BY <1>15 DEF Die, TypeOK, HoldsJob, ProcOfSlot
  <2>3. PipesBelongToJob'
    BY <1>15 DEF Die, TypeOK, HoldsJob, ProcOfSlot,
       PipesBelongToJob
  <2> QED
    BY <2>1, <2>2, <2>3
<1>16. ASSUME NEW i \in Slots, DieWriting(i) PROVE TypeInv'
  <2>1. TypeOK'
    BY <1>16 DEF DieWriting, TypeOK
  <2>2. HoldsJob' /\ ProcOfSlot'
    BY <1>16 DEF DieWriting, TypeOK, HoldsJob, ProcOfSlot
  <2>3. PipesBelongToJob'
    BY <1>16 DEF DieWriting, TypeOK, HoldsJob, ProcOfSlot,
       PipesBelongToJob
  <2> QED
    BY <2>1, <2>2, <2>3
<1>17. ASSUME NEW i \in Slots, Collect(i) PROVE TypeInv'
  <2>0. out[i] \in Answers /\ out[i].id \in Jobs /\ out[i].status \in Statuses
        /\ out[i].tk \in TailKeys \cup {None}
    BY <1>17 DEF Collect, PipesBelongToJob, Answers
  <2>a. cache' \in [Jobs -> Verdicts \cup {None}]
    BY <1>17, <2>0, PutType DEF Collect, TypeOK
  <2>b. tail' \in [TailKeys -> Verdicts \cup {None}]
    BY <1>17, <2>0, PutType DEF Collect, TypeOK
  <2>1. TypeOK'
    BY <2>0, <2>a, <2>b, <1>17 DEF Collect, TypeOK, Statuses
  <2>2. HoldsJob' /\ ProcOfSlot'
    BY <2>0, <2>a, <2>b, <1>17 DEF Collect, TypeOK, HoldsJob, ProcOfSlot
  <2>3. PipesBelongToJob'
    BY <2>0, <2>a, <2>b, <1>17 DEF Collect, TypeOK, HoldsJob, ProcOfSlot,
       PipesBelongToJob
  <2> QED
    BY <2>1, <2>2, <2>3
<1>18. CASE Return
  <2>1. TypeOK'
    BY <1>18 DEF Return, TypeOK
  <2>2. HoldsJob' /\ ProcOfSlot'
    BY <1>18 DEF Return, TypeOK, HoldsJob, ProcOfSlot
  <2>3. PipesBelongToJob'
    BY <1>18 DEF Return, TypeOK, HoldsJob, ProcOfSlot,
       PipesBelongToJob
  <2> QED
    BY <2>1, <2>2, <2>3
<1>19. CASE Interrupt
  <2>1. TypeOK'
    BY <1>19 DEF Interrupt, TypeOK
  <2>2. HoldsJob' /\ ProcOfSlot'
    BY <1>19 DEF Interrupt, TypeOK, HoldsJob, ProcOfSlot
  <2>3. PipesBelongToJob'
    BY <1>19 DEF Interrupt, TypeOK, HoldsJob, ProcOfSlot,
       PipesBelongToJob
  <2> QED
    BY <2>1, <2>2, <2>3
<1>20. CASE UNCHANGED vars
  BY <1>20 DEF TypeOK, HoldsJob, PipesBelongToJob, ProcOfSlot, vars
<1> QED
  BY <1>1, <1>2, <1>3, <1>4, <1>5, <1>6, <1>7, <1>8, <1>9, <1>10, <1>11,
     <1>12, <1>13, <1>14, <1>15, <1>16, <1>17, <1>18, <1>19, <1>20
  DEF Next, FeederStep, SlotStep, ProcessStep, Finished

\* Every variable keeps its type in every run.
THEOREM TypeCorrect == Spec => []TypeOK
<1>1. Spec => []TypeInv
  BY TypeInvInit, TypeInvNext, PTL DEF Spec
<1>2. TypeInv => TypeOK
  BY DEF TypeInv
<1> QED
  BY <1>1, <1>2, PTL

(***************************************************************************)
(* Where a job is.  Only HandOut and Collect move one.                     *)
(***************************************************************************)
Placement ==
    /\ \A i, k \in Slots : cur[i] # None /\ cur[i] = cur[k] => i = k
    /\ \A i \in Slots : cur[i] # None =>
          cur[i] \notin pending /\ results[cur[i]] = None
    /\ \A j \in pending : results[j] = None
    /\ \A j \in Jobs : results[j] = None =>
          j \in pending \/ \E i \in Slots : cur[i] = j

LEMMA PlacementNext ==
    TypeInv /\ Placement /\ [Next]_vars => Placement'
<1> SUFFICES ASSUME TypeInv, Placement, [Next]_vars PROVE Placement'
  OBVIOUS
<1> USE OrchestratorAssumption DEF Placement
<1>1. ASSUME NEW i \in Slots, NEW j \in Jobs, HandOut(i, j)
      PROVE  Placement'
  <2>1. cur[i] = None
    BY <1>1 DEF HandOut, TypeInv, HoldsJob
  <2> QED
    BY <1>1, <2>1 DEF HandOut, TypeInv, TypeOK, runVars
<1>2. ASSUME NEW i \in Slots, Collect(i) PROVE Placement'
  <2>1. out[i].id = cur[i] /\ cur[i] \in Jobs /\ out[i].status # None
    BY <1>2 DEF Collect, TypeInv, TypeOK, PipesBelongToJob, HoldsJob, Answers
  <2>2. /\ results' = [results EXCEPT ![cur[i]] = out[i].status]
        /\ cur' = [cur EXCEPT ![i] = None]
        /\ pending' = pending
    BY <1>2, <2>1 DEF Collect, feederVars
  <2> QED
    BY <2>1, <2>2 DEF TypeInv, TypeOK
<1>3. ASSUME UNCHANGED <<cur, pending, results>> PROVE Placement'
  BY <1>3
<1>4. \/ \E i \in Slots, j \in Jobs : HandOut(i, j)
      \/ \E i \in Slots : Collect(i)
      \/ UNCHANGED <<cur, pending, results>>
  BY DEF Next, FeederStep, SlotStep, ProcessStep, Finished, StopFeeding,
         CloseResults, SpawnOK, SpawnFails, Store, Write, WriteFails,
         Answered, ScanFails, TimedOut, SendFailed, Exit, Ready, Execute, Die,
         DieWriting, Return, Interrupt, feederVars, slotVars, runVars, vars
<1> QED
  BY <1>1, <1>2, <1>3, <1>4

(***************************************************************************)
(* What a subprocess has computed: nothing yet for a job that has not      *)
(* reached one, and otherwise what the pipe, the result on its way to the  *)
(* collector and the map say.                                              *)
(***************************************************************************)
Computed ==
    /\ \A j \in pending : ran[j] = None
    /\ \A i \in Slots :
          /\ pc[i] \in {"spawn", "store", "write"} => ran[cur[i]] = None
          /\ stdin[i] # None => ran[stdin[i]] = None
          /\ stdout[i] \in Answers =>
                /\ stdout[i].status = ran[cur[i]]
                /\ stdout[i].tk \in {None, TailOf[cur[i]]}
          /\ pc[i] = "deliver" =>
                /\ out[i].status \in Transient \/ out[i].status = ran[cur[i]]
                /\ out[i].tk \in {None, TailOf[cur[i]]}
    /\ \A j \in Jobs : results[j] \in Verdicts => results[j] = ran[j]

LEMMA ComputedNext ==
    TypeInv /\ Placement /\ Computed /\ [Next]_vars => Computed'
<1> SUFFICES ASSUME TypeInv, Placement, Computed, [Next]_vars PROVE Computed'
  OBVIOUS
<1> USE OrchestratorAssumption
    DEF Computed, TypeInv, TypeOK, HoldsJob, PipesBelongToJob, feederVars,
        slotVars, procVars, runVars
<1>1. ASSUME NEW i \in Slots, NEW j \in Jobs, HandOut(i, j)
      PROVE  Computed'
  BY <1>1 DEF HandOut
<1>2. ASSUME NEW i \in Slots, SpawnOK(i) \/ Store(i) PROVE Computed'
  BY <1>2 DEF SpawnOK, Store
<1>3. ASSUME NEW i \in Slots, Write(i) PROVE Computed'
  BY <1>3 DEF Write
<1>4. ASSUME NEW i \in Slots, SpawnFails(i) PROVE Computed'
  BY <1>4 DEF SpawnFails, Deliver, Blame, Transient
<1>5. ASSUME NEW i \in Slots, WriteFails(i) \/ ScanFails(i) \/ TimedOut(i)
      PROVE  Computed'
  <2>1. PICK s \in Transient : SendFailed(i, s)
    BY <1>5 DEF WriteFails, ScanFails, TimedOut, Transient
  <2> QED
    BY <2>1 DEF SendFailed, Kill, Deliver, Blame
<1>6. ASSUME NEW i \in Slots, Answered(i) PROVE Computed'
  BY <1>6 DEF Answered, Kill, Deliver
<1>7. ASSUME NEW i \in Slots, Exit(i) PROVE Computed'
  BY <1>7 DEF Exit, Kill
<1>8. ASSUME NEW i \in Slots, Execute(i) PROVE Computed'
  <2>1. PICK s \in Statuses, tk \in {None, TailOf[stdin[i]]} :
           /\ stdout' = [stdout EXCEPT ![i] =
                           [id |-> stdin[i], status |-> s, tk |-> tk]]
           /\ ran' = [ran EXCEPT ![stdin[i]] = s]
    BY <1>8 DEF Execute
  <2>2. /\ stdin[i] \in Jobs /\ stdin[i] = cur[i] /\ pc[i] = "await"
        /\ stdin' = [stdin EXCEPT ![i] = None]
        /\ UNCHANGED <<pc, cur, out, pending, results>>
    BY <1>8 DEF Execute
  <2>3. /\ ran'[cur[i]] = s
        /\ \A j \in Jobs : j # cur[i] => ran'[j] = ran[j]
    BY <2>1, <2>2
  <2>4. \A k \in Slots : k # i /\ cur[k] # None =>
           /\ cur[k] \in Jobs /\ cur[k] # cur[i]
           /\ ran'[cur[k]] = ran[cur[k]]
    BY <2>2, <2>3 DEF Placement
  <2>5. /\ \A j \in pending : ran'[j] = ran[j]
        /\ \A j \in Jobs : results[j] # None => ran'[j] = ran[j]
    BY <2>2, <2>3 DEF Placement
  <2>6. ASSUME NEW k \in Slots
        PROVE  /\ pc'[k] \in {"spawn", "store", "write"} => ran'[cur'[k]] = None
               /\ stdin'[k] # None => ran'[stdin'[k]] = None
               /\ stdout'[k] \in Answers =>
                     /\ stdout'[k].status = ran'[cur'[k]]
                     /\ stdout'[k].tk \in {None, TailOf[cur'[k]]}
               /\ pc'[k] = "deliver" =>
                     /\ \/ out'[k].status \in Transient
                        \/ out'[k].status = ran'[cur'[k]]
                     /\ out'[k].tk \in {None, TailOf[cur'[k]]}
    <3>1. CASE k = i
      BY <3>1, <2>1, <2>2, <2>3
    <3>2. CASE k # i
      BY <3>2, <2>1, <2>2, <2>4
    <3> QED
      BY <3>1, <3>2
  <2> QED
    BY <2>2, <2>5, <2>6 DEF Statuses
<1>9. ASSUME NEW i \in Slots, DieWriting(i) PROVE Computed'
  BY <1>9 DEF DieWriting
<1>10. ASSUME NEW i \in Slots, Collect(i) PROVE Computed'
  <2>1. out[i].id = cur[i] /\ cur[i] \in Jobs
        /\ (out[i].status \in Verdicts => out[i].status = ran[cur[i]])
    BY <1>10 DEF Collect
  <2> QED
    BY <1>10, <2>1 DEF Collect
<1>11. ASSUME UNCHANGED <<pending, pc, cur, out, stdin, stdout, results, ran>>
       PROVE  Computed'
  BY <1>11
<1>12. \/ \E i \in Slots, j \in Jobs : HandOut(i, j)
       \/ \E i \in Slots :
             \/ SpawnOK(i) \/ SpawnFails(i) \/ Store(i) \/ Write(i)
             \/ WriteFails(i) \/ Answered(i) \/ ScanFails(i) \/ TimedOut(i)
             \/ Exit(i) \/ Execute(i) \/ DieWriting(i) \/ Collect(i)
       \/ UNCHANGED <<pending, pc, cur, out, stdin, stdout, results, ran>>
  BY DEF Next, FeederStep, SlotStep, ProcessStep, Finished, StopFeeding,
         CloseResults, Ready, Die, Return, Interrupt, vars
<1> QED
  BY <1>1, <1>2, <1>3, <1>4, <1>5, <1>6, <1>7, <1>8, <1>9, <1>10, <1>11,
     <1>12

(***************************************************************************)
(* The two caches follow the results map.  Only Collect writes them.       *)
(***************************************************************************)
LEMMA CachesNext ==
    TypeInv /\ Placement /\ Computed /\ CachesMatchResults /\ [Next]_vars
        => CachesMatchResults'
<1> SUFFICES ASSUME TypeInv, Placement, Computed, CachesMatchResults,
                    [Next]_vars
             PROVE  CachesMatchResults'
  OBVIOUS
<1> USE OrchestratorAssumption DEF CachesMatchResults, TypeInv, TypeOK
<1>1. ASSUME NEW i \in Slots, Collect(i) PROVE CachesMatchResults'
  <2> DEFINE r == out[i]
  <2>1. /\ r.id = cur[i] /\ cur[i] \in Jobs
        /\ r.status \in Statuses /\ r.tk \in {None, TailOf[cur[i]]}
        /\ results[cur[i]] = None
    BY <1>1 DEF Collect, HoldsJob, PipesBelongToJob, Placement, Computed,
                Answers
  <2>2. /\ results' = [results EXCEPT ![cur[i]] = r.status]
        /\ cache' = Put(cache, cur[i], r.status)
        /\ tail' = IF r.tk = None THEN tail ELSE Put(tail, r.tk, r.status)
    BY <1>1, <2>1 DEF Collect
  <2>3. cache[cur[i]] = None
    BY <2>1
  <2>4. \A j \in Jobs :
           cache'[j] = IF results'[j] \in Verdicts THEN results'[j] ELSE None
    BY <2>1, <2>2, <2>3 DEF Put, Statuses
  <2>5. ASSUME NEW k \in TailKeys, loaded[k] # None
        PROVE  tail'[k] = loaded[k]
    <3>1. tail[k] = loaded[k] /\ tail \in [TailKeys -> Verdicts \cup {None}]
      BY <2>5 DEF TypeInv, TypeOK
    <3> QED
      BY <2>5, <3>1, <2>1, <2>2 DEF Put
  <2>6. loaded' = loaded
    BY <1>1 DEF Collect
  <2>7. ASSUME NEW k \in TailKeys, loaded[k] = None, tail'[k] # None
        PROVE  \E j \in Jobs : TailOf[j] = k /\ results'[j] = tail'[k]
    <3>1. CASE tail'[k] = tail[k]
      <4>1. PICK j \in Jobs : TailOf[j] = k /\ results[j] = tail[k]
        BY <2>7, <3>1
      <4> QED
        BY <4>1, <3>1, <2>1, <2>2, <2>7
    <3>2. CASE tail'[k] # tail[k]
      <4>1. k = TailOf[cur[i]] /\ tail'[k] = r.status
        BY <3>2, <2>1, <2>2 DEF Put
      <4> QED
        BY <4>1, <2>1, <2>2
    <3> QED
      BY <3>1, <3>2
  <2> QED
    BY <2>4, <2>5, <2>6, <2>7
<1>2. ASSUME UNCHANGED runVars PROVE CachesMatchResults'
  BY <1>2 DEF runVars
<1>3. (\E i \in Slots : Collect(i)) \/ UNCHANGED runVars
  BY DEF Next, FeederStep, SlotStep, ProcessStep, Finished, StopFeeding,
         CloseResults, SpawnOK, SpawnFails, Store, Write, WriteFails,
         Answered, ScanFails, TimedOut, SendFailed, Exit, Ready, Execute, Die,
         DieWriting, Return, Interrupt, HandOut, runVars, vars
<1> QED
  BY <1>1, <1>2, <1>3

(***************************************************************************)
(* How much a subprocess has executed, against the counter of its slot.    *)
(***************************************************************************)
Loads ==
    \A i \in Slots :
        /\ load[i] <= IF stdout[i] \in Answers THEN served[i] + 1
                                               ELSE served[i]
        /\ proc[i] = "none" => load[i] = 0
        /\ proc[i] # "none" /\ MaxJobs > 0 => served[i] < MaxJobs

LEMMA LoadsNext == TypeInv /\ Loads /\ [Next]_vars => Loads'
<1> SUFFICES ASSUME TypeInv, Loads, [Next]_vars PROVE Loads'
  OBVIOUS
<1> USE OrchestratorAssumption
    DEF Loads, TypeInv, TypeOK, ProcOfSlot, PipesBelongToJob, slotVars,
        procVars
<1>1. ASSUME NEW i \in Slots, SpawnOK(i) PROVE Loads'
  BY <1>1 DEF SpawnOK
<1>2. ASSUME NEW i \in Slots, WriteFails(i) \/ ScanFails(i) \/ TimedOut(i)
      PROVE  Loads'
  BY <1>2 DEF WriteFails, ScanFails, TimedOut, SendFailed, Kill
<1>3. ASSUME NEW i \in Slots, Answered(i) PROVE Loads'
  <2>1. CASE RecycleDue(served[i] + 1)
    BY <1>3, <2>1 DEF Answered, Kill
  <2>2. CASE ~RecycleDue(served[i] + 1)
    BY <1>3, <2>2 DEF Answered, RecycleDue
  <2> QED
    BY <2>1, <2>2
<1>4. ASSUME NEW i \in Slots, Exit(i) PROVE Loads'
  BY <1>4 DEF Exit, Kill
<1>5. ASSUME NEW i \in Slots, Ready(i) \/ Die(i) PROVE Loads'
  BY <1>5 DEF Ready, Die
<1>6. ASSUME NEW i \in Slots, Execute(i) PROVE Loads'
  <2>1. stdout'[i] \in Answers /\ stdout[i] = None
    BY <1>6 DEF Execute, Answers
  <2> QED
    BY <1>6, <2>1 DEF Execute
<1>7. ASSUME NEW i \in Slots, DieWriting(i) PROVE Loads'
  BY <1>7 DEF DieWriting
<1>8. ASSUME UNCHANGED <<served, proc, stdout, load>> PROVE Loads'
  BY <1>8
<1>9. \/ \E i \in Slots :
            \/ SpawnOK(i) \/ WriteFails(i) \/ ScanFails(i) \/ TimedOut(i)
            \/ Answered(i) \/ Exit(i) \/ Ready(i) \/ Die(i) \/ Execute(i)
            \/ DieWriting(i)
      \/ UNCHANGED <<served, proc, stdout, load>>
  BY DEF Next, FeederStep, SlotStep, ProcessStep, Finished, StopFeeding,
         CloseResults, SpawnFails, Store, Write, Collect, Return, Interrupt,
         HandOut, vars
<1> QED
  BY <1>1, <1>2, <1>3, <1>4, <1>5, <1>6, <1>7, <1>8, <1>9

(***************************************************************************)
(* The inflight map, job by job.                                           *)
(***************************************************************************)
Sending(j) == \E i \in Slots : pc[i] \in {"write", "await"} /\ cur[i] = j

Inflight == \A j \in Jobs : j \in inflight <=> Sending(j)

LEMMA InflightNext == TypeInv /\ Placement /\ Inflight /\ [Next]_vars => Inflight'
<1> SUFFICES ASSUME TypeInv, Placement, Inflight, [Next]_vars PROVE Inflight'
  OBVIOUS
<1> USE OrchestratorAssumption
    DEF Inflight, Sending, TypeInv, TypeOK, HoldsJob, slotVars
<1>1. ASSUME NEW i \in Slots, NEW j \in Jobs, HandOut(i, j)
      PROVE  Inflight'
  BY <1>1 DEF HandOut
<1>2. ASSUME NEW i \in Slots,
             SpawnOK(i) \/ SpawnFails(i) \/ Write(i) \/ Exit(i) \/ Collect(i)
      PROVE  Inflight'
  BY <1>2 DEF SpawnOK, SpawnFails, Write, Exit, Collect, Deliver
<1>3. ASSUME NEW i \in Slots, Store(i) PROVE Inflight'
  BY <1>3 DEF Store
<1>4. ASSUME NEW i \in Slots,
             WriteFails(i) \/ ScanFails(i) \/ TimedOut(i) \/ Answered(i)
      PROVE  Inflight'
  <2>1. /\ pc[i] \in {"write", "await"}
        /\ pc' = [pc EXCEPT ![i] = "deliver"]
        /\ inflight' = inflight \ {cur[i]}
        /\ cur' = cur
    BY <1>4 DEF WriteFails, ScanFails, TimedOut, Answered, SendFailed, Deliver
  <2>2. \A k \in Slots : k # i /\ cur[k] = cur[i] => FALSE
    BY <2>1 DEF Placement
  <2> QED
    BY <2>1, <2>2
<1>5. ASSUME UNCHANGED <<pc, cur, inflight>> PROVE Inflight'
  BY <1>5
<1>6. \/ \E i \in Slots, j \in Jobs : HandOut(i, j)
      \/ \E i \in Slots :
            \/ SpawnOK(i) \/ SpawnFails(i) \/ Write(i) \/ Exit(i) \/ Collect(i)
            \/ Store(i) \/ WriteFails(i) \/ ScanFails(i) \/ TimedOut(i)
            \/ Answered(i)
      \/ UNCHANGED <<pc, cur, inflight>>
  BY DEF Next, FeederStep, SlotStep, ProcessStep, Finished, StopFeeding,
         CloseResults, Ready, Execute, Die, DieWriting, Return, Interrupt, vars
<1> QED
  BY <1>1, <1>2, <1>3, <1>4, <1>5, <1>6

(***************************************************************************)
(* The wind-down: jobCh closes, the loops exit, resCh closes, RunAll       *)
(* returns, in this order.                                                 *)
(***************************************************************************)
WindDown ==
    /\ feeder = "feeding" => \A i \in Slots : pc[i] # "exited"
    /\ feeder = "done" => \A i \in Slots : pc[i] = "exited"
    /\ feeder # "feeding" => pending = {} \/ abort
    /\ returned => feeder = "done"

LEMMA WindDownNext == TypeInv /\ WindDown /\ [Next]_vars => WindDown'
<1> SUFFICES ASSUME TypeInv, WindDown, [Next]_vars PROVE WindDown'
  OBVIOUS
<1> USE DEF WindDown, TypeInv, TypeOK, feederVars, slotVars, callerVars
<1>1. ASSUME NEW i \in Slots, NEW j \in Jobs, HandOut(i, j)
      PROVE  WindDown'
  BY <1>1 DEF HandOut
<1>2. CASE StopFeeding \/ CloseResults \/ Interrupt \/ Return
  BY <1>2 DEF StopFeeding, CloseResults, Interrupt, Return
<1>3. ASSUME NEW i \in Slots, SlotStep(i) PROVE WindDown'
  BY <1>3 DEF SlotStep, SpawnOK, SpawnFails, Store, Write, WriteFails,
              Answered, ScanFails, TimedOut, SendFailed, Exit, Deliver
<1>4. ASSUME NEW i \in Slots, ProcessStep(i) PROVE WindDown'
  BY <1>4 DEF ProcessStep, Ready, Execute, Die, DieWriting
<1>5. ASSUME NEW i \in Slots, Collect(i) PROVE WindDown'
  BY <1>5 DEF Collect
<1>6. CASE UNCHANGED vars
  BY <1>6 DEF vars
<1> QED
  BY <1>1, <1>2, <1>3, <1>4, <1>5, <1>6 DEF Next, FeederStep, Finished

-----------------------------------------------------------------------------
Inv ==
    /\ TypeInv
    /\ Placement
    /\ Computed
    /\ CachesMatchResults
    /\ Loads
    /\ Inflight
    /\ WindDown

LEMMA InvInit == Init => Inv
<1> SUFFICES ASSUME Init PROVE Inv
  OBVIOUS
<1> USE OrchestratorAssumption
<1>1. TypeInv
  BY TypeInvInit
<1>2. Placement /\ Inflight /\ WindDown
  BY DEF Init, Placement, Inflight, Sending, WindDown
<1>3. Computed
  BY DEF Init, Computed, Statuses
<1>4. CachesMatchResults
  BY DEF Init, CachesMatchResults
<1>5. Loads
  BY DEF Init, Loads
<1> QED
  BY <1>1, <1>2, <1>3, <1>4, <1>5 DEF Inv

\* Inv is inductive.
LEMMA InvNext == Inv /\ [Next]_vars => Inv'
BY TypeInvNext, PlacementNext, ComputedNext, CachesNext, LoadsNext,
   InflightNext, WindDownNext
DEF Inv

\* Inv holds in every state of every run.
LEMMA InvAlways == Spec => []Inv
BY InvInit, InvNext, PTL DEF Spec

\* No job is lost and none is given to two workers, for any number of jobs and
\* workers (the pending set, the cur of the loops, the results map).
THEOREM JobsAreNeverLostOrDuplicated == Spec => []NoJobLostOrDuplicated
<1>1. Inv => NoJobLostOrDuplicated
  <2> SUFFICES ASSUME Inv, NEW j \in Jobs
               PROVE  \/ /\ j \in pending /\ results[j] = None
                         /\ \A i \in Slots : cur[i] # j
                      \/ /\ j \notin pending /\ results[j] = None
                         /\ \E i \in Slots :
                               cur[i] = j /\ \A k \in Slots \ {i} : cur[k] # j
                      \/ /\ j \notin pending /\ results[j] # None
                         /\ \A i \in Slots : cur[i] # j
    BY DEF NoJobLostOrDuplicated
  <2>1. j # None
    BY OrchestratorAssumption
  <2>2. CASE j \in pending
    BY <2>1, <2>2 DEF Inv, Placement
  <2>3. CASE j \notin pending /\ results[j] # None
    BY <2>1, <2>3 DEF Inv, Placement
  <2>4. CASE j \notin pending /\ results[j] = None
    BY <2>1, <2>4 DEF Inv, Placement
  <2> QED
    BY <2>2, <2>3, <2>4
<1> QED
  BY <1>1, InvAlways, PTL

\* The answer a loop delivers is the answer to its own job, and a recorded
\* verdict is the one a subprocess computed for that job.
THEOREM VerdictsAreRight == Spec => []RightVerdict
<1>1. Inv => RightVerdict
  BY DEF Inv, TypeInv, PipesBelongToJob, Computed, RightVerdict
<1> QED
  BY <1>1, InvAlways, PTL

\* No subprocess executes more jobs than MaxJobsPerWorker.
THEOREM SubprocessesAreRecycled == Spec => []RecycleBound
<1>1. Inv => RecycleBound
  BY OrchestratorAssumption DEF Inv, TypeInv, TypeOK, Loads, RecycleBound
<1> QED
  BY <1>1, InvAlways, PTL

\* The inflight map is exactly the set of jobs being sent, which is what the
\* watchdog and the janitor's cutoff rely on.
THEOREM InflightMapIsExact == Spec => []InflightIsExact
<1>1. Inv => InflightIsExact
  <2> SUFFICES ASSUME Inv PROVE InflightIsExact
    OBVIOUS
  <2>1. \A i \in Slots : pc[i] \in {"write", "await"} => cur[i] \in Jobs
    BY DEF Inv, TypeInv, TypeOK, HoldsJob
  <2>2. inflight \subseteq Jobs /\ Inflight
    BY DEF Inv, TypeInv, TypeOK
  <2> QED
    BY <2>1, <2>2 DEF Inflight, Sending, InflightIsExact
<1> QED
  BY <1>1, InvAlways, PTL

\* When RunAll returns, its goroutines and subprocesses are gone, nothing is in
\* flight, and only an interrupted run leaves a job without an outcome.
THEOREM ReturnIsClean == Spec => []CleanReturn
<1>1. Inv => CleanReturn
  <2> SUFFICES ASSUME Inv, returned PROVE CleanReturn
    BY DEF CleanReturn
  <2>1. \A i \in Slots : pc[i] = "exited" /\ proc[i] = "none" /\ cur[i] = None
    BY DEF Inv, WindDown, TypeInv, ProcOfSlot, HoldsJob
  <2>2. inflight = {}
    BY <2>1 DEF Inv, Inflight, Sending, TypeInv, TypeOK
  <2>3. abort \/ \A j \in Jobs : results[j] # None
    BY <2>1, OrchestratorAssumption DEF Inv, WindDown, Placement
  <2> QED
    BY <2>1, <2>2, <2>3 DEF CleanReturn
<1> QED
  BY <1>1, InvAlways, PTL

\* The caches Cache.Put fills hold exactly the verdicts of the results map.
THEOREM CachesFollowResults == Spec => []CachesMatchResults
<1>1. Inv => CachesMatchResults
  BY DEF Inv
<1> QED
  BY <1>1, InvAlways, PTL

\* A job runs to an answer at most once, timeouts and lost races included.
THEOREM JobsRunAtMostOnce == Spec => RunsAtMostOnce
<1>1. Inv /\ [Next]_vars
        => [\A j \in Jobs : ran[j] # None => ran'[j] = ran[j]]_vars
  <2> SUFFICES ASSUME Inv, [Next]_vars, NEW j \in Jobs, ran[j] # None
               PROVE  ran'[j] = ran[j]
    OBVIOUS
  <2>1. ASSUME NEW i \in Slots, Execute(i) PROVE ran'[j] = ran[j]
    <3>1. stdin[i] # j
      BY <2>1 DEF Execute, Inv, Computed
    <3> QED
      BY <2>1, <3>1 DEF Execute, Inv, TypeInv, TypeOK
  <2>2. (\E i \in Slots : Execute(i)) \/ ran' = ran
    BY DEF Next, FeederStep, SlotStep, ProcessStep, Finished, StopFeeding,
           CloseResults, SpawnOK, SpawnFails, Store, Write, WriteFails,
           Answered, ScanFails, TimedOut, SendFailed, Exit, Ready, Die,
           DieWriting, Return, Interrupt, HandOut, Collect, vars
  <2> QED
    BY <2>1, <2>2
<1> QED
  BY <1>1, InvAlways, PTL DEF Spec, RunsAtMostOnce

(***************************************************************************)
(* RunAll implements the job board: Collect is Record, Interrupt is Stop,  *)
(* Return is Return, and every other step leaves the board alone.          *)
(***************************************************************************)
THEOREM RunAllImplementsBoard == Spec => ImplementsBoard
<1>1. Init => Board!BoardInit
  <2> SUFFICES ASSUME Init PROVE Board!BoardInit
    OBVIOUS
  <2>1. (pending = {}) <=> Board!Full
    BY DEF Init, Board!Full
  <2>2. returned <=> Board!Full
    BY <2>1 DEF Init
  <2>3. returned \in BOOLEAN /\ Board!Full \in BOOLEAN
    BY DEF Init, Board!Full
  <2>4. returned = Board!Full
    BY <2>2, <2>3
  <2> QED
    BY <2>4 DEF Init, Board!BoardInit
<1>2. Inv /\ [Next]_vars => [Board!BoardNext]_(Board!boardVars)
  <2> SUFFICES ASSUME Inv, [Next]_vars
               PROVE  \/ Board!BoardNext
                      \/ UNCHANGED <<results, abort, returned>>
    BY DEF Board!boardVars
  <2>1. ASSUME NEW i \in Slots, Collect(i) PROVE Board!BoardNext
    <3>1. /\ out[i].id = cur[i] /\ cur[i] \in Jobs
          /\ out[i].status \in Board!Statuses
          /\ results[cur[i]] = None
      BY <2>1, OrchestratorAssumption
      DEF Collect, Inv, TypeInv, TypeOK, PipesBelongToJob, HoldsJob,
          Placement, Answers, Statuses, Transient, Board!Statuses,
          Board!Transient
    <3>2. Board!Record(cur[i], out[i].status)
      BY <2>1, <3>1 DEF Collect, Board!Record, callerVars
    <3> QED
      BY <3>1, <3>2 DEF Board!BoardNext
  <2>2. CASE Interrupt
    BY <2>2 DEF Interrupt, runVars, Board!Stop, Board!BoardNext
  <2>3. CASE Return
    <3>1. abort \/ Board!Full
      <4>1. \A i \in Slots : cur[i] = None
        BY <2>3 DEF Return, Inv, WindDown, TypeInv, HoldsJob
      <4> QED
        BY <2>3, <4>1, OrchestratorAssumption
        DEF Return, Inv, WindDown, Placement, Board!Full
    <3> QED
      BY <2>3, <3>1 DEF Return, runVars, Board!Return, Board!BoardNext
  <2>4. \/ \E i \in Slots : Collect(i)
        \/ Interrupt
        \/ Return
        \/ UNCHANGED <<results, abort, returned>>
    BY DEF Next, FeederStep, SlotStep, ProcessStep, Finished, StopFeeding,
           CloseResults, SpawnOK, SpawnFails, Store, Write, WriteFails,
           Answered, ScanFails, TimedOut, SendFailed, Exit, Ready, Execute,
           Die, DieWriting, HandOut, runVars, callerVars, vars
  <2> QED
    BY <2>1, <2>2, <2>3, <2>4
<1> QED
  BY <1>1, <1>2, InvAlways, PTL DEF Spec, ImplementsBoard, Board!BoardSpec

=============================================================================
