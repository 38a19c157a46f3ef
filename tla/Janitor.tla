------------------------------- MODULE Janitor -------------------------------
(***************************************************************************)
(* The build-cache janitor of pkg/tc39/cachejanitor.go, pinned to a        *)
(* baseline (watchCachePinned and pinToBaseline) or, for want of one, held *)
(* under a ceiling (watchCache and trimGoBuildCache).  It runs beside the  *)
(* worker loops, whose inflight map it reads (oldestInflight of            *)
(* pkg/tc39/orchestrator.go), and beside the go builds their subprocesses  *)
(* run (compileGo of pkg/tc39/aot.go), whose cache entries it removes.     *)
(*                                                                         *)
(* Time is the order of the events that are stamped: a stamp is the clock, *)
(* which may or may not advance between two of them.  The janitor's own    *)
(* time.Now() is later than every stamp taken so far.                      *)
(*                                                                         *)
(* The names ending in _Slip are deliberate slips in one definition each;  *)
(* nothing in the specification uses them.                                 *)
(***************************************************************************)
EXTENDS Naturals, FiniteSets, FiniteSetsExt

CONSTANTS
    Jobs,       \* the jobs handed to workers, each with its ID and one go build
    Deps,       \* the cache entries of the warmed dependencies
    Timeouts,   \* BOOLEAN: a job may miss its deadline
    Size,       \* of an entry
    MaxBytes,   \* the ceiling
    None

Entries == Jobs \cup Deps        \* a build's own entry is named by its job

ASSUME JanitorAssumption ==
    /\ IsFiniteSet(Jobs) /\ IsFiniteSet(Deps) /\ Jobs \cap Deps = {}
    /\ Timeouts \in BOOLEAN
    /\ Size \in Nat \ {0} /\ MaxBytes \in Nat \ {0}
    /\ None \notin Nat

VARIABLES
    mode,       \* "pinned", "ceiling"
    clock,
    stage,      \* workerLoop, per job: "waiting", "stamped", "sent", "ended"
    stamp,      \* the time.Now() a loop is about to store, None otherwise
    inflight,   \* the sync.Map: [Jobs -> Nat \cup {None}]
    build,      \* go build, per job: "none", "running", "over"; or, with its
                \* worker killed under it, "orphan" and then "stray"
    wrote,      \* the builds that have put their entry in the cache
    mtime,      \* the cache on disk: [Entries -> Nat \cup {None}]
    jan,        \* the janitor: "idle", "range", "walk", "list", "trim", "gone"
    cutoff,     \* of the sweep under way
    last,       \* this sweep answers the closed stop channel
    left,       \* jobs still to range over, or entries still to walk
    listing,    \* trimGoBuildCache's list: [Entries -> Nat \cup {None}]
    stop,       \* stopWatch is closed: RunAll is returning
    exited      \* the process has ended, its goroutines with it

jobVars == <<mode, clock, stage, stamp, inflight, build, wrote>>
janVars == <<mode, jan, cutoff, last, left, listing>>
vars == <<mode, clock, stage, stamp, inflight, build, wrote, mtime, jan, cutoff,
          last, left, listing, stop, exited>>

Unlisted == [e \in Entries |-> None]

\* The cache was wiped and warmed and the baseline snapshotted, or not: it
\* holds the dependencies and nothing else.
Init ==
    /\ mode \in {"pinned", "ceiling"}
    /\ clock = 0
    /\ stage = [j \in Jobs |-> "waiting"]
    /\ stamp = [j \in Jobs |-> None]
    /\ inflight = [j \in Jobs |-> None]
    /\ build = [j \in Jobs |-> "none"]
    /\ wrote = {}
    /\ mtime = [e \in Entries |-> IF e \in Deps THEN 0 ELSE None]
    /\ jan = "idle"
    /\ cutoff = 0
    /\ last = FALSE
    /\ left = {}
    /\ listing = Unlisted
    /\ stop = FALSE
    /\ exited = FALSE

-----------------------------------------------------------------------------
(***************************************************************************)
(* The worker loops and the builds.                                        *)
(***************************************************************************)

\* time.Now(), evaluated before inflight.Store is called.
Stamp(j) ==
    /\ ~stop
    /\ stage[j] = "waiting"
    /\ clock' \in {clock, clock + 1}
    /\ stamp' = [stamp EXCEPT ![j] = clock']
    /\ stage' = [stage EXCEPT ![j] = "stamped"]
    /\ UNCHANGED <<inflight, build, wrote, mtime, janVars, stop, exited>>

\* inflight.Store; the job goes to the subprocess after it.
Store(j) ==
    /\ stage[j] = "stamped"
    /\ inflight' = [inflight EXCEPT ![j] = stamp[j]]
    /\ stamp' = [stamp EXCEPT ![j] = None]
    /\ stage' = [stage EXCEPT ![j] = "sent"]
    /\ UNCHANGED <<clock, build, wrote, mtime, janVars, stop, exited>>

\* The dependencies a build reads are in the cache once it has: one that was
\* there may have its time renewed.  Under the baseline no one looks.
Warmed ==
    {[e \in Entries |-> IF e \in Deps /\ (renew \/ mtime[e] = None)
                       THEN clock ELSE mtime[e]] : renew \in BOOLEAN}

StartBuild(j) ==
    /\ stage[j] = "sent"
    /\ build[j] = "none"
    /\ build' = [build EXCEPT ![j] = "running"]
    /\ IF mode = "ceiling" THEN mtime' \in Warmed ELSE mtime' = mtime
    /\ UNCHANGED <<clock, stage, stamp, inflight, wrote, janVars, stop, exited>>

\* The build puts its main package and its binary in the cache.  A build the
\* worker's death left behind goes on, even past the end of the run.
WriteEntry(j) ==
    /\ build[j] \in {"running", "orphan"}
    /\ j \notin wrote
    /\ wrote' = wrote \cup {j}
    /\ clock' \in {clock, clock + 1}
    /\ mtime' = [mtime EXCEPT ![j] = clock']
    /\ UNCHANGED <<stage, stamp, inflight, build, janVars, stop, exited>>

FinishBuild(j) ==
    /\ build[j] \in {"running", "orphan"}
    /\ build' = [build EXCEPT ![j] = IF @ = "running" THEN "over" ELSE "stray"]
    /\ UNCHANGED <<clock, stage, stamp, inflight, wrote, mtime, janVars, stop,
                   exited>>

\* Slip: the job stays in the inflight map.
Answered_Slip(j) ==
    /\ stage[j] = "sent"
    /\ build[j] \in {"none", "over"}
    /\ stage' = [stage EXCEPT ![j] = "ended"]
    /\ UNCHANGED <<clock, stamp, inflight, build, wrote, mtime, janVars, stop,
                   exited>>

\* send returned with an answer (the job may have needed no build):
\* inflight.Delete.
Answered(j) ==
    /\ stage[j] = "sent"
    /\ build[j] \in {"none", "over"}
    /\ stage' = [stage EXCEPT ![j] = "ended"]
    /\ inflight' = [inflight EXCEPT ![j] = None]
    /\ UNCHANGED <<clock, stamp, build, wrote, mtime, janVars, stop, exited>>

\* The deadline: kill() ends the worker subprocess and not the go build it
\* started, then inflight.Delete.
TimedOut(j) ==
    /\ Timeouts
    /\ stage[j] = "sent"
    /\ stage' = [stage EXCEPT ![j] = "ended"]
    /\ build' = [build EXCEPT ![j] = CASE @ = "running" -> "orphan"
                                       [] @ = "none"    -> "over"
                                       [] OTHER         -> @]
    /\ inflight' = [inflight EXCEPT ![j] = None]
    /\ UNCHANGED <<clock, stamp, wrote, mtime, janVars, stop, exited>>

-----------------------------------------------------------------------------
(***************************************************************************)
(* The janitor.                                                            *)
(***************************************************************************)

\* Some time that still matters is as late as the clock.
Stamped ==
    \/ \E j \in Jobs : clock \in {stamp[j], inflight[j]}
    \/ \E e \in Entries : mtime[e] = clock

\* A tick, or the closed stop channel, starts a sweep: cutoff := time.Now().
BeginSweep ==
    /\ ~exited
    /\ mode = "pinned" /\ jan = "idle"
    /\ last' \in {FALSE, stop}
    /\ clock' = IF Stamped THEN clock + 1 ELSE clock
    /\ cutoff' = clock'
    /\ jan' = "range"
    /\ left' = Jobs
    /\ UNCHANGED <<mode, stage, stamp, inflight, build, wrote, mtime, listing,
                   stop, exited>>

\* Slip: oldestInflight keeps the start it met last, not the oldest.
RangeOne_Slip(j) ==
    /\ ~exited
    /\ jan = "range"
    /\ j \in left
    /\ left' = left \ {j}
    /\ cutoff' = IF inflight[j] = None THEN cutoff ELSE inflight[j]
    /\ UNCHANGED <<jobVars, mtime, jan, last, listing, stop, exited>>

\* inflight.Range meets the keys one by one, while loops store and delete.
RangeOne(j) ==
    /\ ~exited
    /\ jan = "range"
    /\ j \in left
    /\ left' = left \ {j}
    /\ cutoff' = IF inflight[j] = None THEN cutoff ELSE Min({cutoff, inflight[j]})
    /\ UNCHANGED <<jobVars, mtime, jan, last, listing, stop, exited>>

\* The Range is over and WalkDir begins; it may yet meet an entry that is
\* written while it walks.
BeginWalk ==
    /\ ~exited
    /\ jan = "range"
    /\ left = {}
    /\ jan' = "walk"
    /\ left' = Entries
    /\ UNCHANGED <<jobVars, mtime, cutoff, last, listing, stop, exited>>

\* pinToBaseline's tests: outside the baseline and modified before the cutoff.
Reclaimable(e) == e \notin Deps /\ mtime[e] # None /\ mtime[e] < cutoff

\* pinToBaseline at one entry.
WalkOne(e) ==
    /\ ~exited
    /\ jan = "walk"
    /\ e \in left
    /\ left' = left \ {e}
    /\ mtime' = IF Reclaimable(e) THEN [mtime EXCEPT ![e] = None] ELSE mtime
    /\ UNCHANGED <<jobVars, jan, cutoff, last, listing, stop, exited>>

\* Slip: the goroutine returns after its first sweep.
EndSweep_Slip ==
    /\ ~exited
    /\ jan = "walk"
    /\ left = {}
    /\ jan' = "gone"
    /\ cutoff' = 0
    /\ UNCHANGED <<jobVars, mtime, last, left, listing, stop, exited>>

\* The walk is over; the goroutine returns after the sweep stop asked for.
EndSweep ==
    /\ ~exited
    /\ jan = "walk"
    /\ left = {}
    /\ jan' = IF last THEN "gone" ELSE "idle"
    /\ cutoff' = 0
    /\ UNCHANGED <<jobVars, mtime, last, left, listing, stop, exited>>

-----------------------------------------------------------------------------
(***************************************************************************)
(* The janitor under a ceiling.  Sizes are read at one moment: entries are *)
(* alike and none but the janitor removes one, so a slower sum is the size *)
(* at some moment of its walk.                                             *)
(***************************************************************************)

Present  == {e \in Entries : mtime[e] # None}
Listed   == {e \in Entries : listing[e] # None}
Total(S) == Size * Cardinality(S)
Target   == MaxBytes - (MaxBytes \div 4)
Oversized == {S \in SUBSET Entries : Total(S) > MaxBytes}
TooLarge == Present \in Oversized

\* A tick, or the start, finds more than the ceiling; less, and it does nothing.
BeginTrim ==
    /\ ~exited
    /\ mode = "ceiling" /\ jan = "idle"
    /\ TooLarge
    /\ jan' = "list"
    /\ left' = Entries
    /\ UNCHANGED <<jobVars, mtime, cutoff, last, listing, stop, exited>>

\* trimGoBuildCache's walk at one entry.
ListOne(e) ==
    /\ ~exited
    /\ jan = "list"
    /\ e \in left
    /\ left' = left \ {e}
    /\ listing' = [listing EXCEPT ![e] = mtime[e]]
    /\ UNCHANGED <<jobVars, mtime, jan, cutoff, last, stop, exited>>

EndList ==
    /\ ~exited
    /\ jan = "list"
    /\ left = {}
    /\ jan' = "trim"
    /\ UNCHANGED <<jobVars, mtime, cutoff, last, left, listing, stop, exited>>

\* The oldest of the list goes; what is left of the list is what remains.
TrimOne(e) ==
    /\ ~exited
    /\ jan = "trim"
    /\ Total(Listed) > Target
    /\ e \in Listed /\ \A k \in Listed : listing[e] <= listing[k]
    /\ mtime' = [mtime EXCEPT ![e] = None]
    /\ listing' = [listing EXCEPT ![e] = None]
    /\ UNCHANGED <<jobVars, jan, cutoff, last, left, stop, exited>>

\* Slip: the goroutine returns after its first trim.
EndTrim_Slip ==
    /\ ~exited
    /\ jan = "trim"
    /\ Total(Listed) <= Target
    /\ jan' = "gone"
    /\ listing' = Unlisted
    /\ UNCHANGED <<jobVars, mtime, cutoff, last, left, stop, exited>>

EndTrim ==
    /\ ~exited
    /\ jan = "trim"
    /\ Total(Listed) <= Target
    /\ jan' = "idle"
    /\ listing' = Unlisted
    /\ UNCHANGED <<jobVars, mtime, cutoff, last, left, stop, exited>>

\* The closed stop channel ends it without another trim.
Quit ==
    /\ ~exited
    /\ mode = "ceiling" /\ jan = "idle"
    /\ stop
    /\ jan' = "gone"
    /\ UNCHANGED <<jobVars, mtime, cutoff, last, left, listing, stop, exited>>

-----------------------------------------------------------------------------
\* The collector is through, after the last job or after an interrupt:
\* close(stopWatch), and RunAll returns without waiting for the janitor.
CloseStop ==
    /\ ~stop
    /\ \A j \in Jobs : stage[j] \in {"waiting", "ended"}
    /\ stop' = TRUE
    /\ UNCHANGED <<jobVars, mtime, janVars, exited>>

\* main returns.
ExitProcess ==
    /\ stop /\ ~exited
    /\ exited' = TRUE
    /\ UNCHANGED <<jobVars, mtime, janVars, stop>>

Over == exited /\ UNCHANGED vars

JobStep(j) == Store(j) \/ Answered(j) \/ TimedOut(j)
BuildStep(j) == StartBuild(j) \/ WriteEntry(j) \/ FinishBuild(j)
JanitorStep ==
    \/ BeginSweep \/ BeginWalk \/ EndSweep
    \/ \E j \in Jobs : RangeOne(j)
    \/ \E e \in Entries : WalkOne(e)
    \/ BeginTrim \/ EndList \/ EndTrim \/ Quit
    \/ \E e \in Entries : ListOne(e) \/ TrimOne(e)

Next ==
    \/ \E j \in Jobs : Stamp(j) \/ JobStep(j) \/ BuildStep(j)
    \/ JanitorStep
    \/ CloseStop \/ ExitProcess \/ Over

Spec == Init /\ [][Next]_vars

\* A loop that can go on does, a deadline passes, the janitor's ticker ticks.
\* Nothing is assumed of the builds.
Fairness ==
    /\ \A j \in Jobs : WF_vars(JobStep(j))
    /\ WF_vars(JanitorStep)

FairSpec == Spec /\ Fairness

-----------------------------------------------------------------------------
\* Every variable of the janitor, the loops and the cache has its type, and no
\* stamp or modification time is ahead of the clock.
TypeOK ==
    /\ mode \in {"pinned", "ceiling"}
    /\ clock \in Nat
    /\ stage \in [Jobs -> {"waiting", "stamped", "sent", "ended"}]
    /\ stamp \in [Jobs -> 0..clock \cup {None}]
    /\ inflight \in [Jobs -> 0..clock \cup {None}]
    /\ build \in [Jobs -> {"none", "running", "over", "orphan", "stray"}]
    /\ wrote \subseteq Jobs
    /\ mtime \in [Entries -> 0..clock \cup {None}]
    /\ jan \in {"idle", "gone"} \cup IF mode = "pinned" THEN {"range", "walk"}
                                                       ELSE {"list", "trim"}
    /\ listing \in [Entries -> 0..clock \cup {None}]
    /\ cutoff \in 0..clock
    /\ last \in BOOLEAN
    /\ left \subseteq Entries
    /\ stop \in BOOLEAN
    /\ exited \in BOOLEAN

Removed(e) == mtime[e] # None /\ mtime'[e] = None

\* A sweep never takes an entry of the dependency baseline, nor one of a build
\* whose job is in flight, although the map and the cache change while the
\* sweep ranges over the one and walks the other.
ReclaimsOnlyResidue ==
    [][\A e \in Entries : mode = "pinned" /\ Removed(e) =>
          e \notin Deps /\ build[e] # "running"]_vars

\* The sweep made on stop brings the cache back to the dependency floor; all
\* it can leave is what a build outliving its worker writes.
LastSweepReachesFloor ==
    mode = "pinned" /\ jan = "gone" =>
        \A j \in Jobs : mtime[j] # None => build[j] \in {"orphan", "stray"}

\* The entry a finished build leaves is reclaimed while the run goes on: it
\* does not wait for the end.
ResidueIsReclaimed ==
    \A j \in Jobs : (mode = "pinned" /\ build[j] = "over" /\ mtime[j] # None)
                        ~> (mtime[j] = None \/ stop)

\* Without a baseline, a cache that has outgrown the ceiling is brought back
\* under it while the run goes on, although builds put back the dependencies
\* that a trim took.
CeilingIsRestored ==
    (mode = "ceiling" /\ TooLarge) ~> (~TooLarge \/ stop)
=============================================================================
