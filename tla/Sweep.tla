-------------------------------- MODULE Sweep --------------------------------
(***************************************************************************)
(* A sweep of the corpus, group by group: the walk of                      *)
(* scripts/run-groups.sh, the end of runMain (cmd/bento262/main.go) in its *)
(* -update and its checking form, and the snapshot of pkg/tc39/expect.go.  *)
(* RunAll is the job board: jobs end one by one, an interrupt makes it     *)
(* return early.                                                           *)
(*                                                                         *)
(* "timeout" stands for the two statuses the cache does not keep, timeout  *)
(* and crash.  The names ending in _Slip are deliberate slips in one       *)
(* definition each; nothing in the specification uses them.                *)
(***************************************************************************)
EXTENDS Integers, Sequences, SequencesExt, FiniteSets

CONSTANTS
    Jobs,       \* job IDs of the corpus
    Precooked,  \* the jobs that come back from Jobs as handbacks
    Order,      \* order.txt: the groups, in path order
    Scope,      \* group -> the jobs its --grep argument selects
    Verdicts,   \* the statuses an executed job can get and the cache keeps
    MaxStops,   \* bound: interrupts, kills, failed runs, partial walks
    MaxEdits,   \* bound: changes of the bento tree and of the corpus
    None

Groups   == Range(Order)
Statuses == Verdicts \cup {"timeout", "handback"}

ASSUME SweepAssumption ==
    /\ IsFiniteSet(Jobs) /\ Precooked \subseteq Jobs
    /\ Order \in Seq(Groups) /\ IsInjective(Order)
    /\ Scope \in [Groups -> SUBSET Jobs]
    /\ "pass" \in Verdicts
    /\ {"timeout", "handback"} \cap Verdicts = {}
    /\ None \notin Statuses \cup Groups
    /\ \A s \in SUBSET Jobs : s # None
    /\ \A r \in [Jobs -> Statuses \cup {None}] : r # None
    /\ MaxStops \in Nat /\ MaxEdits \in Nat

VARIABLES
    \* run-groups.sh
    script,     \* "down", "walking", or "waiting" for the pipeline
    sel,        \* the groups --from and --only let through
    at,         \* the place in order.txt
    log,        \* group -> the jobs its TOTAL line counts; {}: no such line
    done,       \* group -> what its .done file counts, None without the file
    \* bento262 run
    run,        \* "none", "running", "returned" (from RunAll), "exited"
    mode,       \* "update" or "check"
    cur,        \* the group it runs
    planned,    \* the jobs Discover and Select gave it
    results,    \* job -> status, None: no result
    abort,
    cache,      \* the results cache of this bento and harness: the file's
                \* readable lines, and those of the run that goes on
    torn,       \* does the file end in part of a line?
    onto,       \* the job whose line went behind that part: {} or {j}
    snap,       \* group -> its snapshot: job -> status; None without the file
    drift,      \* what a checking run reports; None: it made no Diff
    \* the world
    present,    \* the jobs whose test is in the checkout
    stops, edits,
    \* history
    standing,   \* job -> the verdicts it got under this version, less those
                \* that a kill took
    shaky,      \* the jobs that timed out under this version
    wrote,      \* group -> the jobs of its last whole snapshot of this version
    cut,        \* the groups checkpointed after an interrupt or a torn .done
    stale       \* the groups checkpointed before an edit that leaves the
                \* checkpoint directory

scriptVars == <<script, sel, at, log, done>>
runVars    == <<run, mode, cur, planned, results, abort>>
cacheVars  == <<cache, torn, onto>>
worldVars  == <<present, edits>>
histVars   == <<standing, shaky, wrote, cut, stale>>
vars == <<script, sel, at, log, done, run, mode, cur, planned, results, abort,
          cache, torn, onto, snap, drift, present, stops, edits, standing,
          shaky, wrote, cut, stale>>

NoResults == [j \in Jobs |-> None]
Have(r)   == {j \in Jobs : r[j] # None}

Init ==
    /\ script = "down" /\ sel = {} /\ at = 1
    /\ log = [g \in Groups |-> {}]
    /\ done = [g \in Groups |-> None]
    /\ run = "none" /\ mode = "check" /\ cur = None /\ planned = {}
    /\ results = NoResults /\ abort = FALSE
    /\ cache = NoResults /\ torn = FALSE /\ onto = {}
    /\ snap = [g \in Groups |-> None]
    /\ drift = None
    /\ present = Jobs
    /\ stops = 0 /\ edits = 0
    /\ standing = [j \in Jobs |-> 0]
    /\ shaky = {} /\ cut = {} /\ stale = {}
    /\ wrote = [g \in Groups |-> None]

Stop == stops < MaxStops /\ stops' = stops + 1

-----------------------------------------------------------------------------
(***************************************************************************)
(* expect.go                                                               *)
(***************************************************************************)

\* WriteExpectations records what does not pass.
Recorded(r) == [j \in Jobs |-> IF r[j] = "pass" THEN None ELSE r[j]]

\* Slip: a job the snapshot does not list is not expected to pass.
Diff_Slip(r, exp) == {j \in Have(r) : r[j] # exp[j]}

\* Diff, both its lists: the results whose status is not the recorded one; a
\* job the snapshot does not list is expected to pass.
Diff(r, exp) ==
    LET want(j) == IF exp[j] = None THEN "pass" ELSE exp[j]
    IN  {j \in Have(r) : r[j] # want(j)}

\* LoadExpectations: no file expects everything to pass.
Loaded(g) == IF snap[g] = None THEN NoResults ELSE snap[g]

-----------------------------------------------------------------------------
(***************************************************************************)
(* The script between two groups.                                          *)
(***************************************************************************)

\* What --from and --only can leave of the order.
Selections == {Range(SubSeq(Order, n, Len(Order))) : n \in DOMAIN Order}
              \cup {{g} : g \in Groups}

Walk(s) ==
    /\ script = "down"
    /\ run = "none"
    /\ script' = "walking"
    /\ sel' = s
    /\ at' = 1
    /\ UNCHANGED <<runVars, cacheVars, snap, drift, worldVars>>

\* Slip: every start clears the checkpoints.
Launch_Slip ==
    /\ Walk(Groups)
    /\ done' = [g \in Groups |-> None]
    /\ UNCHANGED <<log, stops, histVars>>

\* run-groups.sh without arguments.
Launch == Walk(Groups) /\ UNCHANGED <<log, done, stops, histVars>>

LaunchPart ==
    /\ \E s \in Selections \ {Groups} : Walk(s)
    /\ Stop
    /\ UNCHANGED <<log, done, histVars>>

\* --reset removes the checkpoint directory first.
LaunchReset ==
    /\ Walk(Groups)
    /\ Stop
    /\ log' = [g \in Groups |-> {}]
    /\ done' = [g \in Groups |-> None]
    /\ cut' = {} /\ stale' = {}
    /\ UNCHANGED <<standing, shaky, wrote>>

\* Not selected, or the .done file exists.
Skip ==
    /\ script = "walking"
    /\ at <= Len(Order)
    /\ Order[at] \notin sel \/ done[Order[at]] # None
    /\ at' = at + 1
    /\ UNCHANGED <<script, sel, log, done, runVars, cacheVars, snap, drift,
                   worldVars, stops, histVars>>

ScriptOver == script' = "down" /\ sel' = {} /\ at' = 1

EndSweep ==
    /\ script = "walking"
    /\ at > Len(Order)
    /\ ScriptOver
    /\ UNCHANGED <<log, done, runVars, cacheVars, snap, drift, worldVars,
                   stops, histVars>>

-----------------------------------------------------------------------------
(***************************************************************************)
(* bento262 run                                                            *)
(***************************************************************************)

Runnable == planned \ Precooked

\* Slip: the run does not look into the cache.
Begin_Slip(g, m) ==
    /\ run' = "running" /\ mode' = m /\ cur' = g
    /\ planned' = Scope[g] \cap present
    /\ results' = NoResults
    /\ abort' = FALSE

\* runMain up to RunAll and RunAll's pre-pass over the cache.
Begin(g, m) ==
    /\ run' = "running" /\ mode' = m /\ cur' = g
    /\ planned' = Scope[g] \cap present
    /\ results' = [j \in Jobs |-> IF j \in planned' \ Precooked THEN cache[j]
                                                               ELSE None]
    /\ abort' = FALSE

\* The process is gone, and what it held in memory with it.
Ended ==
    /\ run' = "none" /\ mode' = "check" /\ cur' = None
    /\ planned' = {} /\ results' = NoResults /\ abort' = FALSE
    /\ drift' = None

\* The script runs the next group; tee truncates its log.
RunGroup ==
    /\ script = "walking"
    /\ at <= Len(Order)
    /\ Order[at] \in sel
    /\ done[Order[at]] = None
    /\ script' = "waiting"
    /\ Begin(Order[at], "update")
    /\ log' = [log EXCEPT ![Order[at]] = {}]
    /\ UNCHANGED <<sel, at, done, cacheVars, snap, drift, worldVars, stops, histVars>>

\* bento262 run without -update against a group's snapshot, by hand.
Check(g) ==
    /\ script = "down"
    /\ run = "none"
    /\ Begin(g, "check")
    /\ UNCHANGED <<scriptVars, cacheVars, snap, drift, worldVars, stops, histVars>>

\* The jobs RunAll has no result of.
Pending == {j \in Runnable : run = "running" /\ results[j] = None}

\* A job ends and the collector books it: Put writes its line, behind the part
\* of a line if the file ends in one.  After an interrupt the jobs in flight
\* still end.
JobEnds(j, s) ==
    /\ j \in Pending
    /\ results' = [results EXCEPT ![j] = s]
    /\ IF s = "timeout"
       THEN /\ shaky' = shaky \cup {j}
            /\ UNCHANGED <<cacheVars, standing>>
       ELSE /\ cache' = [cache EXCEPT ![j] = s]
            /\ onto' = IF torn THEN {j} ELSE onto
            /\ torn' = FALSE
            /\ standing' = [standing EXCEPT ![j] = @ + 1]
            /\ UNCHANGED shaky
    /\ UNCHANGED <<scriptVars, run, mode, cur, planned, abort, snap, drift,
                   worldVars, stops, wrote, cut, stale>>

\* The first SIGINT or SIGTERM that reaches bento262 alone, from the pre-pass
\* on to the select after Save.
Interrupt ==
    /\ run \in {"running", "returned"}
    /\ ~abort
    /\ Stop
    /\ abort' = TRUE
    /\ UNCHANGED <<scriptVars, run, mode, cur, planned, results, cacheVars, snap,
                   drift, worldVars, histVars>>

\* RunAll returns and both caches are saved.  Save rewrites the file if the run
\* added a line; a part of a line at its end was not added to then.
Return ==
    /\ run = "running"
    /\ abort \/ Pending = {}
    /\ run' = "returned"
    /\ onto' = {}
    /\ UNCHANGED <<scriptVars, mode, cur, planned, results, abort, cache, torn,
                   snap, drift, worldVars, stops, histVars>>

\* Summarize prints the TOTAL line, or none without a result.
Summarize(r) == log' = IF mode = "update" THEN [log EXCEPT ![cur] = Have(r)]
                                          ELSE log

\* The select finds abort closed: no merge, no snapshot, no Diff, status 0.
ExitInterrupted ==
    /\ run = "returned"
    /\ abort
    /\ Summarize(results)
    /\ run' = "exited"
    /\ UNCHANGED <<script, sel, at, done, mode, cur, planned, results, abort,
                   cacheVars, snap, drift, worldVars, stops, histVars>>

\* Slip: the precooked handbacks are not merged.
Merged_Slip == results

\* The results with the precooked handbacks.
Merged == [j \in Jobs |-> IF j \in planned \cap Precooked THEN "handback"
                                                         ELSE results[j]]

\* Slip: the snapshot is written before anyone looks at abort.
ExitUpdated_Slip ==
    /\ run = "returned"
    /\ mode = "update"
    /\ Summarize(Merged)
    /\ snap' = [snap EXCEPT ![cur] = Recorded(Merged)]
    /\ wrote' = [wrote EXCEPT ![cur] = planned]
    /\ run' = "exited"
    /\ UNCHANGED <<script, sel, at, done, mode, cur, planned, results, abort,
                   cacheVars, drift, worldVars, stops, standing, shaky,
                   cut, stale>>

ExitUpdated ==
    /\ run = "returned"
    /\ ~abort
    /\ mode = "update"
    /\ Summarize(Merged)
    /\ snap' = [snap EXCEPT ![cur] = Recorded(Merged)]
    /\ wrote' = [wrote EXCEPT ![cur] = planned]
    /\ run' = "exited"
    /\ UNCHANGED <<script, sel, at, done, mode, cur, planned, results, abort,
                   cacheVars, drift, worldVars, stops, standing, shaky,
                   cut, stale>>

\* A checking run reports the Diff and is over.
ExitChecked ==
    /\ run = "returned"
    /\ ~abort
    /\ mode = "check"
    /\ Summarize(Merged)
    /\ drift' = Diff(Merged, Loaded(cur))
    /\ run' = "exited"
    /\ UNCHANGED <<script, sel, at, done, mode, cur, planned, results, abort,
                   cacheVars, snap, worldVars, stops, histVars>>

EndCheck ==
    /\ run = "exited"
    /\ mode = "check"
    /\ Ended
    /\ UNCHANGED <<scriptVars, cacheVars, snap, worldVars, stops, histVars>>

-----------------------------------------------------------------------------
(***************************************************************************)
(* The script after a group.                                               *)
(***************************************************************************)

Checkpointed(g) == IF abort THEN cut \cup {g} ELSE cut

\* Status 0 and a TOTAL line: the line becomes the checkpoint.
Checkpoint ==
    /\ script = "waiting"
    /\ run = "exited"
    /\ log[cur] # {}
    /\ done' = [done EXCEPT ![cur] = log[cur]]
    /\ cut' = Checkpointed(cur)
    /\ script' = "walking"
    /\ Ended
    /\ at' = at + 1
    /\ UNCHANGED <<sel, log, cacheVars, snap, worldVars, stops, standing,
                   shaky, wrote, stale>>

\* Status 0 and no TOTAL line: grep finds nothing, and under set -e with
\* pipefail the assignment of total ends the script.
NoTotal ==
    /\ script = "waiting"
    /\ run = "exited"
    /\ log[cur] = {}
    /\ ScriptOver
    /\ Ended
    /\ UNCHANGED <<log, done, cacheVars, snap, worldVars, stops, histVars>>

Down == ScriptOver /\ Ended

\* bento262 ends with an error, which ends the script; or the script, tee and
\* bento262 are killed together, as Ctrl-C does.  The verdicts that workers had
\* given and Put had not written are gone, one of them perhaps written in part,
\* and their jobs are as if they had not run.  So is the job whose line went
\* behind such a part: no reader of the file finds it.
Killed ==
    /\ script # "down" \/ run # "none"
    /\ Stop
    /\ Down
    /\ cache' = [j \in Jobs |-> IF j \in onto THEN None ELSE cache[j]]
    /\ onto' = {}
    /\ torn' \in {torn, torn \/ Pending # {}}
    /\ standing' = [j \in Jobs |-> standing[j] - IF j \in onto THEN 1 ELSE 0]
    /\ UNCHANGED <<log, done, snap, worldVars, shaky, wrote, cut, stale>>

\* A kill while os.WriteFile writes the truncated snapshot: its first lines.
KilledWriting ==
    /\ run = "returned" /\ mode = "update" /\ ~abort
    /\ Stop
    /\ Down
    /\ \E part \in SUBSET Have(Recorded(Merged)) :
          snap' = [snap EXCEPT ![cur] =
                      [j \in Jobs |-> IF j \in part THEN Recorded(Merged)[j]
                                                    ELSE None]]
    /\ wrote' = [wrote EXCEPT ![cur] = None]
    /\ UNCHANGED <<log, done, cacheVars, worldVars, standing, shaky, cut,
                   stale>>

\* A kill after the shell created the .done file and before the line is in it.
KilledCheckpointing ==
    /\ script = "waiting" /\ run = "exited" /\ log[cur] # {}
    /\ Stop
    /\ Down
    /\ done' = [done EXCEPT ![cur] = {}]
    /\ cut' = cut \cup {cur}
    /\ UNCHANGED <<log, cacheVars, snap, worldVars, standing, shaky, wrote,
                   stale>>

-----------------------------------------------------------------------------
\* An edit of bento or of the harness starts another results file.
NewVersion ==
    /\ script = "down" /\ run = "none"
    /\ edits < MaxEdits
    /\ edits' = edits + 1
    /\ cache' = NoResults /\ torn' = FALSE /\ onto' = {}
    /\ standing' = [j \in Jobs |-> 0]
    /\ shaky' = {}
    /\ wrote' = [g \in Groups |-> None]
    /\ UNCHANGED <<script, sel, at, runVars, snap, drift, present, stops>>

\* rev-parse or git diff of the bento checkout shows the edit: the script finds
\* another checkpoint directory.  The snapshots stay.
Bump ==
    /\ NewVersion
    /\ log' = [g \in Groups |-> {}]
    /\ done' = [g \in Groups |-> None]
    /\ cut' = {} /\ stale' = {}

\* They do not: a staged edit or a new file of bento, which moduleFingerprint
\* hashes, or an edit of the harness or a port.  The checkpoints stay.
BumpUnseen ==
    /\ NewVersion
    /\ stale' = {g \in Groups : done[g] # None}
    /\ UNCHANGED <<log, done, cut>>

\* The checkout loses a test.
Repin ==
    /\ script = "down" /\ run = "none"
    /\ edits < MaxEdits
    /\ edits' = edits + 1
    /\ \E j \in present : present' = present \ {j}
    /\ UNCHANGED <<scriptVars, runVars, cacheVars, snap, drift, stops, histVars>>

JobStep == \E j \in Jobs, s \in Verdicts \cup {"timeout"} : JobEnds(j, s)

RunStep == Return \/ ExitInterrupted \/ ExitUpdated \/ ExitChecked \/ EndCheck

ScriptStep == Skip \/ EndSweep \/ RunGroup \/ Checkpoint \/ NoTotal

Next ==
    \/ Launch \/ LaunchPart \/ LaunchReset
    \/ ScriptStep \/ JobStep \/ RunStep
    \/ \E g \in Groups : Check(g)
    \/ Interrupt \/ Killed \/ KilledWriting \/ KilledCheckpointing
    \/ Bump \/ BumpUnseen \/ Repin

Spec == Init /\ [][Next]_vars

(***************************************************************************)
(* The script and bento262 go on; a job ends, by its deadline if not       *)
(* before; and whoever sweeps the corpus runs the command again until it   *)
(* is done, as the script's message asks ("rerun to resume here").         *)
(***************************************************************************)
Fairness ==
    /\ WF_vars(ScriptStep) /\ WF_vars(RunStep) /\ WF_vars(JobStep)
    /\ SF_vars(Launch)

FairSpec == Spec /\ Fairness

-----------------------------------------------------------------------------
\* Through interrupts, kills, resets and overlapping groups, a job that has a
\* verdict under this bento and harness is not run again, because the cache
\* RunAll's pre-pass reads answers it: it runs again only after a kill took the
\* verdict before its line was written, or with the part of a line it follows.
NoJobRunsTwice == \A j \in Jobs : standing[j] <= 1

\* A group with a checkpoint has run to its end: the checkpoint counts every
\* job of the group, precooked ones included, and the snapshot is a whole one
\* of this bento and harness.  Three cases are left out: the run was
\* interrupted, which exits 0 all the same, or the .done file is torn (cut), or
\* the checkpoint is older than an edit that its directory's name does not show
\* (stale).
DoneGroupsAreComplete ==
    \A g \in Groups \ (cut \cup stale) :
        done[g] # None => wrote[g] # None /\ done[g] = wrote[g]

\* A whole snapshot agrees with the cache whatever happened since, another
\* group that shares jobs with it included: it lists each job of the group that
\* failed, no job that passed, and no job that had left the corpus.
SnapshotAgreesWithCache ==
    \A g \in Groups : wrote[g] # None =>
        \A j \in Jobs :
            /\ snap[g][j] # None => j \in wrote[g]
            /\ j \in wrote[g] \ (Precooked \cup shaky) =>
                  /\ cache[j] # None
                  /\ snap[g][j] = IF cache[j] = "pass" THEN None ELSE cache[j]

\* Right after the snapshot is recorded a checking run of the same bento finds
\* no drift, but for jobs that timed out at one time and not at the other.
CheckHoldsAfterUpdate ==
    drift # None /\ wrote[cur] # None => drift \subseteq shaky

AllDone == \A g \in Groups : done[g] # None

\* Rerun often enough, a sweep that is disturbed finitely often checkpoints
\* every group, as long as no group is without a test.
SweepCompletes ==
    [](\A g \in Groups : Scope[g] \cap present # {}) => <>[]AllDone

\* The same of any group: a run without a TOTAL line is checkpointed as
\* "(no TOTAL line; see $s.log)" and the sweep goes on.
EmptyGroupIsCheckpointed == <>[]AllDone
=============================================================================
