---------------------------- MODULE Orchestrator ----------------------------
(***************************************************************************)
(* RunAll and workerLoop of pkg/tc39/orchestrator.go: the feeder           *)
(* goroutine, one goroutine per worker slot, the subprocess each slot owns *)
(* and the collector, joined by the two unbuffered channels jobCh and      *)
(* resCh.  A rendezvous on a channel is one step of both its ends.         *)
(*                                                                         *)
(* The names ending in _Slip are deliberate slips in one definition each;  *)
(* nothing in the specification uses them.                                 *)
(***************************************************************************)
EXTENDS Naturals, FiniteSets

CONSTANTS
    Jobs,       \* the jobs of the run, one per job ID
    Slots,      \* the worker goroutines, opts.Workers of them
    MaxJobs,    \* opts.MaxJobsPerWorker; 0 disables recycling
    Verdicts,   \* the cacheable statuses: pass, fail, handback
    TailKeys,   \* digests of emitted Go
    TailOf,     \* [Jobs -> TailKeys]: the key a job's emitted Go hashes to
    Big,        \* the jobs whose JSON line overflows the stdin pipe's buffer
    None,       \* nothing: nil, an empty pipe, no entry
    Garbled     \* a line of output that does not parse as a Result

Transient == {"crash", "timeout"}
Statuses  == Verdicts \cup Transient
Answers   == [id : Jobs, status : Statuses, tk : TailKeys \cup {None}]

ASSUME OrchestratorAssumption ==
    /\ MaxJobs \in Nat
    /\ Verdicts \cap Transient = {}
    /\ TailOf \in [Jobs -> TailKeys]
    /\ Big \subseteq Jobs
    /\ None \notin Jobs \cup Statuses \cup Answers \cup TailKeys
    /\ Garbled \notin Answers \cup {None}

VARIABLES
    \* the feeder goroutine
    pending,    \* the jobs of todo not yet sent on jobCh
    feeder,     \* "feeding", then "closed" (jobCh), then "done" (resCh too)
    \* the worker goroutines
    pc,         \* where slot i's workerLoop is
    cur,        \* its j
    out,        \* its res, while it waits to send it on resCh
    served,     \* its served counter
    inflight,   \* the IDs in the shared sync.Map
    \* the subprocess slot i owns
    proc,       \* "none", "starting", "live", "dead"
    stdin,      \* a job line it has not answered yet
    stdout,     \* the line it has written that nobody has scanned
    \* the collector, which is RunAll's own goroutine, and its caller
    results,    \* the map RunAll returns
    cache,      \* opts.Cache's entries; JobKey hashes the ID in, so per job
    tail,       \* opts.TailCache's entries, per tail key
    abort,      \* opts.Abort is closed
    report,     \* the jobs the stillRunning report names on the way out
    returned,   \* RunAll has returned
    \* history: what the code does not record
    loaded,     \* the tail cache as LoadTailCache read it from disk
    ran,        \* the status some subprocess computed for a job
    load        \* the jobs the current subprocess of a slot has executed

feederVars == <<pending, feeder>>
slotVars   == <<pc, cur, out, served, inflight>>
procVars   == <<proc, stdin, stdout>>
runVars    == <<results, cache, tail, loaded>>
callerVars == <<abort, report, returned>>
vars == <<pending, feeder, pc, cur, out, served, inflight, proc, stdin,
          stdout, results, cache, tail, loaded, abort, report, returned, ran,
          load>>

(***************************************************************************)
(* RunAll up to the spawn of the goroutines.  The pre-pass moves every job *)
(* the cache answers into results; with nothing left to do RunAll returns  *)
(* before any goroutine exists.  The tail cache is whatever the last runs  *)
(* left in tail.ndjson.                                                    *)
(***************************************************************************)
Init ==
    /\ cache \in [Jobs -> Verdicts \cup {None}]
    /\ results = cache
    /\ ran = cache
    /\ pending = {j \in Jobs : cache[j] = None}
    /\ returned = (pending = {})
    /\ feeder = IF pending = {} THEN "done" ELSE "feeding"
    /\ pc = [i \in Slots |-> IF pending = {} THEN "exited" ELSE "idle"]
    /\ cur = [i \in Slots |-> None]
    /\ out = [i \in Slots |-> None]
    /\ served = [i \in Slots |-> 0]
    /\ inflight = {}
    /\ proc = [i \in Slots |-> "none"]
    /\ stdin = [i \in Slots |-> None]
    /\ stdout = [i \in Slots |-> None]
    /\ tail \in [TailKeys -> Verdicts \cup {None}]
    /\ loaded = tail
    /\ abort = FALSE
    /\ report = {}
    /\ load = [i \in Slots |-> 0]

-----------------------------------------------------------------------------
(***************************************************************************)
(* The feeder.                                                             *)
(***************************************************************************)

\* jobCh <- j meets slot i's range over jobs.  The select does not prefer
\* the closed abort channel, so a closed abort does not disable this step.
HandOut(i, j) ==
    /\ feeder = "feeding"
    /\ j \in pending
    /\ pc[i] = "idle"
    /\ pending' = pending \ {j}
    /\ cur' = [cur EXCEPT ![i] = j]
    /\ pc' = [pc EXCEPT ![i] = IF proc[i] = "none" THEN "spawn" ELSE "store"]
    /\ UNCHANGED <<feeder, out, served, inflight, procVars, runVars,
                   callerVars, ran, load>>

\* Slip: the feeder gives up although nobody asked it to.
StopFeeding_Slip ==
    /\ feeder = "feeding"
    /\ feeder' = "closed"
    /\ UNCHANGED <<pending, slotVars, procVars, runVars, callerVars, ran, load>>

\* Slip: the channel is closed on the abort path only.
StopFeedingAborted_Slip ==
    /\ feeder = "feeding"
    /\ abort
    /\ feeder' = "closed"
    /\ UNCHANGED <<pending, slotVars, procVars, runVars, callerVars, ran, load>>

\* close(jobCh): the jobs are used up, or the select took the abort case.
StopFeeding ==
    /\ feeder = "feeding"
    /\ pending = {} \/ abort
    /\ feeder' = "closed"
    /\ UNCHANGED <<pending, slotVars, procVars, runVars, callerVars, ran, load>>

\* wg.Wait returns and resCh is closed.
CloseResults ==
    /\ feeder = "closed"
    /\ \A i \in Slots : pc[i] = "exited"
    /\ feeder' = "done"
    /\ UNCHANGED <<pending, slotVars, procVars, runVars, callerVars, ran, load>>

-----------------------------------------------------------------------------
(***************************************************************************)
(* workerLoop and the worker it drives.                                    *)
(***************************************************************************)

\* w.kill() and w = nil: the subprocess is gone and so are its pipes.
Kill(i) ==
    /\ proc' = [proc EXCEPT ![i] = "none"]
    /\ stdin' = [stdin EXCEPT ![i] = None]
    /\ stdout' = [stdout EXCEPT ![i] = None]
    /\ load' = [load EXCEPT ![i] = 0]

\* The loop's next stop is results <- r.
Deliver(i, r) ==
    /\ out' = [out EXCEPT ![i] = r]
    /\ pc' = [pc EXCEPT ![i] = "deliver"]

\* The Result send or workerLoop makes up for a job that got no answer.
Blame(i, s) == [id |-> cur[i], status |-> s, tk |-> None]

SpawnOK(i) ==
    /\ pc[i] = "spawn"
    /\ proc' = [proc EXCEPT ![i] = "starting"]
    /\ served' = [served EXCEPT ![i] = 0]
    /\ pc' = [pc EXCEPT ![i] = "store"]
    /\ UNCHANGED <<feederVars, cur, out, inflight, stdin, stdout, runVars,
                   callerVars, ran, load>>

\* Slip: the loop goes on to the next job without delivering the crash.
SpawnFailsSilent_Slip(i) ==
    /\ pc[i] = "spawn"
    /\ cur' = [cur EXCEPT ![i] = None]
    /\ pc' = [pc EXCEPT ![i] = "idle"]
    /\ UNCHANGED <<feederVars, out, served, inflight, procVars, runVars,
                   callerVars, ran, load>>

\* spawnWorker fails: the job is a crash and the loop goes on.
SpawnFails(i) ==
    /\ pc[i] = "spawn"
    /\ Deliver(i, Blame(i, "crash"))
    /\ UNCHANGED <<feederVars, cur, served, inflight, procVars, runVars,
                   callerVars, ran, load>>

\* inflight.Store(j.ID, time.Now())
Store(i) ==
    /\ pc[i] = "store"
    /\ inflight' = inflight \cup {cur[i]}
    /\ pc' = [pc EXCEPT ![i] = "write"]
    /\ UNCHANGED <<feederVars, cur, out, served, procVars, runVars,
                   callerVars, ran, load>>

\* send writes the job line.  A line that fits the pipe's buffer goes through
\* at once; a bigger one needs the subprocess to have begun to read.
Write(i) ==
    /\ pc[i] = "write"
    /\ proc[i] \in IF cur[i] \in Big THEN {"live"} ELSE {"starting", "live"}
    /\ stdin' = [stdin EXCEPT ![i] = cur[i]]
    /\ pc' = [pc EXCEPT ![i] = "await"]
    /\ UNCHANGED <<feederVars, cur, out, served, inflight, proc, stdout,
                   runVars, callerVars, ran, load>>

\* send came back with ok = false: the job leaves the inflight map, the
\* worker is killed and dropped, the made-up result goes out.
SendFailed(i, s) ==
    /\ inflight' = inflight \ {cur[i]}
    /\ Kill(i)
    /\ Deliver(i, Blame(i, s))
    /\ UNCHANGED <<feederVars, cur, served, runVars, callerVars, ran>>

\* The subprocess is gone and the write returns EPIPE.
WriteFails(i) ==
    /\ pc[i] = "write"
    /\ proc[i] = "dead"
    /\ SendFailed(i, "crash")

\* Slip: the recycling test is served > maxJobs.
RecycleDue_Slip(n) == MaxJobs > 0 /\ n > MaxJobs

RecycleDue(n) == MaxJobs > 0 /\ n >= MaxJobs

\* Slip: the job of a good answer stays in the inflight map.
Answered_Slip(i) ==
    /\ pc[i] = "await"
    /\ stdout[i] \in Answers
    /\ served' = [served EXCEPT ![i] = @ + 1]
    /\ Deliver(i, stdout[i])
    /\ IF RecycleDue(served[i] + 1)
       THEN Kill(i)
       ELSE /\ stdout' = [stdout EXCEPT ![i] = None]
            /\ UNCHANGED <<proc, stdin, load>>
    /\ UNCHANGED <<feederVars, cur, inflight, runVars, callerVars, ran>>

\* The scanner delivers an answer before the deadline.  The result is the
\* subprocess's own, its ID included.
Answered(i) ==
    /\ pc[i] = "await"
    /\ stdout[i] \in Answers
    /\ inflight' = inflight \ {cur[i]}
    /\ served' = [served EXCEPT ![i] = @ + 1]
    /\ Deliver(i, stdout[i])
    /\ IF RecycleDue(served[i] + 1)
       THEN Kill(i)
       ELSE /\ stdout' = [stdout EXCEPT ![i] = None]
            /\ UNCHANGED <<proc, stdin, load>>
    /\ UNCHANGED <<feederVars, cur, runVars, callerVars, ran>>

\* The scanner sees end of file, or a line that is no Result.
ScanFails(i) ==
    /\ pc[i] = "await"
    /\ stdout[i] = Garbled \/ (stdout[i] = None /\ proc[i] = "dead")
    /\ SendFailed(i, "crash")

\* Slip: the deadline passes and the subprocess is kept for the next job.
TimedOutNoKill_Slip(i) ==
    /\ pc[i] = "await"
    /\ inflight' = inflight \ {cur[i]}
    /\ Deliver(i, Blame(i, "timeout"))
    /\ UNCHANGED <<feederVars, cur, served, procVars, load, runVars,
                   callerVars, ran>>

\* Slip: a job that missed its deadline is put back to be run again.
TimedOutRetry_Slip(i) ==
    /\ pc[i] = "await"
    /\ inflight' = inflight \ {cur[i]}
    /\ Kill(i)
    /\ pending' = pending \cup {cur[i]}
    /\ cur' = [cur EXCEPT ![i] = None]
    /\ pc' = [pc EXCEPT ![i] = "idle"]
    /\ UNCHANGED <<feeder, out, served, runVars, callerVars, ran>>

\* Slip: the deadline only ends the wait for a subprocess that is dead.
TimedOutDead_Slip(i) ==
    /\ pc[i] = "await"
    /\ proc[i] = "dead"
    /\ SendFailed(i, "timeout")

\* The deadline passes; an answer may be waiting, and the select may still
\* take this case.
TimedOut(i) ==
    /\ pc[i] = "await"
    /\ SendFailed(i, "timeout")

\* Slip: the deferred kill is forgotten.
Exit_Slip(i) ==
    /\ pc[i] = "idle"
    /\ feeder = "closed"
    /\ pc' = [pc EXCEPT ![i] = "exited"]
    /\ UNCHANGED <<feederVars, cur, out, served, inflight, procVars, load,
                   runVars, callerVars, ran>>

\* jobCh is closed: the loop ends and its deferred function kills the worker.
Exit(i) ==
    /\ pc[i] = "idle"
    /\ feeder = "closed"
    /\ pc' = [pc EXCEPT ![i] = "exited"]
    /\ Kill(i)
    /\ UNCHANGED <<feederVars, cur, out, served, inflight, runVars,
                   callerVars, ran>>

-----------------------------------------------------------------------------
(***************************************************************************)
(* The subprocess: WorkerMain of pkg/tc39/worker.go.                       *)
(***************************************************************************)

\* Environment read and tail cache loaded; it begins to scan its input.
Ready(i) ==
    /\ proc[i] = "starting"
    /\ proc' = [proc EXCEPT ![i] = "live"]
    /\ UNCHANGED <<feederVars, slotVars, stdin, stdout, runVars, callerVars,
                   ran, load>>

\* One turn of its loop.  ExecuteAOT stamps the job's ID on whatever it
\* returns; a crash or timeout of its own is an answer like any other.
Execute(i) ==
    /\ proc[i] = "live"
    /\ stdin[i] # None
    /\ \E s \in Statuses, tk \in {None, TailOf[stdin[i]]} :
         /\ stdout' = [stdout EXCEPT ![i] =
                         [id |-> stdin[i], status |-> s, tk |-> tk]]
         /\ ran' = [ran EXCEPT ![stdin[i]] = s]
    /\ stdin' = [stdin EXCEPT ![i] = None]
    /\ load' = [load EXCEPT ![i] = @ + 1]
    /\ UNCHANGED <<feederVars, slotVars, proc, runVars, callerVars>>

\* It dies (an OOM kill, a startup error, the terminal's SIGINT), busy or not;
\* what it has already written stays readable.
Die(i) ==
    /\ proc[i] \in {"starting", "live"}
    /\ proc' = [proc EXCEPT ![i] = "dead"]
    /\ UNCHANGED <<feederVars, slotVars, stdin, stdout, runVars, callerVars,
                   ran, load>>

\* It dies in the middle of writing its answer.
DieWriting(i) ==
    /\ proc[i] = "live"
    /\ stdin[i] # None
    /\ proc' = [proc EXCEPT ![i] = "dead"]
    /\ stdin' = [stdin EXCEPT ![i] = None]
    /\ stdout' = [stdout EXCEPT ![i] = Garbled]
    /\ UNCHANGED <<feederVars, slotVars, runVars, callerVars, ran, load>>

-----------------------------------------------------------------------------
(***************************************************************************)
(* The collector and the caller.                                           *)
(***************************************************************************)

\* Slip: Put lets every status in.
Put_Slip(entries, key, s) == IF entries[key] # None
                             THEN entries ELSE [entries EXCEPT ![key] = s]

\* Slip: Put keeps the passes only.
PutPasses_Slip(entries, key, s) ==
    IF s # "pass" \/ entries[key] # None
    THEN entries
    ELSE [entries EXCEPT ![key] = s]

\* Cache.Put: transient statuses stay out and the first entry of a key stays.
Put(entries, key, s) ==
    IF s \in Transient \/ entries[key] # None
    THEN entries
    ELSE [entries EXCEPT ![key] = s]

\* results <- res meets range resCh: the map, then both caches.
Collect(i) ==
    /\ pc[i] = "deliver"
    /\ ~returned
    /\ LET r == out[i] IN
         /\ results' = [results EXCEPT ![r.id] = r.status]
         /\ cache' = Put(cache, r.id, r.status)
         /\ tail' = IF r.tk = None THEN tail ELSE Put(tail, r.tk, r.status)
    /\ out' = [out EXCEPT ![i] = None]
    /\ cur' = [cur EXCEPT ![i] = None]
    /\ pc' = [pc EXCEPT ![i] = "idle"]
    /\ UNCHANGED <<feederVars, served, inflight, procVars, loaded, callerVars,
                   ran, load>>

\* range resCh ends; the stillRunning report is made and RunAll returns.
Return ==
    /\ feeder = "done"
    /\ ~returned
    /\ report' = inflight
    /\ returned' = TRUE
    /\ UNCHANGED <<feederVars, slotVars, procVars, runVars, abort, ran, load>>

\* The caller closes opts.Abort.
Interrupt ==
    /\ ~abort /\ ~returned
    /\ abort' = TRUE
    /\ UNCHANGED <<feederVars, slotVars, procVars, runVars, report, returned,
                   ran, load>>

-----------------------------------------------------------------------------
FeederStep == StopFeeding \/ CloseResults

SlotStep(i) ==
    \/ SpawnOK(i) \/ SpawnFails(i) \/ Store(i)
    \/ Write(i) \/ WriteFails(i)
    \/ Answered(i) \/ ScanFails(i) \/ TimedOut(i)
    \/ Exit(i)

ProcessStep(i) == Ready(i) \/ Execute(i) \/ Die(i) \/ DieWriting(i)

\* RunAll has returned; nothing of the run is left to happen.
Finished == returned /\ UNCHANGED vars

Next ==
    \/ \E i \in Slots : \E j \in Jobs : HandOut(i, j)
    \/ FeederStep
    \/ \E i \in Slots : SlotStep(i) \/ ProcessStep(i) \/ Collect(i)
    \/ Return
    \/ Interrupt
    \/ Finished

Spec == Init /\ [][Next]_vars

(***************************************************************************)
(* Goroutines that can run do run, and a started timer fires.  Nothing is  *)
(* assumed of the subprocess: it need never start, answer or die.          *)
(***************************************************************************)
Fairness ==
    /\ WF_vars(\E i \in Slots, j \in Jobs : HandOut(i, j))
    /\ WF_vars(FeederStep)
    /\ \A i \in Slots : WF_vars(SlotStep(i)) /\ WF_vars(Collect(i))
    /\ WF_vars(Return)

FairSpec == Spec /\ Fairness

-----------------------------------------------------------------------------
(***************************************************************************)
(* Properties.                                                             *)
(***************************************************************************)

\* Every variable of RunAll, workerLoop and the subprocess has its type.
TypeOK ==
    /\ pending \subseteq Jobs
    /\ feeder \in {"feeding", "closed", "done"}
    /\ pc \in [Slots -> {"idle", "spawn", "store", "write", "await",
                         "deliver", "exited"}]
    /\ cur \in [Slots -> Jobs \cup {None}]
    /\ out \in [Slots -> Answers \cup {None}]
    /\ served \in [Slots -> Nat]
    /\ inflight \subseteq Jobs
    /\ proc \in [Slots -> {"none", "starting", "live", "dead"}]
    /\ stdin \in [Slots -> Jobs \cup {None}]
    /\ stdout \in [Slots -> Answers \cup {None, Garbled}]
    /\ results \in [Jobs -> Statuses \cup {None}]
    /\ cache \in [Jobs -> Verdicts \cup {None}]
    /\ tail \in [TailKeys -> Verdicts \cup {None}]
    /\ loaded \in [TailKeys -> Verdicts \cup {None}]
    /\ abort \in BOOLEAN
    /\ report \subseteq Jobs
    /\ returned \in BOOLEAN
    /\ ran \in [Jobs -> Statuses \cup {None}]
    /\ load \in [Slots -> Nat]

\* A job is always in exactly one place: waiting to be fed, held by one worker
\* goroutine, or recorded.  Timeouts, dead workers, recycling and failed
\* spawns neither lose a job nor hand it to two workers.
NoJobLostOrDuplicated ==
    \A j \in Jobs :
        \/ /\ j \in pending /\ results[j] = None
           /\ \A i \in Slots : cur[i] # j
        \/ /\ j \notin pending /\ results[j] = None
           /\ \E i \in Slots :
                 cur[i] = j /\ \A k \in Slots \ {i} : cur[k] # j
        \/ /\ j \notin pending /\ results[j] # None
           /\ \A i \in Slots : cur[i] # j

\* An answer is recorded for the job that was asked.  results is keyed by the
\* ID in the answer, so an answer left in a pipe by an earlier job would be
\* booked on that job and the asking job would be lost; and no verdict is
\* recorded that some subprocess did not compute for that very job.
RightVerdict ==
    /\ \A i \in Slots : out[i] # None => out[i].id = cur[i]
    /\ \A j \in Jobs : results[j] \in Verdicts => results[j] = ran[j]

\* A subprocess never executes more than MaxJobsPerWorker jobs, which is what
\* bounds its resident set.
RecycleBound ==
    MaxJobs > 0 => \A i \in Slots : load[i] <= MaxJobs

\* The inflight map holds exactly the jobs between their Store and the end of
\* their send: the watchdog and the janitor's cutoff see every job on a
\* subprocess and no other.
InflightIsExact ==
    inflight = {cur[i] : i \in {k \in Slots : pc[k] \in {"write", "await"}}}

\* When RunAll returns, every subprocess has been killed and reaped, every
\* worker goroutine is gone and no job is in flight; a run nobody interrupted
\* has an outcome for every job.  (Of the jobs the stillRunning report names
\* nothing is said here.)
CleanReturn ==
    returned =>
        /\ \A i \in Slots : pc[i] = "exited" /\ proc[i] = "none"
        /\ inflight = {}
        /\ abort \/ \A j \in Jobs : results[j] # None

\* The caches hold what a rerun may replay and nothing else: the results cache
\* has an entry for a job exactly when its recorded outcome is a verdict, and
\* the same one; a tail entry that was loaded from disk is still the one that
\* was loaded, and a new one is the verdict of some job with that emitted Go.
CachesMatchResults ==
    /\ \A j \in Jobs :
          cache[j] = IF results[j] \in Verdicts THEN results[j] ELSE None
    /\ \A k \in TailKeys :
          IF loaded[k] # None
          THEN tail[k] = loaded[k]
          ELSE tail[k] # None =>
                 \E j \in Jobs : TailOf[j] = k /\ results[j] = tail[k]

\* A job runs to an answer at most once: an answer that lost the race against
\* the deadline does not lead to a second execution.
RunsAtMostOnce ==
    [][\A j \in Jobs : ran[j] # None => ran'[j] = ran[j]]_vars

\* RunAll implements the job board: each outcome is recorded once and for
\* good, and the map is returned full unless the run was told to stop.
Board == INSTANCE JobBoard WITH outcome <- results, stopping <- abort
ImplementsBoard == Board!BoardSpec

\* Every run ends, whatever the subprocesses do: a hung one is cut off by the
\* deadline, a dead one is noticed, and the drain after an interrupt finishes.
Terminates == <>returned

\* A send that has begun ends (the comment on send: "send runs one job on the
\* subprocess with a deadline").
SendEnds ==
    \A i \in Slots : pc[i] \in {"write", "await"} ~> pc[i] = "deliver"
=============================================================================
