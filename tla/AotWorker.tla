------------------------------ MODULE AotWorker ------------------------------
(***************************************************************************)
(* One worker subprocess at work: WorkerMain (pkg/tc39/worker.go) feeding  *)
(* jobs to ExecuteAOT, compileGo and judgeRun (pkg/tc39/aot.go), with the  *)
(* tail cache it consults, the directories it leaves on disk, and the two  *)
(* things that disturb it: a SIGKILL from the orchestrator at any moment,  *)
(* and a machine that fails a go build or kills a test binary.             *)
(*                                                                         *)
(* A job is reduced to what the pipeline can tell apart about its program. *)
(* The compiler, the go toolchain and the test binary are external: a      *)
(* program's fields say what each of them does with it.                    *)
(*                                                                         *)
(* The names ending in _Slip are deliberate slips in one definition each;  *)
(* nothing in the specification uses them.                                 *)
(***************************************************************************)
EXTENDS Naturals, FiniteSets

CONSTANTS
    Programs,   \* the programs of the instance, a subset of Universe
    MaxJobs,    \* bound: jobs taken
    MaxRuns,    \* bound: runs of the whole harness
    MaxKills,   \* bound: SIGKILLs of a busy worker
    MaxFaults,  \* bound: builds and binaries the machine fails
    None

Universe ==
    {p \in [front : {"lowers", "declines", "rejects", "panics"},
            neg : {"none", "early", "runtime"},
            compiles : BOOLEAN,
            ends : {"clean", "dies", "hangs"},
            names : BOOLEAN,            \* its output names the expected error
            async : BOOLEAN,
            completes : BOOLEAN] :      \* it prints the completion line
        \* what a program that is never built or run would do is not a fact
        p.front # "lowers" \/ ~p.compiles =>
            p.ends = "clean" /\ ~p.names /\ ~p.async /\ ~p.completes
            /\ (p.front # "lowers" => p.compiles)}

ASSUME AotWorkerAssumption ==
    /\ Programs \subseteq Universe
    /\ MaxJobs \in Nat /\ MaxRuns \in Nat /\ MaxKills \in Nat
    /\ MaxFaults \in Nat
    /\ None \notin Universe

(***************************************************************************)
(* The reference: the status the repository's README ("What counts as a    *)
(* pass") and the header of aot.go give a program, from the test's demands *)
(* alone.  A test that fails early (parse, resolution) is to be rejected   *)
(* before it runs, so no way of running earns it a pass.                   *)
(***************************************************************************)
Behaves(p) ==
    \/ p.neg = "none" /\ p.ends = "clean" /\ (p.async => p.completes)
    \/ p.neg = "runtime" /\ p.ends = "dies" /\ p.names

Truth(p) ==
    CASE p.front = "panics"   -> "crash"
      [] p.front = "declines" -> "handback"
      [] p.front = "rejects"  -> IF p.neg = "early" THEN "pass" ELSE "handback"
      [] p.front = "lowers"   ->
            IF ~p.compiles THEN "fail"
            ELSE IF p.ends = "hangs" THEN "timeout"
            ELSE IF Behaves(p) THEN "pass" ELSE "fail"

\* A test to be rejected early that was built all the same, ran, and died with
\* the name of the expected error in its output.
LateDeath(p) ==
    p.front = "lowers" /\ p.compiles /\ p.neg = "early" /\ p.ends = "dies" /\ p.names

VARIABLES
    pc,         \* "idle", "staged", "lowered", "building", "built"
    prog,       \* the program of the job at hand
    dir,        \* the number its scratch and build directories are named by
    scratch,    \* scratch directories in the temporary directory
    stubs,      \* build directories in the staged module root
    tail,       \* the orchestrator's tail cache: a set of <<program, status>>
    known,      \* the snapshot of it the worker loaded when it started
    last,       \* the last answer: <<program, status>>, or None
    tainted,    \* history: the machine failed a step of a program's job
    jobs, runs, kills, faults,
    orphaned    \* history: kills since the last SweepBuildDirs

dirs   == <<scratch, stubs>>
counts == <<jobs, runs, kills, faults, orphaned>>
vars   == <<pc, prog, dir, scratch, stubs, tail, known, last, tainted, jobs,
            runs, kills, faults, orphaned>>

Init ==
    /\ pc = "idle" /\ prog = None /\ dir = 0
    /\ scratch = {} /\ stubs = {}
    /\ tail = {} /\ known = {} /\ last = None /\ tainted = {}
    /\ jobs = 0 /\ runs = 1 /\ kills = 0 /\ faults = 0 /\ orphaned = 0

-----------------------------------------------------------------------------
\* TailKey hashes the emitted Go and the judge's metadata; programs that share
\* both are one program here.  The worker asks its snapshot.
Hits(p) == {e \in known : e[1] = p}

\* The orchestrator's TailCache.Put, for an answer that carries a key.
Recorded(p, s) ==
    IF p.front # "lowers" \/ s \in {"crash", "timeout"}
       \/ \E e \in tail : e[1] = p
    THEN tail
    ELSE tail \cup {<<p, s>>}

\* ExecuteAOT returns: the answer goes out, and the deferred calls remove the
\* job's build directory and its scratch.
Finish(p, s) ==
    /\ last' = <<p, s>>
    /\ tail' = Recorded(p, s)
    /\ scratch' = scratch \ {dir}
    /\ stubs' = stubs \ {dir}
    /\ pc' = "idle" /\ prog' = None
    /\ UNCHANGED <<dir, known, jobs, runs, kills, orphaned>>

\* A job line arrives; the scratch is made and the job staged into it.
Begin(p) ==
    /\ pc = "idle"
    /\ jobs < MaxJobs
    /\ jobs' = jobs + 1
    /\ dir' = jobs + 1
    /\ scratch' = scratch \cup {jobs + 1}
    /\ prog' = p
    /\ pc' = "staged"
    /\ UNCHANGED <<stubs, tail, known, last, tainted, runs, kills, faults,
                   orphaned>>

\* MkdirTemp or stageJob fails; nothing stays behind.
BeginFails(p) ==
    /\ pc = "idle"
    /\ jobs < MaxJobs
    /\ faults < MaxFaults
    /\ jobs' = jobs + 1
    /\ faults' = faults + 1
    /\ tainted' = tainted \cup {p}
    /\ last' = <<p, "crash">>
    /\ UNCHANGED <<pc, prog, dir, dirs, tail, known, runs, kills, orphaned>>

\* Slip: a rejected program passes whatever phase its test expects to fail in.
FrontStatus_Slip(p) ==
    CASE p.front = "panics"   -> "crash"
      [] p.front = "declines" -> "handback"
      [] p.front = "rejects"  -> IF p.neg # "none" THEN "pass" ELSE "handback"

\* build.Compile did not emit Go: a recovered panic, NotYetLowerable, or some
\* other error, which is what an early negative test asks for.
FrontStatus(p) ==
    CASE p.front = "panics"   -> "crash"
      [] p.front = "declines" -> "handback"
      [] p.front = "rejects"  -> IF p.neg = "early" THEN "pass" ELSE "handback"

CompileStops ==
    /\ pc = "staged"
    /\ prog.front # "lowers"
    /\ Finish(prog, FrontStatus(prog))
    /\ UNCHANGED <<tainted, faults>>

Compile ==
    /\ pc = "staged"
    /\ prog.front = "lowers"
    /\ pc' = "lowered"
    /\ UNCHANGED <<prog, dir, dirs, tail, known, last, tainted, counts>>

\* tail.Get answers: no build and no run.
Replay ==
    /\ pc = "lowered"
    /\ \E e \in Hits(prog) : Finish(prog, e[2])
    /\ UNCHANGED <<tainted, faults>>

\* compileGo writes main.go into the build directory and starts go build.
StartBuild ==
    /\ pc = "lowered"
    /\ Hits(prog) = {}
    /\ stubs' = stubs \cup {dir}
    /\ pc' = "building"
    /\ UNCHANGED <<prog, dir, scratch, tail, known, last, tainted, counts>>

BuildSucceeds ==
    /\ pc = "building"
    /\ prog.compiles
    /\ pc' = "built"
    /\ UNCHANGED <<prog, dir, dirs, tail, known, last, tainted, counts>>

\* go build exits with an error: the emitted Go does not compile.
BuildRefuses ==
    /\ pc = "building"
    /\ ~prog.compiles
    /\ Finish(prog, "fail")
    /\ UNCHANGED <<tainted, faults>>

\* The machine fails the step: a full disk, an OOM kill, the two minutes.
Fault ==
    /\ faults < MaxFaults
    /\ faults' = faults + 1
    /\ tainted' = tainted \cup {prog}

\* go build fails for a reason of the machine's; compileGo returns an error all
\* the same.
BuildFaults ==
    /\ pc = "building"
    /\ Fault
    /\ Finish(prog, "fail")

\* Slip: the judge looks at the exit code of an async test only.
RunStatus_Slip(p, end, names, completes) ==
    CASE end = "hangs" -> "timeout"
      [] end # "hangs" /\ p.neg # "none" ->
            IF end = "dies" /\ names THEN "pass" ELSE "fail"
      [] end # "hangs" /\ p.neg = "none" ->
            IF end = "clean" THEN "pass" ELSE "fail"

\* judgeRun on how the binary ended and what it printed.
RunStatus(p, end, names, completes) ==
    CASE end = "hangs" -> "timeout"
      [] end # "hangs" /\ p.neg # "none" ->
            IF end = "dies" /\ names THEN "pass" ELSE "fail"
      [] end # "hangs" /\ p.neg = "none" ->
            IF end = "clean" /\ (p.async => completes) THEN "pass" ELSE "fail"

Judge ==
    /\ pc = "built"
    /\ Finish(prog, RunStatus(prog, prog.ends, prog.names, prog.completes))
    /\ UNCHANGED <<tainted, faults>>

\* The machine kills the binary or starves it past its budget, before or after
\* it has printed what it prints.
RunFaults ==
    /\ pc = "built"
    /\ Fault
    /\ \E end \in {"dies", "hangs"}, names \in {FALSE, prog.names},
          completes \in {FALSE, prog.completes} :
          Finish(prog, RunStatus(prog, end, names, completes))

\* The orchestrator kills the worker in the middle of the job (a deadline): no
\* deferred call runs.  A fresh worker takes over and loads the tail cache.
Kill ==
    /\ pc # "idle"
    /\ kills < MaxKills
    /\ kills' = kills + 1
    /\ orphaned' = orphaned + 1
    /\ pc' = "idle" /\ prog' = None
    /\ known' = tail
    /\ UNCHANGED <<dir, dirs, tail, last, tainted, jobs, runs, faults>>

\* The orchestrator replaces a worker that has served its share of jobs.
Recycle ==
    /\ pc = "idle"
    /\ known' = tail
    /\ UNCHANGED <<pc, prog, dir, dirs, tail, last, tainted, counts>>

\* Slip: the sweep at the start of a run is left out.
NewRun_Slip ==
    /\ pc = "idle"
    /\ runs < MaxRuns
    /\ runs' = runs + 1
    /\ orphaned' = 0
    /\ known' = tail
    /\ UNCHANGED <<pc, prog, dir, dirs, tail, last, tainted, jobs, kills, faults>>

\* The next run of the harness sweeps the build directories before its first
\* job; the scratch directories are nobody's to sweep.
NewRun ==
    /\ pc = "idle"
    /\ runs < MaxRuns
    /\ runs' = runs + 1
    /\ stubs' = {}
    /\ orphaned' = 0
    /\ known' = tail
    /\ UNCHANGED <<pc, prog, dir, scratch, tail, last, tainted, jobs, kills,
                   faults>>

Over == pc = "idle" /\ jobs = MaxJobs /\ UNCHANGED vars

Next ==
    \/ \E p \in Programs : Begin(p) \/ BeginFails(p)
    \/ CompileStops \/ Compile \/ Replay
    \/ StartBuild \/ BuildSucceeds \/ BuildRefuses \/ BuildFaults
    \/ Judge \/ RunFaults
    \/ Kill \/ Recycle \/ NewRun \/ Over

Spec == Init /\ [][Next]_vars

-----------------------------------------------------------------------------
\* A program the machine never disturbed gets the status the README and the
\* table in aot.go give it, built and judged or replayed from a snapshot of the
\* tail cache, after any number of kills, fresh workers and runs.  The exception
\* is the late death, which judgeRun calls a pass and the README does not.
UndisturbedVerdictIsTrue ==
    last # None /\ last[1] \notin tainted /\ ~LateDeath(last[1])
        => last[2] = Truth(last[1])

\* Whatever the machine does, a positive test that should not pass is never
\* reported as a pass.
NoFalsePass ==
    last # None /\ last[1].neg = "none" /\ last[2] = "pass"
        => Truth(last[1]) = "pass"

\* The build directories in the staged root are those of the jobs killed in
\* this run and of the job at hand: they do not climb from run to run.
StubsBounded ==
    Cardinality(stubs) <= orphaned + (IF pc = "idle" THEN 0 ELSE 1)
=============================================================================
