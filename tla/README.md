# A verification project for bento-test262

bento-test262 runs the test262 conformance suite against bento, an
ahead-of-time compiler from JavaScript and TypeScript to Go. Each test is
composed with harness ports, lowered to Go, built with `go build`, run and
judged. The hard part of the program is not any one of these steps but what
surrounds them: an orchestrator that drives worker subprocesses which hang, die
and are recycled; two caches that outlive the process and must survive a kill;
a janitor that deletes files from the Go build cache while builds run; a sweep
that is stopped and resumed over days; and text passes that decide, without a
parser, what a test binds and imports.

This directory holds TLA+ modules that model those parts, TLC configurations
that check them on small instances, and TLAPS proofs of the safety properties of
eight of them for every value of their constants. `PROJECT.json` lists the runs,
the map from definitions to source lines, the finding, the hazards and the
theorems.

    tlc -config MCOrchestrator.cfg MCOrchestrator     # one run
    tlapm OrchestratorProofs.tla                      # the proofs of a module

## 1. The system

| Part | Source | State | Operations |
|---|---|---|---|
| Orchestrator | `pkg/tc39/orchestrator.go` | `jobCh`, `resCh`, the `inflight` sync.Map, per slot: the current job, the subprocess, `served` | `RunAll`, feeder, `workerLoop`, `spawnWorker`, `send`, `kill`, `oldestInflight`, `stillRunning`, the stuck-job watchdog |
| Worker and AOT pipeline | `worker.go`, `aot.go` | the tail cache it loaded, a scratch directory and a build directory per job | `WorkerMain`, `ExecuteAOT`, `compileGo`, `judgeRun`, `SweepBuildDirs` |
| Staged module roots | `aot.go` | `bento-<version>` directories beside the cache | `PrepareModuleRoot`, `pruneStagedRoots`, `WarmDeps` |
| Results and tail cache | `cache.go`, `tailcache.go` | entries in memory, an append stream, the file, the `.tmp` of a compaction | `LoadCache`, `BeginStream`, `Get`, `Put`, `CloseStream`, `Save`, `JobKey`, `TailKey`, `RuntimeHash`, `PruneResultsCaches` |
| Build-cache janitor | `cachejanitor.go` | the baseline, the files of GOCACHE | `watchCachePinned`, `pinToBaseline`, `watchCache`, `trimGoBuildCache` |
| Harness fingerprint | `harnessfp.go` | none | `HarnessFingerprint` |
| Runner | `cmd/bento262/main.go` | flags, the abort channel, the exit status | `runMain`: wipe, stage, warm up, load, prune, stream, run, save, report, diff |
| Expectations | `expect.go` | the snapshot file | `LoadExpectations`, `Diff`, `WriteExpectations`, `Summarize` |
| Discovery and composition | `discover.go`, `meta.go`, `includes.go`, `compose.go`, `denylist.go` | two bounded pools that fill slots | `Discover`, `Select`, `Quarantine`, `Jobs`, `Compose`, `AuditIncludes` |
| Module graph | `modulegraph.go` | a worklist, the names taken, a scratch tree | `resolveModuleGraph`, `readModuleFile`, `stagedName`, `stageJob` |
| Hoisting | `hoist.go` | a stack of bracket frames | `hoistSloppyForBindings`, `forBindingEnd`, `forBindingTargets`, `skipDefault` |
| Lower-only measurement | `measure.go` | a semaphore, the report | `LowerOnly` |
| Memory and disk guard | `sysinfo.go`, `sysmem_*.go`, `sysdisk_*.go` | none | `MemSafeWorkers`, `CapWorkers`, `MemoryLimitBytes` |
| Scripts | `scripts/` | logs, `.done` markers, a cache of runners | the group sweep, building or reusing the runner |

How they meet:

- The feeder, the worker goroutines and the collector share two unbuffered
  channels. A slot talks to its subprocess through two pipes, one line per job.
- The worker goroutines write the `inflight` map; the janitor and the watchdog
  read it while it changes.
- The subprocess reads the tail-cache file when it starts, while the
  orchestrator appends to it.
- The janitor removes files that a `go build`, a grandchild process, reads and
  writes.
- Cache files, staged roots, snapshots and checkpoints carry state from one
  process to the next, past kills, full disks and edits of every checkout
  involved.
- The group script knows of a run only its exit status and one line of its
  output; groups are substrings of paths and may overlap.

What is hard: deadlines that race answers; subprocesses that die anywhere;
a wind-down through two channels; an interrupt in the middle of it; a map read
while it is written; a kill in the middle of a write, a copy or a removal; keys
that must cover everything a verdict depends on; a pool whose tasks end in any
order; and a walk over text that must never take a read for a binding. The
`hazards` of `PROJECT.json` name each at its line.

What makes each part correct: every job gets one outcome, its own, and every
run ends (orchestrator); only real verdicts are replayed, and only while they
are still true (caches, keys); what was finished survives (cache file, sweep);
nothing in use is deleted, and what is not in use is (janitor, build
directories, staged roots); a job list is the corpus in order (discovery); a
test compiles against the files it names (module graph) and binds the names it
binds (hoisting).

## 2. Modules

| Module | Models |
|---|---|
| `JobBoard` | what `RunAll` promises: an abstract board on which each job gets one outcome |
| `Orchestrator` | `RunAll`, `workerLoop`, `send` and the subprocess's side of the pipes; shown to implement `JobBoard` |
| `ResultsCache` | one cache file over several runs, with kills and a full disk |
| `Janitor` | both janitors beside the worker loops and their builds |
| `AotWorker` | one worker at work on jobs: `ExecuteAOT`, `compileGo`, `judgeRun`, the tail cache, the directories |
| `Freshness` | what the keys of both caches and of `runner.sh` cover, across edits |
| `Sweep` | the composition of script, run, results cache, snapshots and checkpoints over several bento versions |
| `StagedRoots` | staged roots and results files over several runs, with kills and edits |
| `Corpus` | discovery, selection, composition and the include audit as operators |
| `LowerOnly` | the two pools, the worker cap and the lower-only pass, over `Corpus` |
| `ModuleGraph` | the import walk and the scratch tree it stages |
| `PatternGrammar` | the heads a `for` can have, by the grammar of the language |
| `Hoist` | the scan of a `for` head, held against `PatternGrammar` |
| `OrchestratorProofs`, `ResultsCacheProofs`, `JanitorProofs`, `AotWorkerProofs`, `SourceProofs` (of `ModuleGraph`, `Freshness` and `Hoist`), `SweepProofs`, `StagedRootsProofs`, `LowerOnlyProofs` | the theorems about these modules, with their inductive invariants (section 4) |
| `MCOrchestrator`, `MCFreshness`, `MCSweep`, `MCStagedRoots`, `MCLowerOnly`, `MCModuleGraph` | instances for TLC; the other modules are run as they are |

Names ending in `_Slip` are deliberate mistakes in one definition each. No
specification uses them; they record, beside each definition, a bug that the
property named with it in `PROJECT.json` catches.

### Orchestrator

One action per step of a goroutine or of a subprocess; a rendezvous on an
unbuffered channel is one step of both ends (`HandOut` on `jobCh`, `Collect` on
`resCh`). `pc[i]` follows `workerLoop`: `idle` (in `range jobs`), `spawn`,
`store` (before `inflight.Store`), `write` and `await` (the two halves of
`send`), `deliver` (at `results <- res`), `exited`. `Init` is `RunAll` up to the
creation of its goroutines, the pass over the cache included: every set of
cached jobs is an initial state, and a run with nothing left to do returns at
once. The tail cache starts with whatever `tail.ndjson` held (`loaded`).

- `HandOut` stays enabled after `abort`, because Go's `select` chooses at random
  among ready cases; `StopFeeding` is the other case.
- `Write` is the blocking write of the job line. A line that fits the pipe's
  buffer goes through whether or not the subprocess reads; one of a job in `Big`
  needs a subprocess that has begun to read. The timer starts after it.
- `TimedOut` may be taken with an answer waiting.
- `Execute` lets the subprocess answer any status, with or without a tail key.
  `Die` and `DieWriting` are its deaths, at any moment; a terminal's Ctrl-C,
  which reaches the whole process group, is `Interrupt` followed by `Die`.
- `Collect` is the collector's whole turn: the map, then both `Put`s.

The order of `todo` carries no meaning, so it is a set. A job is its ID; that
IDs repeat only when two filter prefixes hold the same file is a property of
`LowerOnly`, and what becomes of two jobs with one ID is not modelled.
`json.Marshal` of a `Job` cannot fail and its branch is left out. The stuck-job
watchdog only prints.

### ResultsCache

The file is a sequence of lines, each an entry or `Junk`; only the last may lack
its newline. `AppendLine` says what an append does to such a file: the bytes
join the last line and make it unreadable. `Put` is split by what happens to
its write: `PutFlushed`, `PutShort` (a full disk; `bufio`'s error then sticks),
`PutUnstreamed` (every `Put` after that), `KillInPut` (cut short by a kill).
`Save` is four steps so that a kill can fall between any two. A kill loses what
the process holds and nothing the kernel has accepted: power loss, against
which the code does not `fsync`, is not modelled. The module is the tail cache
as well, whose file has the same life.

### Janitor

Time is the order of stamped events: two stamps may be equal, and a later one
is never smaller. `Stamp` and `Store` are separate because `time.Now()` is
evaluated before `inflight.Store`. A pinned sweep reads the clock
(`BeginSweep`), meets the keys of the map one by one (`RangeOne`) and the files
one by one (`WalkOne`), while jobs, builds and the end of the run go on. In
ceiling mode, without a baseline, a tick that finds the cache too large lists it
(`ListOne`) and removes the oldest entries of the list (`TrimOne`), which builds
may meanwhile have used or written again. The build has its own state, `orphan`
being a build whose worker was killed under it: `kill` ends the worker process
and nothing else. An entry's size is one constant. The coarser clock some
kernels use for modification times is not modelled.

### AotWorker

A program is a record of what the pipeline can tell apart: what the front end
does with it, what its test expects, whether its Go compiles, how its binary
ends and what it prints. The compiler, the go toolchain and the binary are
external and do what the record says, except for `BuildFaults` and `RunFaults`,
the machine's own failures. `Truth` is the verdict that "What counts as a pass"
of the repository's README gives a program; `FrontStatus`, `RunStatus` and the
actions are the code. They part on one shape, `LateDeath`: a test to be rejected
early that is built all the same and dies with the error's name in its output.
A worker asks the snapshot of the tail cache it loaded when it started (`known`),
and a fresh one, after a kill or when the old one is recycled, loads it anew.
`Kill` is the orchestrator's deadline: no deferred cleanup runs.

### Freshness

Content is a revision number, a digest is the tuple of what it hashes, and a
verdict is the tuple of all it depends on, so that two verdicts are equal only
if nothing relevant differs. The compiler is in two places: on disk, where
`moduleFingerprint` reads its version when a run starts, and in `linked`, what
`bin/bento262` had compiled in when it was built. Edits change the disk.
`RunnerSh` takes the runner kept under today's key or builds one, `GoBuild`
builds past that cache, and nothing forces either between an edit and a run.
Whether `git diff` shows an edit (a staged edit or a new file it does not show)
is free, and decides in `Rekey` whether `runner.sh` sees another key. A run
answers a job from the results cache, which changes nothing, from the worker's
snapshot of the tail cache (`FromTail`) or by a build (`FromBuild`); either line
may be lost to a kill. The sloppy and the strict job of a file emit the same Go,
so one finds the other's tail entry. `skewed` records under which versions a
runner with another lowering than the tree's has answered a test, `hidden` that
an edit was not shown. Edits come between runs and are not undone; one of
`compose.go`, which would move the source as well, counts as an edit of the
judge. The version of the Go toolchain is in no key and is not modelled.

### Sweep

`run-groups.sh` is `script`, `at` and the two directories `log` and `done`;
`bento262 run` is `run`, from `Begin` (up to `RunAll`'s pass over the cache) to
one of the exits `ExitInterrupted`, `ExitUpdated`, `ExitChecked`. `RunAll` is
reduced to what `JobBoard` promises: jobs end one by one (`JobEnds`), and after
an interrupt it may return early. The script sees the exit status and the TOTAL
line and nothing else, so `Checkpoint` cannot tell an interrupted run from a
finished one; the history variable `cut` can. A group's jobs are what its
substring selects: `--grep test/built-ins/Array` is `ArrayBuffer` too. `Killed`
is Ctrl-C at a terminal, or a run that ends with an error; `KilledWriting` and
`KilledCheckpointing` cut the two files that are written in place. The results
cache loses to a kill what `ResultsCache` says it can: verdicts whose line was
not written, of which one may be there in part (`torn`), and the line that a
later run appended to such a part (`onto`), unless that run came to its `Save`.
`standing` counts the verdicts a job got and no kill took. An edit of bento or
of the harness starts another results file (`NewVersion`). `Bump` is one that
`rev-parse` or `git diff` of bento shows, which starts another checkpoint
directory too; `BumpUnseen` is one they do not show (a staged edit, a new file,
anything in the harness), which leaves the old checkpoints in force (`stale`).
The snapshots stay in both. `Repin` takes a test from the checkout.

### StagedRoots

A module tree is two files, `gomod` at its top, which is all the test for
"already staged" looks at, and `pkg` below. `phase` follows `runMain` and
`PrepareModuleRoot`: the stat, the clearing of the temporary directory, `cp -R`
file by file, `chmod`, the rename, the first warm-up, the prune, then the
results files. A tree copied from the module cache is read-only until `chmod`
has run, and nothing can be removed from a read-only directory (`lock`). `Kill`
may fall between any two steps, `KillRemoving` inside a removal, and `Edit`
changes the source while it is copied. `hurt` names the versions to which one of
the three accidents of `RootIsWhole` has happened.

### Corpus and LowerOnly

A file is its place in the order the walk visits the checkout, and `kind` is
what its frontmatter says. `Walked`, `Select`, `Quarantine`, `ModesOf`, `Slot`
and `Reach` are what `Discover`, `Select`, `Quarantine`, `modesOf`, `Jobs` and
`AuditIncludes` compute. The includes of a test are listed twice in the code and
twice here: `ComposeNames` is the list in `Compose`, from which `Blame` says why
it declines, and `IncludeNames` the one in `includes.go`.
`LowerOnly` runs them the way `runMain` does: `Parse` and `ComposeCase` are tasks
of a pool (`InPool`: started in order, at most `Pool` at a time, ended in any),
each into its slot; `Composed` joins the slots, refuses a pass that is too big,
and starts the lowering loop (`Acquire`, `Stage`, `Compiled`). Every way a job
drops out is an action: `StageFails`, `ScratchFails`, `Panics`, `Hangs`. The
worker cap of `sysinfo.go` is arithmetic with the default fraction.

### ModuleGraph

A path is a sequence of components below the test's directory that ends in the
name of a file (a specifier that ends in `.` or `..` names a directory, which
`readModuleFile` cannot read), `Clean` is `filepath.Clean`, and a file's content
is the sequence of its specifiers. `Clean` and `RelativeSpecifiers` are functions
of how far the loop has come, so that they can be reasoned about. The worklist is walked specifier by specifier (`Skip`, `Missing`, `Stage`, `Pop`),
then `StageJob` writes the modules in order and the test last (`Writes`), so that
the last write of a name is what it holds. `Means` says what an import names in the corpus
and `ResolvesTo` what it finds in the scratch tree; they are the reference. The
regular expressions that find a specifier are external.

### PatternGrammar and Hoist

`PatternGrammar` builds, length by length, the token strings the language
allows before the `of` or `in` of a head without a declaration, with the names
that are bound marked. `Hoist` reads a head token by token (`ScanToken`), then
walks it with the frames of `hoist.go`; a rejected token is `GiveUp`. A name is
the set of its occurrences, so `HoistName` ranges over every way the names of
the head can coincide, and over an occurrence elsewhere in the body. Masking
literals and comments, and finding the heads in a body, come before and are left
out.

## 3. What the runs check

Passing runs:

| Run | Shows |
|---|---|
| `orchestrator` | 3 jobs, 2 workers recycled after 2 jobs, every set of cached jobs, jobs sharing a tail key, anything loaded under it, one big job: a job is in exactly one place at all times; an answer is booked on the job that was asked; the inflight map is exact; a subprocess never exceeds its quota; a return leaves no goroutine, subprocess or job in flight; the caches hold exactly the verdicts and what was loaded; `RunAll` implements `JobBoard` |
| `orchestrator_live` | 2 jobs, 2 workers, recycling off, lines that fit the pipe: every `send` and every run ends |
| `results_cache` | 3 keys, 3 runs, 2 torn writes, one full disk: a reader never sees a verdict other than the run's; a `Save` that succeeds is complete; a kill costs at most one finished job per torn write; readable entries stay |
| `janitor` | 2 jobs with their builds, 1 dependency. Pinned: a sweep takes neither a dependency nor an entry of a job in flight, the last one reaches the floor, and residue is reclaimed while the run goes on. Ceiling: a cache that outgrew it is brought back under it |
| `aot_worker` | every program shape, 2 jobs, 2 runs, a kill, a machine fault: undisturbed programs get the verdict of the README, built or replayed from a worker's snapshot, but for `LateDeath`; a fault never makes a positive test pass; build directories do not pile up |
| `freshness` | the sloppy and the strict job of a test that includes one of 2 ports, up to 2 edits of any kind, shown or hidden, runners built, reused or left alone: an entry that a key finds is of today's test, ports and runtime, and of the runner's lowering (tail) or the tree's (results, unless `skewed`); and the runner `runner.sh` would reuse links today's tree if no edit was hidden |
| `sweep` | 2 overlapping groups, 3 jobs, one precooked: no job gets a second verdict under one bento and harness unless a kill took the first; a checkpoint not made by an interrupted run, not torn and not older than an unseen edit counts the whole group and has its snapshot; snapshots stay in agreement with the cache; a check right after an update finds only timeouts; and reruns complete the sweep |
| `staged_roots` | 4 runs over 3 versions, kept 1: the root a run builds in is whole and staging recovers from a kill, but for the versions named hurt; neither roots nor results files pile up |
| `lower_only` | 3 files of 8 kinds under 7 command lines: the jobs are the scope, no more and no less, and in path order under each prefix, across prefixes when these are; checkers and workers fit the memory; the report adds up; the audit's list of includes and `Compose`'s lead to the same handbacks |
| `module_graph` | graphs over a test and up to six files: one file per staged name, inside the tree; the test's own imports resolve as in the corpus, and so does everything if imports are siblings; the walk ends |
| `hoist` | every head of up to 7 tokens: the walk takes all the names a head binds or none, all of them in a simple pattern, and no name that is read gets a `var` |

A run that shows the code and one of its own statements apart:

| Run | The statement | What happens |
|---|---|---|
| `sweep_empty_group` | a group whose run prints no TOTAL line is checkpointed with "(no TOTAL line; see ...)" (`run-groups.sh:177`) | under `set -euo pipefail` the assignment on line 176 ends the script when `grep` finds nothing; a group that selects no test prints no TOTAL line, and every rerun stops there. The comments on lines 94 and 105 have groups contain a test; the `find` lists every subdirectory |

More differences between the code and what it says of itself came up in
modelling. They have no run of their own: no property claims that the code is
right in them, and where one leaves the case out, it is named.

- Orchestrator. `send` writes the job line before its deadline starts
  (`orchestrator.go:284`, `:291`): a line bigger than the pipe's buffer and a
  subprocess stuck in startup block the slot, and `SendEnds` fails with a job in
  `Big`. An interrupted run is to print the jobs that were in flight when it
  stopped (README.md:147, `orchestrator.go:110`, `:234`, and the comment on
  `TestStillRunningListsInflight`), but the report is made after the drain has
  emptied the map (`:185`) and names none; `CleanReturn` claims nothing of it.
  The feeder's `select` may hand out jobs after `Abort` is closed
  (`HandOut`).
- Caches. After a torn write the next run's first entry joins the torn line
  (`cache.go:141`) and is lost if that run is killed too, as is any verdict a
  worker has given and `Put` has not written, where `cache.go:186` has a kill lose
  nothing; `LossBounded` bounds the first, and `NoJobRunsTwice` is of verdicts that no kill took.
  `JobKey` leaves out the staged modules (`cache.go:57`) and the judge's code is
  in no tail key: `CoveredInputsAreFresh` claims nothing of the two. The
  fingerprint of all ports names the results file (`main.go:327`), so that an
  edit of one port invalidates every test and not "just the tests that include
  it" (README.md:136). A build the machine failed is a `fail` and is cached
  (`aot.go:147`), where `tailcache.go:27` has only deterministic outcomes.
- Verdicts. A test of phase `parse` or `resolution` has to be rejected before it
  runs (README.md:172, `aot.go:118`); `judgeRun` (`aot.go:232`) gives it a pass as
  well if it is built, runs and dies with the error's name (`LateDeath`).
- Versions. The version in the results key is read from the tree on disk
  (`aot.go:290`), the lowering was linked when the runner was built. A
  `bin/bento262` that was not rebuilt after an edit files the old lowering's
  verdicts under the new version, and the rebuilt one replays them (`skewed`).
  "Any edit lands on a fresh key" (README.md:159, `runner.sh:9`) is not so of a
  staged edit or a new file, which `git diff` does not show (`runner.sh:43`,
  `hidden`).
- Janitor. The build of a worker killed at its deadline runs on, unprotected
  (`orchestrator.go:280`, `:218`), the exception of `LastSweepReachesFloor`.
  Nobody waits for the janitor's sweep on stop (`ExitProcess`).
- Staged roots. A root cut by a killed prune is reused if its `go.mod` is left
  (`aot.go:297`), and if not makes every later rename fail; a kill between `cp`
  and `chmod` of a read-only source does the same to the temporary directory;
  an edit between the fingerprint and the copy stages another content under the
  version. These are `hurt`. Keeping "the newest few (this run's included)"
  (`main.go:332`) keeps one more, because the run's own file does not exist yet,
  and `results-*.ndjson.tmp` is never pruned (`NothingPilesUp`).
- Discovery. The slice is said to be sorted by path (`discover.go:35`, `:42`) and
  `-limit` to take the first cases in path order (`:92`), but nothing is sorted:
  it is in the order of the prefixes given, where the default filter has
  `test/language` before `test/built-ins`, and overlapping prefixes repeat a job.
  `JobsAreTheScopeInOrder` claims path order under each prefix, and across them
  only if they are in path order (`WalkedByPath`), and nothing of the order if
  they overlap. The audit's reach is not the exact number of jobs a port unlocks
  (`includes.go:24`): raw tests, `CanBlockIsFalse` and jobs with two unported
  includes are counted too; `AuditAgreesWithCompose` leaves the first two out.
  `-jobs 0` is below every cap and `RunAll` takes it for eight (`MemoryIsRespected`). A lower-only pass drops a job it cannot stage
  without a word (`ReportAddsUp`), has no deadline and dies of a panic.
- Module graph. A staged name ignores the importer's directory although the
  comment on `stagedName` (`modulegraph.go:84`) has a nested import resolve
  against the same relative path; `../b.js` from a nested module is skipped; a
  path with both extensions has one staged name; and `./a.ts`, where there is
  only an `a.js`, finds nothing and takes the name all the same
  (`modulegraph.go:143`), so that a later `./a.js` is skipped (`OneExtension`
  keeps these two apart in `ImportsResolveAsInCorpus`).
- Hoisting. The frame around the outermost bracket has no `expectSep`, so that
  `[x][y]` and `{x}[k]` are taken for patterns, where the comment on `frame`
  (`hoist.go:333`) has the walk give up (`Indexed`); a `,` or `...` outside of
  brackets is accepted, in heads the language does not have.
- Sweep. A group run that is interrupted exits 0 and is marked done, and a torn
  `.done` counts as done (`cut`). The checkpoint directory is keyed "by the exact
  bento tree" (`run-groups.sh:27`, `:77`), but lines 83 to 85 miss staged edits and
  new files, and no edit of the harness or a port is in its name (`stale`).
  `Diff` walks the results, so a snapshot entry
  whose test is gone is never reported. The interrupted branch is taken too when
  the interrupt comes after the last job: no snapshot is written.

### Bounds, and why they are enough

The proofs of section 4 remove these bounds for the properties they state.

Orchestrator: slots interact only through the feeder, the map and the
collector, so two show every interference of slots; three jobs let a slot serve
two, be recycled and take another while the second slot is busy. ResultsCache: the second run can glue onto the first's torn
line and the third loads what the second left; three keys let one be lost, one
be kept and one come after. Janitor: one job ends while the other starts, which
is all a cutoff can get wrong; `Size` and `MaxBytes` are chosen so that one
entry fits under the ceiling, two exceed it, and of three a trim has to remove
two. AotWorker: two jobs are enough for a first verdict and its replay.
Freshness: with one edit the disk is ahead of the runner, with the second the
runner is of neither the old tree nor the new, or one edit is shown and one
hidden; two jobs of one test share Go, and of two ports one is not included.
Sweep: two groups, one of which contains
the other's job; two stops allow an interrupt and a kill in one sweep, or a kill that tears a
line and one that loses the line behind it; one edit is a second bento, seen or
not, or a smaller corpus. StagedRoots: with `Keep = 1` the third
version makes a prune choose and the fourth run returns to a version that was
cut; a second kill hits the recovery from the first. LowerOnly: three files in a
pool of two end in every order; the seven command lines are the edges of each
filter and of the cap; two faults let one hide another. ModuleGraph: a cycle, a
diamond, a name in two directories, a climb written openly and one hidden.
Hoist: seven tokens hold a nested pattern, a default, a computed key, a rest and
an index, not all at once.

Bounds on counters are constants (`MaxRuns`, `MaxTears`, `MaxFulls`, `MaxKills`,
`MaxFaults`, `MaxEdits`, `MaxStops`, `MaxLen`; `MaxJobs` of `AotWorker`).
`MaxJobs` of `Orchestrator`, `Keep`, `Pool` and `MaxUnscoped` are the program's
own limits, smaller.

### Fairness

Liveness is checked under weak fairness of what Go and the operating system
guarantee: a goroutine that can run runs, a rendezvous both ends wait for
happens, a started timer fires, a ticker ticks. A slot's steps are one fairness
condition, so the deadline ends a wait that nothing else ends. Nothing is
assumed of subprocesses and builds: they may never start, answer or end.
`Interrupt` is never forced. `Sweep` assumes in addition that its operator
reruns the script until it is done, which is what its message asks for; it is
strong fairness of `Launch` because checks and edits may come between. The jobs
of `Sweep` end because `RunAll` ends them (`orchestrator_live`). `ModuleGraph`
assumes that the loop runs. `LowerOnly` has no liveness to claim, since one hung
compilation holds the pass forever (`Wedged`).

Deadlock is checked in every run. A run that is over stutters in an explicit
action (`Finished`, `Over`, `Done`).

## 4. What is proved

The safety properties of every component but the hoisting are proved for every
value of the constants: any number of jobs, slots, keys, files, groups and
versions, any corpus and imports, and any number of runs, kills, faults and
edits; of the hoisting, that one of its two properties follows from the other.
The runs of section 3 check the same definitions on small instances.

| Module | Theorem | States |
|---|---|---|
| `OrchestratorProofs` | `TypeCorrect` | `Spec => []TypeOK` |
| | `JobsAreNeverLostOrDuplicated` | a job is in exactly one place |
| | `VerdictsAreRight` | an answer is booked on the job that was asked, and no verdict is made up |
| | `SubprocessesAreRecycled` | a subprocess executes at most `MaxJobsPerWorker` jobs |
| | `InflightMapIsExact` | the map is the set of jobs being sent |
| | `ReturnIsClean` | what `RunAll` leaves behind: nothing running, and every result unless it was interrupted |
| | `CachesFollowResults` | the results cache holds exactly the verdicts; the tail cache what was loaded, and verdicts |
| | `JobsRunAtMostOnce` | an action property: an execution is never repeated |
| | `RunAllImplementsBoard` | refinement of `JobBoard` |
| `ResultsCacheProofs` | `ReadersSeeTheRun` | whoever loads the file reads what the run holds, or nothing (`DiskAgreesWithMemory`) |
| | `SaveKeepsAll` | a `Save` that succeeds leaves everything the run knows (`SavedIsComplete`) |
| | `KillsLoseLittle` | a torn write costs at most one finished job (`LossBounded`) |
| | `EntriesStay` | an action property: a readable entry stays, unless it is a last line without its newline (`DiskEntriesStay`) |
| `JanitorProofs` | `TypeCorrect` | the types of both janitors |
| | `FloorIsReached` | the sweep made on stop leaves nothing but what a build that outlives its worker writes (`LastSweepReachesFloor`) |
| | `NothingInUseIsReclaimed` | an action property: a pinned sweep takes neither a dependency nor an entry whose build is running under its job (`ReclaimsOnlyResidue`) |
| | `TrimsStopAtTarget` | an action property of the ceiling janitor, of the proofs only: it removes an entry only while the cache holds more than the target |
| `AotWorkerProofs` | `VerdictsAreTrue` | built or replayed, the verdict of an undisturbed program is the README's, `LateDeath` apart |
| | `FaultsNeverPass` | no fault makes a positive test pass |
| | `StubsDoNotPileUp` | build directories are bounded by the kills of the run |
| `SourceProofs` | `NamesAreStagedOnce` | a module is staged once, never over the test and nowhere outside (`OneFilePerName`) |
| | `ImportsFindTheirFiles` | imports find in the scratch tree what they name in the corpus (`ImportsResolveAsInCorpus`) |
| | `WinnersAreNeverRead` | `[](AllBoundNamesOrNone => HoistedNamesAreNeverRead)` of `Hoist` |
| | `RevisionsAreBounded` | the types of `Freshness` |
| | `ReplaysAreFresh` | what a cache answers is stale in nothing the keys cover, whichever runner runs, a skewed version's lowering apart (`CoveredInputsAreFresh`) |
| | `RunnersAreTheTree` | the runner `runner.sh` reuses links the tree on disk while no edit is hidden (`KeptRunnerIsTheTree`) |
| `SweepProofs` | `VerdictsAreKept` | no job gets a second verdict under one bento and harness unless a kill took the first (`NoJobRunsTwice`) |
| | `CheckpointsAreEarned` | a checkpoint that is neither cut nor stale counts the whole group (`DoneGroupsAreComplete`) |
| | `SnapshotsFollowTheCache` | a snapshot and the cache agree |
| | `UpdateThenCheckIsClean` | a check after an update finds only timeouts |
| `StagedRootsProofs` | `RootsCanBeTrusted` | the root a run builds in is whole and staging never fails, but for a hurt version |
| | `PrunesBoundTheDisk` | neither staged directories nor results files pile up (`NothingPilesUp`) |
| `LowerOnlyProofs` | `JobsFollowTheWalk` | however the tasks of the pools end, the jobs are the scope, in path order as far as the prefixes allow (`JobsAreTheScopeInOrder`) |
| | `MemoryIsKept` | checkers, workers and soft limits fit the memory |
| | `ReportIsComplete` | every composed job is lowered, handed back, refused or dropped |
| | `AuditFollowsCompose` | the audit's list and `Compose`'s, written apart, lead to the same handbacks (`AuditAgreesWithCompose`) |

### Assumptions

Each proof uses the named `ASSUME` of its module and nothing else; TLC evaluates
it on every run. (`SourceProofs` extends `ModuleGraph` and `Freshness` and
instantiates `Hoist`, as `Scan`; `ModuleGraph` calls its specification `GraphSpec`
so that both can be extended.) They say that constants have their types, that a value which
marks an absence (`None`, `Garbled`, `Junk`) is none of the values it stands
beside, that the sets which are counted are finite (`Keys`, `Versions`, `Files`,
the `Jobs` of a sweep and the `Jobs` and `Deps` of the janitor), that groups are listed once and `Keep` is at least one,
that an include is a string, and that the test is in its corpus and two files
are not in one place. The bounds `MaxRuns`, `MaxKills` and the like
are arbitrary numbers, so the proofs hold however often these things happen.

### The inductive invariants

None of the properties is inductive alone. Every module states an invariant as a
conjunction of named parts, and has one lemma per action or per part that a step
preserves it.

**Orchestrator.** `Inv` is the conjunction of

- `TypeInv`: the types, and which of `cur`, `out`, `stdin`, `stdout` and `proc`
  are set at each `pc`; above all, that whatever is in a slot's pipes belongs to
  the job the slot holds, and that the pipes are empty otherwise. This is what a
  kill after every failed send buys, and why a late answer is never booked on
  the next job;
- `Placement`: exactly one of pending, held by exactly one slot, recorded;
- `Computed`: a verdict in a pipe, in `out` or in `results` is what `ran` says,
  and a job not yet answered has not run;
- `CachesMatchResults`;
- `Loads`: the subprocess's own count of jobs is `served`, plus one while an
  answer is on its way, and zero after a kill;
- `Inflight`: the map, in terms of the slots that are sending;
- `WindDown`: what is over when `jobCh`, then `resCh`, is closed.

The refinement needs `Placement` (a recorded job is not recorded again) and
`WindDown` (a return without an interrupt finds a full board). That no job is in
flight at the return is `Inflight` with `WindDown`.

**ResultsCache.** A reader takes the last line of a key, so what a file says is
hard to follow through appends and torn lines, until `FileIsLean`: a run appends
no key it has loaded, so a file has one readable line per key. With it `Loaded`
is described line by line (`LoadedAt`), and `Put`, `Save` and a kill become
small. `AddedCounts` covers the `Save` that is skipped because nothing was
added, `TmpIsWhole` the file before its rename. The bound on losses is not
inductive by itself: a torn line loses nothing yet, the append after it does.
`TearsPay` therefore counts the keys that are lost or will be by the next append
(`Exposed`), and one more for a line left open; a tear pays for the line it
leaves open or for what is appended to it.

**Janitor.** `EntriesFollowStarts` says that what a running build writes is not
older than its job's stamp; `CutoffSpares` that the cutoff is not newer than an
entry of any job the sweep has passed in the map, whether or not it was stamped
when the clock was read. `LastSweep` follows the sweep made on stop: all residue
is older than its cutoff and still to be walked, because by then no job is in
flight. For the ceiling, `ListIsPresent` says that the list a trim goes by never
claims an entry that is gone: builds only add, and the janitor takes an entry off
its list as it removes it.

**AotWorker.** `Sound` is what may be said of a program given what the machine
has disturbed; `VerdictInv` says it of the tail cache, of which a snapshot is a
part, and of the last verdict, and
of the job at hand that the pipeline's steps so far fit its record. For the
directories, `Bystanders` leaves out the job's own, so that each of the rest is
charged to a kill.

**Freshness.** A results key names a bento and not the lowering or runtime it
implies. `ResultsAreTrue` closes the gap: no entry is of a bento yet to come, so
an entry under today's bento has today's runtime, and today's lowering unless the
version is skewed for the test. The exception is carried along by `Answer`, which
adds to `skewed` exactly when the runner's lowering is not the tree's, and it is
forgotten by no edit, because an edit of the compiler makes a new version.
`TailIsTrue` needs no exception: a tail key names the Go itself. It holds of a
snapshot because `Revisions` keeps `known` within `tail`.

**ModuleGraph.** `Clean` is reasoned about by induction on how far it has come,
again from `Least` (`UpTo`): a path that climbs once has climbed in the end
(`ClimbsOnce`), and one that does not leads to the same place below any directory
(`CleanBelow`), which is why the walk may look at the specifier alone before it
joins it to a directory. `WorksAreOfFiles` says whose imports a work is,
`NamesAreTaken` that names are taken when staged and files stay below the test.
`OwnFirst` is the argument for the test's own imports: while they are at the
head, every name taken is resolved, and each of them is still to come or
resolved. `Siblings` says this of all imports when no directories are involved,
and `Reached` that only what the test reaches is staged. The proof failed at
first on an import of `./a.ts` where only `a.js` exists; that is the second part
of `OneExtension`.

**Hoist.** `TargetsAreNames` and `WinnersAreTargets`: targets are places of names,
a walk that gave up has none, and a name gets its `var` in one step, from all of
its occurrences. So what `AllBoundNamesOrNone` says of the targets it says of
the names hoisted.

**Sweep.** `Control` ties the script to the run it waits for.
`ResultsFollowCache` is the heart: a result is in the cache or is a timeout, and
only an interrupt lets a run return without all results; hence `ExitIsWhole` and
the checkpoint made of it. `CacheCounts` says that a standing verdict is a line of
the cache and the other way round. It would break at a kill that takes a line the
next run could not read, but for `BehindAPart`: only the run that goes on has such
a line, and no whole snapshot rests on it, since the run that writes one has
saved, and compacted the file, before. `SnapshotIsWhole` adds that a snapshot covers what is
left of its group, past the tests a `Repin` takes away.

**StagedRoots.** For whole roots: `TmpsAreClean` (a temporary directory holds
files of its own version only), `RootsAreOpen`, `StagingIsOn` and
`StagingIsClean` follow one staging phase by phase; they hold of a version that
was not hurt whatever happened to the others. For the bounds: `age` lists every
directory once, oldest first (`AgeLists`), and what the run stages is the newest
until its prune (`Newest`), so that the prune spares it among the `Keep` newest
and not beside them. `RootsBounded` charges every directory to the `Keep` of the
last prune, to a staging since, or to a lock; a staging is charged when it
begins, before its directory is there (`Ahead`), and a copy under way only once
though it may be locked (`Others`). `FilePiles` and `SavePiles` are the same for
results files and their temporary files.

**LowerOnly.** `Reading` and `Composing` say of each slot that it is untouched
or holds its own file's value; that is why the order in which tasks end does not
matter. `Joining` says what the joined slots are, by the lemmas on `FlattenSeq`
and `Only` (`FlattenFacts`, `OnlyFacts`). These need induction on the number of
parts, which is had from `Least`, that a nonempty set of naturals has a least
element: the least place at which a claim fails. `Lowering` balances the report
while jobs are in flight.

### Only model-checked

- Liveness (`Terminates`, `SendEnds`, `ResidueIsReclaimed`, `CeilingIsRestored`,
  `SweepCompletes`, `WalkEnds`), which is out of the prover's reach.
- `AllBoundNamesOrNone` of `Hoist`, which holds the scan against a grammar that
  is recursive data: it would take an induction over the shapes of patterns.
  `HoistedNamesAreNeverRead` follows from it (`WinnersAreNeverRead`), and is
  otherwise checked by TLC too.

## 5. What is not modelled

- Text: the YAML of the frontmatter, the lines of the denylist, the regular
  expressions that find specifiers, `maskLiterals` and the search for `for`
  heads in `hoist.go`, and the wording of composed sources (a source is the
  tuple of what went into it). Template literals are masked whole, so that a
  read inside `${...}` is not seen; `Hoist` begins after that.
- The walks that compute digests and sizes; the system calls that report memory
  and disk; `preflightDisk`; flag parsing.
- Printing: progress lines, the stuck-job watchdog, `TopReasons`,
  `PrintLowerReport`.
- The disk check of `runner.sh`, the `--list` of `run-groups.sh`, and the harness
  ports, which are test content.
- Edits while a run goes on, except of the source being staged (`StagedRoots`),
  and edits that are undone.
- Two processes at once over one cache directory, which the program does not
  guard against; power loss.

## 6. Plan

Done, in this order: `JobBoard` and `Orchestrator` with proofs; `ResultsCache`;
`Janitor`; `AotWorker`; `Freshness`; `Sweep`; `StagedRoots`; the ceiling janitor;
`Corpus` and `LowerOnly`; `ModuleGraph`; `PatternGrammar` and `Hoist`; the proofs
of `Freshness`, `AotWorker`, `Janitor`, `Sweep`, `ResultsCache`, `StagedRoots`,
`LowerOnly`, `ModuleGraph` and, from the walk's property, `Hoist`.

Left: that the `RunAll` of `Sweep` is what `JobBoard` promises, one board for each
process, and the induction over patterns that `AllBoundNamesOrNone` needs.
