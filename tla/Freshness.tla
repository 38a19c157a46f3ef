------------------------------ MODULE Freshness ------------------------------
(***************************************************************************)
(* What the cache keys cover.  Between runs somebody edits tests, fixtures *)
(* they import, harness ports, the compiler, the runtime it links or the   *)
(* harness itself, and builds the runner again or does not.  A run then    *)
(* answers each job from the results cache, from the tail cache or by      *)
(* building it.  JobKey (pkg/tc39/cache.go), TailKey and RuntimeHash       *)
(* (tailcache.go), HarnessFingerprint (harnessfp.go) and moduleFingerprint *)
(* (aot.go) decide which; scripts/runner.sh decides which binary runs.     *)
(*                                                                         *)
(* The compiler is in two places: on disk, where moduleFingerprint reads   *)
(* it when a run starts, and linked into the runner, where it was when the *)
(* runner was built.  Nothing in the code keeps the two together.          *)
(*                                                                         *)
(* Content is a revision number and a digest is the tuple of what it       *)
(* hashes.  A verdict is the tuple of everything it depends on, so that    *)
(* two verdicts are equal only if nothing they depend on differs.          *)
(*                                                                         *)
(* The names ending in _Slip are deliberate slips in one definition each;  *)
(* nothing in the specification uses them.                                 *)
(***************************************************************************)
EXTENDS Naturals, FiniteSets

CONSTANTS
    Jobs,
    Tests,      \* the test files
    File,       \* [Jobs -> Tests]: a file gives a sloppy and a strict job
    Ports,      \* the harness ports
    Includes,   \* [Tests -> SUBSET Ports]: the ports a test's jobs splice in
    Kinds,      \* the kinds of edits made
    MaxEdits,   \* bound: edits in all
    None

AllKinds == {"test", "fixture", "port", "compiler", "runtime", "judge"}

ASSUME FreshnessAssumption ==
    /\ File \in [Jobs -> Tests]
    /\ Includes \in [Tests -> SUBSET Ports]
    /\ Kinds \subseteq AllKinds
    /\ MaxEdits \in Nat

VARIABLES
    test,       \* [Tests -> Nat]: a test's own source
    fixture,    \* [Tests -> Nat]: the sibling modules it imports
    port,       \* [Ports -> Nat]
    lowering,   \* [Tests -> Nat]: what the compiler on disk makes of a test
    bento,      \* the revision of the bento module on disk, as a whole
    runtime,    \* the revision of pkg/value on disk
    judge,      \* the revision of the harness's Go code on disk
    linked,     \* what bin/bento262 has compiled in
    kept,       \* the runner cached under the key runner.sh computes today
    hidden,     \* history: was there an edit git diff does not show?
    results,    \* the results caches, all files: a set of <<key, verdict>>
    tail,       \* the tail cache: a set of <<key, verdict>>
    known,      \* the tail cache as the worker read it when it started
    skewed,     \* history: the <<bento, test>> answered by a runner whose
                \* lowering of the test was not the tree's
    edits

inputs   == <<test, fixture, port>>
checkout == <<lowering, bento, runtime, judge>>
runner   == <<linked, kept, hidden>>
vars     == <<test, fixture, port, lowering, bento, runtime, judge, linked, kept,
              hidden, results, tail, known, skewed, edits>>

-----------------------------------------------------------------------------
(***************************************************************************)
(* The keys.                                                               *)
(***************************************************************************)

\* What go build links into the runner today.
Disk == [lowering |-> lowering, judge |-> judge]

\* A test and the ports spliced into it, with their content.
Text(f) == <<f, test[f], [p \in Includes[f] |-> port[p]]>>

\* The composed source: the strict job of a file has a line the sloppy one has
\* not.
Source(j) == <<j, Text(File[j])>>

\* The Go the runner's compiler emits for a job and the modules staged beside
\* it: the same for the two jobs of a file.
Emitted(j) ==
    LET f == File[j]
    IN  [text |-> Text(f), modules |-> fixture[f],
         lowering |-> linked.lowering[f]]

\* What a build and judgement of the job says: the runner's lowering and judge,
\* the runtime of the staged tree.
Verdict(j) == [go |-> Emitted(j), runtime |-> runtime, judge |-> linked.judge]

\* HarnessFingerprint: the embedded Go files and every port, included or not.
HarnessFingerprint == <<linked.judge, port>>

\* Slip: the key leaves the bento version out.
ResultsKey_Slip(j) == <<HarnessFingerprint, Source(j)>>

\* The file name (bento version and harness fingerprint) and JobKey.
ResultsKey(j) == <<bento, HarnessFingerprint, Source(j)>>

\* TailKey: the emitted Go and RuntimeHash.
TailKey(j) == <<Emitted(j), runtime>>

Hits(cache, key) == {e \in cache : e[1] = key}

\* Put: the first entry of a key stays.
Put(cache, key, v) ==
    IF Hits(cache, key) = {} THEN cache \cup {<<key, v>>} ELSE cache

Init ==
    /\ test = [f \in Tests |-> 0] /\ fixture = [f \in Tests |-> 0]
    /\ port = [p \in Ports |-> 0] /\ lowering = [f \in Tests |-> 0]
    /\ bento = 0 /\ runtime = 0 /\ judge = 0
    /\ linked = Disk /\ kept = None /\ hidden = FALSE
    /\ results = {} /\ tail = {} /\ known = {} /\ skewed = {} /\ edits = 0

-----------------------------------------------------------------------------
(***************************************************************************)
(* Edits between runs.  The next run's workers read the tail cache anew.   *)
(***************************************************************************)
Edit(kind) ==
    /\ kind \in Kinds
    /\ edits < MaxEdits
    /\ edits' = edits + 1
    /\ known' = tail
    /\ UNCHANGED <<linked, results, tail, skewed>>

\* Slip: the key has no part for the harness's own source.
Rekey_Slip(kind, shown) ==
    /\ kept' = IF shown /\ kind # "judge" THEN None ELSE kept
    /\ hidden' = (hidden \/ ~shown)

\* runner.sh keys its runners by rev-parse and git diff of both checkouts: an
\* edit they show starts a new key, a staged one or a new file does not.
Rekey(kind, shown) ==
    /\ kept' = IF shown THEN None ELSE kept
    /\ hidden' = (hidden \/ ~shown)

\* Tests, fixtures and ports are read when a run starts: the runner links none.
EditTest(f) ==
    /\ Edit("test")
    /\ test' = [test EXCEPT ![f] = @ + 1]
    /\ UNCHANGED <<fixture, port, checkout, kept, hidden>>

EditFixture(f) ==
    /\ Edit("fixture")
    /\ fixture' = [fixture EXCEPT ![f] = @ + 1]
    /\ UNCHANGED <<test, port, checkout, kept, hidden>>

EditPort(p) ==
    /\ Edit("port")
    /\ port' = [port EXCEPT ![p] = @ + 1]
    /\ UNCHANGED <<test, fixture, checkout, kept, hidden>>

\* A compiler edit changes the Go emitted for some of the tests.
EditCompiler(S, shown) ==
    /\ Edit("compiler") /\ Rekey("compiler", shown)
    /\ bento' = bento + 1
    /\ lowering' = [f \in Tests |-> lowering[f] + IF f \in S THEN 1 ELSE 0]
    /\ UNCHANGED <<inputs, runtime, judge>>

\* pkg/value is part of the module that moduleFingerprint hashes.
EditRuntime(shown) ==
    /\ Edit("runtime") /\ Rekey("runtime", shown)
    /\ runtime' = runtime + 1
    /\ bento' = bento + 1
    /\ UNCHANGED <<inputs, lowering, judge>>

EditJudge(shown) ==
    /\ Edit("judge") /\ Rekey("judge", shown)
    /\ judge' = judge + 1
    /\ UNCHANGED <<inputs, lowering, bento, runtime>>

-----------------------------------------------------------------------------
(***************************************************************************)
(* The runner.                                                             *)
(***************************************************************************)

\* go build -o bin/bento262, past runner.sh's cache.
GoBuild ==
    /\ linked' = Disk
    /\ known' = tail
    /\ UNCHANGED <<inputs, checkout, kept, hidden, results, tail, skewed, edits>>

\* runner.sh: the runner of today's key, built if there is none.
RunnerSh ==
    /\ kept' = IF kept = None THEN Disk ELSE kept
    /\ linked' = kept'
    /\ known' = tail
    /\ UNCHANGED <<inputs, checkout, hidden, results, tail, skewed, edits>>

-----------------------------------------------------------------------------
(***************************************************************************)
(* A run answers a job.  RunAll's pre-pass takes a hit of the results      *)
(* cache, which changes nothing.  A line of either cache is lost when the  *)
(* run is killed before it is written; a handback has no line in the tail  *)
(* cache, a timeout or a crash has none at all.                            *)
(***************************************************************************)
Answer(j, v, inResults, inTail) ==
    /\ Hits(results, ResultsKey(j)) = {}
    /\ results' = IF inResults THEN Put(results, ResultsKey(j), v) ELSE results
    /\ tail' = IF inTail THEN Put(tail, TailKey(j), v) ELSE tail
    /\ skewed' = skewed \cup {<<bento, f>> : f \in {g \in {File[j]} :
                                linked.lowering[g] # lowering[g]}}
    /\ UNCHANGED <<inputs, checkout, runner, known, edits>>

\* The worker lowers the job and its snapshot of the tail cache answers.
FromTail(j) ==
    \E e \in Hits(known, TailKey(j)), inResults, inTail \in BOOLEAN :
        Answer(j, e[2], inResults, inTail)

\* The worker builds, runs and judges the job.
FromBuild(j) ==
    /\ Hits(known, TailKey(j)) = {}
    /\ \E inResults, inTail \in BOOLEAN :
          Answer(j, Verdict(j), inResults, inTail)

\* A worker is recycled, or another run starts.
NewWorker ==
    /\ known' = tail
    /\ UNCHANGED <<inputs, checkout, runner, results, tail, skewed, edits>>

Next ==
    \/ \E f \in Tests : EditTest(f) \/ EditFixture(f)
    \/ \E p \in Ports : EditPort(p)
    \/ \E shown \in BOOLEAN :
          \/ \E S \in SUBSET Tests : EditCompiler(S, shown)
          \/ EditRuntime(shown) \/ EditJudge(shown)
    \/ GoBuild \/ RunnerSh \/ NewWorker
    \/ \E j \in Jobs : FromTail(j) \/ FromBuild(j)

Spec == Init /\ [][Next]_vars

-----------------------------------------------------------------------------
\* The caches and counters have their types.
TypeOK ==
    /\ test \in [Tests -> 0..MaxEdits] /\ fixture \in [Tests -> 0..MaxEdits]
    /\ port \in [Ports -> 0..MaxEdits] /\ lowering \in [Tests -> 0..MaxEdits]
    /\ bento \in 0..MaxEdits /\ runtime \in 0..bento /\ judge \in 0..MaxEdits
    /\ edits \in 0..MaxEdits /\ hidden \in BOOLEAN
    /\ skewed \subseteq (0..bento) \X Tests
    /\ known \subseteq tail
    \* Put keeps one entry per key
    /\ \A c \in {results, tail} : \A d, e \in c : d[1] = e[1] => d = e

\* Whatever was edited, whichever runner ran and however an old tail entry was
\* copied into a new results file: an entry of the tail cache that a job's key
\* finds is of the very Go this runner emits for it, whichever job of the file
\* was built, and of today's runtime; an entry of the results caches that a
\* job's key finds is of today's test, ports and runtime, and of today's
\* lowering unless a runner that did not link today's tree answered the test
\* under today's version.  Staged modules and the judge are not covered.
CoveredInputsAreFresh ==
    \A j \in Jobs :
        /\ \A e \in Hits(tail, TailKey(j)) :
              e[2].go = Emitted(j) /\ e[2].runtime = runtime
        /\ \A e \in Hits(results, ResultsKey(j)) :
              /\ e[2].go.text = Text(File[j])
              /\ e[2].runtime = runtime
              /\ <<bento, File[j]>> \notin skewed =>
                    e[2].go.lowering = lowering[File[j]]

\* As long as git diff shows every edit, the runner that runner.sh has cached
\* under today's key links today's compiler and harness: reusing it measures the
\* tree on disk.
KeptRunnerIsTheTree == ~hidden => kept \in {None, Disk}
==============================================================================
