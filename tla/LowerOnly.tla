------------------------------ MODULE LowerOnly ------------------------------
(***************************************************************************)
(* bento262 run -lower-only: the worker cap of pkg/tc39/sysinfo.go, the    *)
(* two pools of Discover and Jobs (discover.go), and the lowering loop of  *)
(* measure.go, as runMain calls them one after the other.                  *)
(*                                                                         *)
(* The names ending in _Slip are deliberate slips in one definition each;  *)
(* nothing in the specification uses them.                                 *)
(***************************************************************************)
EXTENDS Corpus, Integers, FiniteSetsExt

CONSTANTS
    Files,      \* 1..n: the files of the checkout
    Setups,     \* command lines and machines, see Init
    Pool,       \* composeConcurrency
    PerWorker,  \* perWorkerMemBytes
    MaxUnscoped,\* maxUnscopedLowerJobs
    MaxFaults   \* bound: failed stagings, panics and hangs

ASSUME LowerOnlyAssumption ==
    /\ IsFiniteSet(Files) /\ Files = 1..Cardinality(Files)
    /\ \A s \in Setups :
          /\ s.prefixes \in Seq(SUBSET Files)
          /\ s.grep \subseteq Files /\ s.deny \subseteq Files
          /\ s.limit \in Int /\ s.request \in Int /\ s.ram \in Nat
          /\ s.readable \in BOOLEAN
    /\ Pool \in Nat \ {0} /\ PerWorker \in Nat \ {0}
    /\ MaxUnscoped \in Nat /\ MaxFaults \in Nat

VARIABLES
    kind,       \* file -> its frontmatter
    setup,      \* prefixes, grep, limit, deny, -jobs, the RAM (0: unknown), and
                \* whether the denylist opens and the prefixes exist
    phase,      \* "start", "parse", "compose", "lower", "reported", "error", "crashed"
    cases,      \* Discover's slots, then what Select and Quarantine leave
    slots,      \* Jobs' slots
    err,        \* an errgroup task failed
    jobs, precooked,
    next,       \* the job the loop is at
    flight,     \* job index -> "staging", "compiling", "hung"
    rep,        \* the report's counts, and the number of reasons noted
    \* history
    dropped,    \* jobs whose staging failed
    faults

vars == <<kind, setup, phase, cases, slots, err, jobs, precooked, next, flight,
          rep, dropped, faults>>

-----------------------------------------------------------------------------
(***************************************************************************)
(* sysinfo.go.  The memory fraction is the default, a half.                *)
(***************************************************************************)

MemoryLimitBytes(ram) == ram \div 2

\* The floor is one worker, whether it fits or not.
MemSafeWorkers(ram) == Max({MemoryLimitBytes(ram) \div PerWorker, 1})

\* Slip: the cap is applied only to requests of more than twice what fits.
CapWorkers_Slip(n, ram) ==
    IF ram = 0 \/ n <= 2 * MemSafeWorkers(ram) THEN n ELSE MemSafeWorkers(ram)

CapWorkers(n, ram) ==
    IF ram = 0 \/ n <= MemSafeWorkers(ram) THEN n ELSE MemSafeWorkers(ram)

Workers == CapWorkers(setup.request, setup.ram)

\* What LowerOnly and RunAll make of a count that is not positive.
Concurrency == IF Workers < 1 THEN 1 ELSE Workers
RunAllWorkers == IF Workers <= 0 THEN 8 ELSE Workers

\* The soft heap limit of each worker subprocess.
PerWorkerLimit == MemoryLimitBytes(setup.ram) \div Max({Workers, 1})

-----------------------------------------------------------------------------
Unread == 0
Blank  == [done |-> FALSE, jobs |-> <<>>, precooked |-> <<>>]

Init ==
    /\ kind \in [Files -> Kinds]
    /\ setup \in Setups
    /\ phase = "start" /\ cases = <<>>
    /\ slots = <<>> /\ err = FALSE
    /\ jobs = <<>> /\ precooked = <<>>
    /\ next = 1 /\ flight = <<>>
    /\ rep = [lowered |-> 0, handback |-> 0, front |-> 0, notes |-> 0]
    /\ dropped = 0 /\ faults = 0

\* LoadDenylist, then Discover's walk of the prefixes, which lists the paths.
Walk ==
    /\ phase = "start"
    /\ phase' = IF setup.readable THEN "parse" ELSE "error"
    /\ cases' = IF setup.readable
                THEN [n \in DOMAIN Walked(setup.prefixes, kind) |-> Unread]
                ELSE <<>>
    /\ UNCHANGED <<kind, setup, slots, err, jobs, precooked, next, flight, rep,
                   dropped, faults>>

\* Task n of a pool may be running: the group starts its tasks in order and
\* has at most Pool of them at a time.
InPool(n, done(_)) ==
    ~done(n) /\ Cardinality({m \in 1..(n - 1) : ~done(m)}) < Pool

\* A task of Discover reads and parses a file into the slot of its path.
Parse(n) ==
    /\ phase = "parse"
    /\ InPool(n, LAMBDA m : cases[m] # Unread)
    /\ LET f == Walked(setup.prefixes, kind)[n]
       IN  /\ cases' = [cases EXCEPT ![n] = f]
           /\ err' = (err \/ ~kind[f].parses)
    /\ UNCHANGED <<kind, setup, phase, slots, jobs, precooked, next, flight,
                   rep, dropped, faults>>

Scoped == Quarantine(Select(cases, setup.grep, setup.limit), setup.deny)

\* Discover's Wait returns, with the first error or with the cases, which
\* Select and Quarantine narrow.
Discovered ==
    /\ phase = "parse"
    /\ \A n \in DOMAIN cases : cases[n] # Unread
    /\ IF err
       THEN phase' = "error" /\ UNCHANGED <<cases, slots>>
       ELSE /\ phase' = "compose"
            /\ cases' = Scoped
            /\ slots' = [n \in DOMAIN cases' |-> Blank]
    /\ UNCHANGED <<kind, setup, err, jobs, precooked, next, flight, rep,
                   dropped, faults>>

\* Slip: a task appends its jobs to those of the tasks that ended before.
ComposeCase_Slip(n) ==
    /\ phase = "compose"
    /\ InPool(n, LAMBDA m : slots[m].done)
    /\ LET at  == 1 + Cardinality({m \in DOMAIN slots : slots[m].done})
           new == Slot(cases[n], kind[cases[n]])
           put == [slots EXCEPT ![at].jobs = new.jobs, ![at].precooked = new.precooked]
       IN  slots' = [put EXCEPT ![n].done = TRUE]
    /\ UNCHANGED <<kind, setup, phase, cases, err, jobs, precooked, next,
                   flight, rep, dropped, faults>>

\* A task of Jobs composes a case in its modes, into the slot of its case.
ComposeCase(n) ==
    /\ phase = "compose"
    /\ InPool(n, LAMBDA m : slots[m].done)
    /\ slots' = [slots EXCEPT ![n] = Slot(cases[n], kind[cases[n]])]
    /\ UNCHANGED <<kind, setup, phase, cases, err, jobs, precooked, next,
                   flight, rep, dropped, faults>>

Fault == faults < MaxFaults /\ faults' = faults + 1

\* A port that exists cannot be read, or a module graph not resolved.
ComposeFails(n) ==
    /\ phase = "compose"
    /\ InPool(n, LAMBDA m : slots[m].done)
    /\ Fault
    /\ slots' = [slots EXCEPT ![n].done = TRUE]
    /\ err' = TRUE
    /\ UNCHANGED <<kind, setup, phase, cases, jobs, precooked, next, flight,
                   rep, dropped>>

Unscoped == setup.grep = Files /\ setup.limit = 0

\* Jobs' Wait returns an error.
JobsFail ==
    /\ phase = "compose"
    /\ \A n \in DOMAIN slots : slots[n].done
    /\ err
    /\ phase' = "error"
    /\ UNCHANGED <<kind, setup, cases, slots, err, jobs, precooked, next, flight,
                   rep, dropped, faults>>

\* Jobs' Wait returns; the slots are joined in case order.  An unscoped pass
\* over too many jobs is refused.  LowerOnly counts the precooked handbacks.
Composed ==
    /\ phase = "compose"
    /\ \A n \in DOMAIN slots : slots[n].done
    /\ ~err
    /\ jobs' = FlattenSeq([n \in DOMAIN slots |-> slots[n].jobs])
    /\ precooked' = FlattenSeq([n \in DOMAIN slots |-> slots[n].precooked])
    /\ phase' = IF Unscoped /\ Len(jobs') > MaxUnscoped THEN "error" ELSE "lower"
    /\ rep' = [rep EXCEPT !.handback = Len(precooked'), !.notes = Len(precooked')]
    /\ UNCHANGED <<kind, setup, cases, slots, err, next, flight, dropped, faults>>

-----------------------------------------------------------------------------
Without(i) == [k \in (DOMAIN flight) \ {i} |-> flight[k]]
At(i, s)   == [k \in (DOMAIN flight) \cup {i} |-> IF k = i THEN s ELSE flight[k]]

\* No scratch directory: LowerOnly returns what it has.
ScratchFails ==
    /\ phase = "lower"
    /\ next = 1 /\ jobs # <<>>
    /\ Fault
    /\ phase' = "reported"
    /\ dropped' = Len(jobs)
    /\ UNCHANGED <<kind, setup, cases, slots, err, jobs, precooked, next,
                   flight, rep>>

\* The loop gets a place in the semaphore and starts the next job.
Acquire ==
    /\ phase = "lower"
    /\ next <= Len(jobs)
    /\ Cardinality(DOMAIN flight) < Concurrency
    /\ flight' = At(next, "staging")
    /\ next' = next + 1
    /\ UNCHANGED <<kind, setup, phase, cases, slots, err, jobs, precooked, rep,
                   dropped, faults>>

\* MkdirAll and stageJob.
Stage(i) ==
    /\ phase = "lower"
    /\ i \in DOMAIN flight /\ flight[i] = "staging"
    /\ flight' = At(i, "compiling")
    /\ UNCHANGED <<kind, setup, phase, cases, slots, err, jobs, precooked, next,
                   rep, dropped, faults>>

\* The disk refuses: the job returns without a word.
StageFails(i) ==
    /\ phase = "lower"
    /\ i \in DOMAIN flight /\ flight[i] = "staging"
    /\ Fault
    /\ flight' = Without(i)
    /\ dropped' = dropped + 1
    /\ UNCHANGED <<kind, setup, phase, cases, slots, err, jobs, precooked, next,
                   rep>>

\* Slip: a front-end refusal is noted and not counted.
Count_Slip(o) ==
    CASE o = "lowered"  -> [rep EXCEPT !.lowered = @ + 1]
      [] o = "handback" -> [rep EXCEPT !.handback = @ + 1, !.notes = @ + 1]
      [] o = "front"    -> [rep EXCEPT !.notes = @ + 1]

Count(o) ==
    CASE o = "lowered"  -> [rep EXCEPT !.lowered = @ + 1]
      [] o = "handback" -> [rep EXCEPT !.handback = @ + 1, !.notes = @ + 1]
      [] o = "front"    -> [rep EXCEPT !.front = @ + 1, !.notes = @ + 1]

\* build.Compile returns: the job is counted under the mutex, its directory
\* removed, its place given back.
Compiled(i, o) ==
    /\ phase = "lower"
    /\ i \in DOMAIN flight /\ flight[i] = "compiling"
    /\ rep' = Count(o)
    /\ flight' = Without(i)
    /\ UNCHANGED <<kind, setup, phase, cases, slots, err, jobs, precooked, next,
                   dropped, faults>>

\* build.Compile panics; no one recovers and the process is gone.
Panics(i) ==
    /\ phase = "lower"
    /\ i \in DOMAIN flight /\ flight[i] = "compiling"
    /\ Fault
    /\ phase' = "crashed"
    /\ UNCHANGED <<kind, setup, cases, slots, err, jobs, precooked, next,
                   flight, rep, dropped>>

\* build.Compile never returns; a lower-only pass has no deadline.
Hangs(i) ==
    /\ phase = "lower"
    /\ i \in DOMAIN flight /\ flight[i] = "compiling"
    /\ Fault
    /\ flight' = At(i, "hung")
    /\ UNCHANGED <<kind, setup, phase, cases, slots, err, jobs, precooked, next,
                   rep, dropped>>

\* wg.Wait returns and the report is printed.
Report ==
    /\ phase = "lower"
    /\ next > Len(jobs)
    /\ flight = <<>>
    /\ phase' = "reported"
    /\ UNCHANGED <<kind, setup, cases, slots, err, jobs, precooked, next,
                   flight, rep, dropped, faults>>

Ended == phase \in {"reported", "error", "crashed"}
Wedged == phase = "lower" /\ \E i \in DOMAIN flight : flight[i] = "hung"

Over == (Ended \/ Wedged) /\ UNCHANGED vars

Outcomes == {"lowered", "handback", "front"}

Next ==
    \/ Walk \/ Discovered \/ JobsFail \/ Composed
    \/ \E n \in DOMAIN cases : Parse(n)
    \/ \E n \in DOMAIN slots : ComposeCase(n) \/ ComposeFails(n)
    \/ ScratchFails \/ Acquire \/ Report
    \/ \E i \in DOMAIN flight :
          \/ Stage(i) \/ StageFails(i) \/ Panics(i) \/ Hangs(i)
          \/ \E o \in Outcomes : Compiled(i, o)
    \/ Over

Spec == Init /\ [][Next]_vars

-----------------------------------------------------------------------------
Selected == phase \in {"lower", "reported", "crashed"}

\* Path order: the file, then the mode.
PathBefore(a, b) ==
    \/ a[1] < b[1]
    \/ a[1] = b[1] /\ a[2] = "sloppy" /\ b[2] = "strict"

\* No two prefixes hold the same file.
Disjoint(prefixes) ==
    \A m, n \in DOMAIN prefixes : m # n => prefixes[m] \cap prefixes[n] = {}

\* Two files that the walk meets in path order: under one prefix, or under any if
\* the prefixes are in path order themselves.
WalkedByPath(prefixes, f, g) ==
    \/ \E n \in DOMAIN prefixes : f \in prefixes[n] /\ g \in prefixes[n]
    \/ \A m, n \in DOMAIN prefixes : m < n =>
          \A x \in prefixes[m], y \in prefixes[n] : x < y

Ids(s) == [n \in DOMAIN s |-> s[n].id]

\* Whatever order the tasks of the two pools end in: each mode of each file that
\* grep and the denylist let through is a job or a precooked handback, and
\* neither is made of a file that is quarantined, a fixture or outside of the
\* prefixes; a limit may leave files out.  If no two prefixes hold the same file,
\* no job and no handback is there twice; under one prefix, and everywhere if the
\* prefixes are in path order, they are in path order, and what a limit leaves
\* out comes after all it keeps.  (Across prefixes in another order, as those of
\* the default filter, Discover does not sort.)
JobsAreTheScopeInOrder ==
    LET wanted == {f \in (UNION Range(setup.prefixes)) \cap setup.grep :
                      f \notin setup.deny /\ ~kind[f].fixture}
        modes  == {p \in wanted \X {"raw", "module", "strict", "sloppy"} :
                      p[2] \in Range(ModesOf(kind[p[1]]))}
        got    == Range(Ids(jobs)) \cup Range(Ids(precooked))
    IN  Selected =>
        /\ got \subseteq modes
        /\ setup.limit <= 0 => got = modes
        /\ Range(Ids(jobs)) \cap Range(Ids(precooked)) = {}
        /\ Disjoint(setup.prefixes) =>
              /\ \A s \in {Ids(jobs), Ids(precooked)} : \A m, n \in DOMAIN s :
                    m < n =>
                        /\ s[m] # s[n]
                        /\ WalkedByPath(setup.prefixes, s[m][1], s[n][1]) =>
                              PathBefore(s[m], s[n])
              /\ \A p \in modes, q \in got :
                    p[1] < q[1] /\ WalkedByPath(setup.prefixes, p[1], q[1])
                        => p \in got

\* No more checkers are alive than fit the memory, and the worker counts and
\* soft limits of a full run fit it too; but for -jobs 0, which is below every
\* cap and which RunAll takes for eight workers.
MemoryIsRespected ==
    setup.ram > 0 =>
        /\ \/ Cardinality(DOMAIN flight) <= 1
           \/ Cardinality(DOMAIN flight) * PerWorker <= MemoryLimitBytes(setup.ram)
        /\ setup.request > 0 =>
              /\ RunAllWorkers = 1 \/ RunAllWorkers * PerWorker
                                        <= MemoryLimitBytes(setup.ram)
              /\ RunAllWorkers * PerWorkerLimit <= MemoryLimitBytes(setup.ram)

\* The report accounts for every job but those whose files could not be
\* staged, and gives a reason for each that was refused.
ReportAddsUp ==
    phase = "reported" =>
        /\ rep.lowered + rep.handback + rep.front + dropped
              = Len(jobs) + Len(precooked)
        /\ rep.notes = rep.handback + rep.front

\* The audit's list of includes and Compose's agree on every job that loads
\* includes (raw tests and those declined for their host flag load none): with
\* no unported include in the audit's list the job is composed, and otherwise
\* it is handed back, on one of the unported includes the audit counts it for.
AuditAgreesWithCompose ==
    Selected =>
        \A n \in DOMAIN cases : LET k == kind[cases[n]] IN
        \A m \in Range(ModesOf(k)) :
            LET gates == {name \in Range(IncludeNames(k)) \ Ported :
                             <<n, m>> \in Reach(name, cases, kind)}
                waits == {p.blame : p \in {q \in Range(precooked) :
                                              q.id = <<cases[n], m>>}}
            IN  m # "raw" /\ "CanBlockIsFalse" \notin k.flags =>
                    IF gates = {} THEN waits = {}
                                  ELSE \E name \in gates : waits = {name}
=============================================================================
