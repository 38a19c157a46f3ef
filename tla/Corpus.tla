------------------------------- MODULE Corpus -------------------------------
(***************************************************************************)
(* From test files to jobs: what Discover, Select and Jobs                 *)
(* (pkg/tc39/discover.go), Quarantine (denylist.go), Compose (compose.go)  *)
(* and AuditIncludes (includes.go) compute.  A file is its place in the    *)
(* order WalkDir visits the checkout; kind gives what its frontmatter      *)
(* says.  The concurrency of the pools is in LowerOnly.                    *)
(*                                                                         *)
(* The names ending in _Slip are deliberate slips in one definition each;  *)
(* nothing in the specification uses them.                                 *)
(***************************************************************************)
EXTENDS Naturals, Sequences, SequencesExt, FiniteSets, FiniteSetsExt,
        Functions

CONSTANTS
    Kinds,      \* the frontmatters of the instance
    Ported      \* the include names with a file under the ports directory

\* "none" and "host" stand for no blame and the host flag; no include has such
\* a name.
ASSUME CorpusAssumption ==
    \A k \in Kinds :
        /\ k.fixture \in BOOLEAN /\ k.parses \in BOOLEAN
        /\ k.includes \in Seq(STRING \ {"none", "host"})
        /\ k.flags \subseteq {"raw", "module", "onlyStrict", "noStrict",
                              "CanBlockIsFalse", "async"}

\* The elements of s that are in T, in their order: a loop that appends.
Only(s, T) ==
    FlattenSeq([n \in DOMAIN s |-> IF s[n] \in T THEN <<s[n]>> ELSE <<>>])

\* The walk of one prefix after the other; fixtures are not tests.
Walked(prefixes, kind) ==
    FlattenSeq([n \in DOMAIN prefixes |->
        Only([f \in DOMAIN kind |-> f], {f \in prefixes[n] : ~kind[f].fixture})])

\* Select: grep keeps the files whose path contains it, limit the first ones.
Select(cases, grep, limit) ==
    LET kept == Only(cases, grep)
    IN  IF limit > 0 /\ Len(kept) > limit THEN SubSeq(kept, 1, limit) ELSE kept

Quarantine(cases, deny) == Only(cases, Range(cases) \ deny)

\* modesOf: the first flag that decides.
ModesOf(k) ==
    CASE "raw" \in k.flags        -> <<"raw">>
      [] "module" \in k.flags     -> <<"module">>
      [] "onlyStrict" \in k.flags -> <<"strict">>
      [] "noStrict" \in k.flags   -> <<"sloppy">>
      [] OTHER                    -> <<"sloppy", "strict">>

\* Compose's own list of the includes it loads, before the repeats are skipped.
ComposeNames(k) ==
    <<"sta.js", "assert.js">> \o k.includes
        \o (IF "async" \in k.flags THEN <<"doneprintHandle.js">> ELSE <<>>)

\* What keeps Compose from composing: the host flag, or the first include
\* without a port; a raw test loads no include.
Blame(k, mode) ==
    LET names == ComposeNames(k)
        lost  == {n \in DOMAIN names : names[n] \notin Ported}
    IN  IF "CanBlockIsFalse" \in k.flags   THEN "host"
        ELSE IF mode = "raw" \/ lost = {} THEN "none"
        ELSE names[Min(lost)]

\* One case's slot in Jobs: its jobs and its precooked handbacks.
Slot(f, k) ==
    LET all == [n \in DOMAIN ModesOf(k) |->
                   [id |-> <<f, ModesOf(k)[n]>>, blame |-> Blame(k, ModesOf(k)[n])]]
    IN  [done      |-> TRUE,
         jobs      |-> Only(all, {j \in Range(all) : j.blame = "none"}),
         precooked |-> Only(all, {j \in Range(all) : j.blame # "none"})]

\* Slip: the audit's list forgets the completion handler of an async test.
IncludeNames_Slip(k) ==
    LET all == <<"sta.js", "assert.js">> \o k.includes
    IN  FlattenSeq([n \in DOMAIN all |->
            IF \E i \in 1..(n - 1) : all[i] = all[n] THEN <<>> ELSE <<all[n]>>])

\* includeNames, the audit's own list: in order, each name where it is first.
IncludeNames(k) ==
    LET all == <<"sta.js", "assert.js">> \o k.includes
               \o (IF "async" \in k.flags THEN <<"doneprintHandle.js">> ELSE <<>>)
    IN  FlattenSeq([n \in DOMAIN all |->
            IF \E i \in 1..(n - 1) : all[i] = all[n] THEN <<>> ELSE <<all[n]>>])

\* AuditIncludes: the jobs the report counts for an include.
Reach(name, cases, kind) ==
    {p \in (DOMAIN cases) \X {"raw", "module", "strict", "sloppy"} :
        /\ name \in Range(IncludeNames(kind[cases[p[1]]]))
        /\ p[2] \in Range(ModesOf(kind[cases[p[1]]]))}
=============================================================================
