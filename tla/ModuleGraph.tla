----------------------------- MODULE ModuleGraph -----------------------------
(***************************************************************************)
(* resolveModuleGraph and stageJob (pkg/tc39/modulegraph.go): the worklist *)
(* that follows a module test's relative imports through the corpus, and   *)
(* the scratch tree the front end then resolves them in.                   *)
(*                                                                         *)
(* A path is a sequence of components below the directory of the test,     *)
(* the last of them the name of a file, without its extension.  Place      *)
(* gives each file its path and extension; its content is the sequence of  *)
(* its specifiers.  Every staged file is a .ts, so a staged name is a      *)
(* path.                                                                   *)
(*                                                                         *)
(* The names ending in _Slip are deliberate slips in one definition each;  *)
(* nothing in the specification uses them.                                 *)
(***************************************************************************)
EXTENDS Naturals, Sequences, SequencesExt, FiniteSets, Functions

CONSTANTS
    Place,      \* file -> its path and extension
    Entry,      \* the test's file
    Corpora     \* the corpora: file -> whether it is there, and its imports

Paths      == {p \in Seq(STRING) : p # <<>> /\ Last(p) \notin {".", ".."}}
Places     == [path : Paths, ext : {"js", "ts"}]
Specifiers == [rel : BOOLEAN, path : Paths, ext : {"js", "ts"}]

ASSUME ModuleGraphAssumption ==
    /\ Entry \in DOMAIN Place /\ Len(Place[Entry].path) = 1
    /\ Place \in [DOMAIN Place -> Places] /\ IsInjective(Place)
    /\ \A c \in Corpora :
          /\ c[Entry].there
          /\ \A f \in DOMAIN Place : c[f].imports \in Seq(Specifiers)

VARIABLES
    corpus,
    queue,      \* the worklist: a directory and the specifiers still to read
    visited,    \* the staged names taken
    out,        \* the staged modules: a name and the file its source is from
    tree,       \* the scratch directory: name -> file
    pc          \* "walk", "staged"

graphVars == <<corpus, queue, visited, out, tree, pc>>

Files     == {f \in DOMAIN Place : corpus[f].there}
EntryName == Place[Entry].path
Dir(f)    == Front(Place[f].path)

-----------------------------------------------------------------------------
\* filepath.Clean: a "." goes, and a ".." takes away the component before it.
Into(dir, c) ==
    IF c = "." THEN dir
    ELSE IF c = ".." /\ dir # <<>> /\ Last(dir) # ".." THEN Front(dir)
    ELSE Append(dir, c)

Clean(path) ==
    LET upto[n \in 0..Len(path)] == IF n = 0 THEN <<>> ELSE Into(upto[n - 1], path[n])
    IN  upto[Len(path)]

\* The relative specifiers of a source, in order, each once.
Noted(seen, s) == IF s.rel /\ ~Contains(seen, s) THEN Append(seen, s) ELSE seen

RelativeSpecifiers(imports) ==
    LET upto[n \in 0..Len(imports)] == IF n = 0 THEN <<>> ELSE Noted(upto[n - 1], imports[n])
    IN  upto[Len(imports)]

\* Both extensions become .ts.  The importer's directory has no part in it.
StagedName(spec) == Clean(spec.path)

Climbs(spec) == Head(StagedName(spec)) = ".."

Target(dir, spec) == [path |-> Clean(dir \o spec.path), ext |-> spec.ext]

\* The file as written, else the .ts beside a .js; empty if there is neither.
ReadModuleFile(target) ==
    LET At(place) == {f \in Files : Place[f] = place}
    IN  IF At(target) # {} THEN At(target) ELSE At([target EXCEPT !.ext = "ts"])

-----------------------------------------------------------------------------
\* Slip: the test's own name is not taken.
Seed_Slip == {}

Seed == {EntryName}

GraphInit ==
    /\ corpus \in Corpora
    /\ queue = <<[dir |-> <<>>, specs |-> RelativeSpecifiers(corpus[Entry].imports)]>>
    /\ visited = Seed
    /\ out = <<>> /\ tree = <<>> /\ pc = "walk"

\* A specifier of the work at hand, and the worklist without it.
AtSpecifier == pc = "walk" /\ queue # <<>> /\ Head(queue).specs # <<>>
Spec1       == Head(Head(queue).specs)
Rest        == <<[Head(queue) EXCEPT !.specs = Tail(@)]>> \o Tail(queue)

\* It climbs out of the test's directory, or its name is taken.
Skip ==
    /\ AtSpecifier
    /\ Climbs(Spec1) \/ StagedName(Spec1) \in visited
    /\ queue' = Rest
    /\ UNCHANGED <<corpus, visited, out, tree, pc>>

\* Nothing can be read there; the name is taken all the same.
Missing ==
    /\ AtSpecifier
    /\ ~Climbs(Spec1) /\ StagedName(Spec1) \notin visited
    /\ ReadModuleFile(Target(Head(queue).dir, Spec1)) = {}
    /\ visited' = visited \cup {StagedName(Spec1)}
    /\ queue' = Rest
    /\ UNCHANGED <<corpus, out, tree, pc>>

\* Slip: what the module imports is not followed.
Follow_Slip(f) == <<>>

Follow(f) == <<[dir |-> Dir(f), specs |-> RelativeSpecifiers(corpus[f].imports)]>>

\* The module is staged and its own imports are queued.
Stage ==
    /\ AtSpecifier
    /\ ~Climbs(Spec1) /\ StagedName(Spec1) \notin visited
    /\ \E f \in ReadModuleFile(Target(Head(queue).dir, Spec1)) :
          /\ out' = Append(out, [name |-> StagedName(Spec1), from |-> f])
          /\ queue' = Rest \o Follow(f)
    /\ visited' = visited \cup {StagedName(Spec1)}
    /\ UNCHANGED <<corpus, tree, pc>>

\* Slip: the work that is finished stays at the head.
Pop_Slip ==
    /\ pc = "walk" /\ queue # <<>> /\ Head(queue).specs = <<>>
    /\ UNCHANGED graphVars

Pop ==
    /\ pc = "walk" /\ queue # <<>> /\ Head(queue).specs = <<>>
    /\ queue' = Tail(queue)
    /\ UNCHANGED <<corpus, visited, out, tree, pc>>

\* stageJob writes the modules in their order, and the entry last.
Writes == Append(out, [name |-> EntryName, from |-> Entry])

StageJob ==
    /\ pc = "walk" /\ queue = <<>>
    /\ tree' = [n \in {Writes[k].name : k \in DOMAIN Writes} |->
                   Writes[Max({k \in DOMAIN Writes : Writes[k].name = n})].from]
    /\ pc' = "staged"
    /\ UNCHANGED <<corpus, queue, visited, out>>

Done == pc = "staged" /\ UNCHANGED graphVars

Walk == Skip \/ Missing \/ Stage \/ Pop \/ StageJob
GraphNext == Walk \/ Done

GraphSpec     == GraphInit /\ [][GraphNext]_graphVars

\* The loop runs.
GraphFairSpec == GraphSpec /\ WF_graphVars(Walk)

-----------------------------------------------------------------------------
Staged == pc = "staged"

\* What an import of a file means in the corpus, and in the scratch tree to a
\* front end that reads the importer under its staged name.
Means(f, spec)      == ReadModuleFile(Target(Dir(f), spec))
ResolvesTo(n, spec) == LET at == Clean(Front(n) \o spec.path)
                       IN  {tree[at] : m \in {at} \cap DOMAIN tree}

Imports(f) == {s \in Range(corpus[f].imports) : s.rel}

\* The two extensions of a path share their staged name: it is there in one of
\* them, and no .js is imported as a .ts.
OneExtension ==
    /\ \A f, g \in Files : Place[f].path = Place[g].path => f = g
    /\ \A f, g \in Files : \A s \in Imports(f) :
          s.ext = "ts" /\ Target(Dir(f), s).path = Place[g].path => Place[g].ext = "ts"

\* A name is staged once, whatever cycles the imports form, and never over the
\* test itself; nothing is written outside of the scratch tree or read outside
\* of the test's directory, however a specifier is written.
OneFilePerName ==
    /\ \A m, n \in DOMAIN out : out[m].name = out[n].name => m = n
    /\ \A n \in DOMAIN out :
          /\ out[n].name # EntryName
          /\ Head(out[n].name) # ".." /\ Head(Place[out[n].from].path) # ".."
    /\ Staged => Cardinality(DOMAIN tree) = Len(out) + 1

\* Imports that stay beside the test, and sets that hold what they import.
Beside    == {f \in Files : Len(Place[f].path) = 1}
Flat      == \A f \in Beside : \A s \in Imports(f) : Len(s.path) = 1
Closed(S) == \A f \in S : \A s \in Imports(f) : Means(f, s) \subseteq S

\* What the test itself imports resolves to the file it names, and to nothing
\* if there is none, whatever else is staged: the names of its own imports are
\* taken first.  If each import in reach is a sibling, as in the corpus today,
\* then what is staged is what the test reaches, and each import of each staged
\* module resolves to the file it names.
ImportsResolveAsInCorpus ==
    Staged /\ OneExtension =>
        /\ \A s \in Imports(Entry) :
              ~Climbs(s) /\ StagedName(s) # EntryName =>
                  ResolvesTo(EntryName, s) = Means(Entry, s)
        /\ Flat =>
            /\ Closed(Range(tree))
            /\ \A S \in SUBSET Beside : Entry \in S /\ Closed(S) => Range(tree) \subseteq S
            /\ \A n \in DOMAIN tree : \A s \in Imports(tree[n]) :
                   ResolvesTo(n, s) = Means(tree[n], s)

\* The walk ends, in a staged tree, on every graph.
WalkEnds == <>Staged
=============================================================================
