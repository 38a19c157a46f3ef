----------------------------- MODULE StagedRoots -----------------------------
(***************************************************************************)
(* What a run leaves under the cache directory, by bento version, over     *)
(* several runs: the staged module roots of PrepareModuleRoot and          *)
(* pruneStagedRoots (pkg/tc39/aot.go) and the results files of             *)
(* PruneResultsCaches (pkg/tc39/cache.go), in the order runMain            *)
(* (cmd/bento262/main.go) drives them.  A run may be killed anywhere, in   *)
(* the middle of a removal or of the copy too, and bento may be edited     *)
(* while it is copied.  One run at a time uses the directory.              *)
(*                                                                         *)
(* A module tree is two files: go.mod at its top, and pkg for all that is  *)
(* further down.  A tree of the module cache is read-only, and so is a     *)
(* copy of it until chmod has run: nothing can be removed from a read-only *)
(* directory.                                                              *)
(*                                                                         *)
(* The names ending in _Slip are deliberate slips in one definition each;  *)
(* nothing in the specification uses them.                                 *)
(***************************************************************************)
EXTENDS Naturals, Sequences, SequencesExt, FiniteSets

CONSTANTS
    Versions,   \* list version and content fingerprint
    Keep,       \* 3 in both prunes
    MaxRuns, MaxKills, MaxEdits,    \* bounds
    None

\* What is in a staged directory, of which version, and which of its
\* directories are read-only.
Dirs == [gomod : Versions \cup {None}, pkg : Versions \cup {None},
         lock : {"none", "sub", "all"}]

ASSUME StagedRootsAssumption ==
    /\ IsFiniteSet(Versions) /\ None \notin Versions
    /\ \A d \in Dirs : d # None
    /\ Keep \in Nat \ {0}
    /\ MaxRuns \in Nat /\ MaxKills \in Nat /\ MaxEdits \in Nat

Root(v) == <<"root", v>>
Tmp(v)  == <<"tmp", v>>
Names   == {"root", "tmp"} \X Versions
Files   == {"gomod", "pkg"}

VARIABLES
    phase,      \* where runMain is
    ver,        \* the version PrepareModuleRoot computed
    tree,       \* the version of the bento source now
    readonly,   \* the source is in the module cache
    todo,       \* what a prune has left to remove
    dirs,       \* the bento-* directories: files, by version, and what is locked
    age,        \* their names, by modification time, newest last
    rage,       \* the versions with a results file, newest last
    rtmp,       \* the versions with a results file Save did not rename
    \* history
    failed,     \* the run could not stage or warm its root
    hurt,       \* versions hit by a cut removal, a cut read-only copy, an edit
    strays,     \* stagings begun since the last prune of roots ended
    torn,       \* kills in a Save
    runs, kills, edits

rootVars == <<dirs, age>>
resVars  == <<rage, rtmp>>
histVars == <<failed, hurt, strays, torn>>
counts   == <<runs, kills, edits>>
vars == <<phase, ver, tree, readonly, todo, dirs, age, rage, rtmp, failed,
          hurt, strays, torn, runs, kills, edits>>

Touch(s, x)  == Append(RemoveFirst(s, x), x)
Listed(s)    == {s[n] : n \in DOMAIN s}
Empty        == [gomod |-> None, pkg |-> None, lock |-> "none"]
Whole(d, v)  == d # None /\ d.gomod = v /\ d.pkg = v

Init ==
    /\ phase = "down" /\ ver = None /\ todo = {}
    /\ tree \in Versions
    /\ readonly \in BOOLEAN
    /\ dirs = [n \in Names |-> None]
    /\ age = <<>> /\ rage = <<>> /\ rtmp = {}
    /\ failed = FALSE /\ hurt = {} /\ strays = 0 /\ torn = 0
    /\ runs = 0 /\ kills = 0 /\ edits = 0

Goto(p) == phase' = p /\ UNCHANGED <<ver, tree, readonly>>

\* The run is over.
Exit == phase' = "down" /\ ver' = None /\ todo' = {}

-----------------------------------------------------------------------------
\* os.RemoveAll of a directory: all of it, or what its locks leave.
Removed(d) ==
    IF d = None \/ d.lock = "none" THEN None
    ELSE IF d.lock = "sub" THEN [d EXCEPT !.gomod = None] ELSE d

\* The directories and their order after n became d.
SetDir(n, d) ==
    /\ dirs' = [dirs EXCEPT ![n] = d]
    /\ age' = IF d = None THEN RemoveFirst(age, n)
              ELSE IF d = dirs[n] THEN age ELSE Touch(age, n)

\* A version is whole again when nothing of it is left.
Forgotten(n, d) ==
    IF d = None /\ \A m \in {Root(n[2]), Tmp(n[2])} \ {n} : dirs[m] = None
    THEN hurt \ {n[2]} ELSE hurt

Start(v) ==
    /\ phase = "down"
    /\ runs < MaxRuns
    /\ runs' = runs + 1
    /\ phase' = "locate"
    /\ ver' = v
    /\ tree' = v
    /\ failed' = FALSE
    /\ UNCHANGED <<readonly, todo, rootVars, resVars, hurt, strays,
                   torn, kills, edits>>

\* The stat PrepareModuleRoot makes.
Staged == dirs[Root(ver)] # None /\ dirs[Root(ver)].gomod # None

Reuse ==
    /\ phase = "locate"
    /\ Staged
    /\ Goto("warm")
    /\ UNCHANGED <<todo, rootVars, resVars, histVars, counts>>

\* Slip: the temporary directory is not cleared.
Clear_Slip ==
    /\ phase = "locate"
    /\ ~Staged
    /\ Goto("copy")
    /\ strays' = strays + 1
    /\ UNCHANGED <<todo, rootVars, resVars, failed, hurt, torn, counts>>

\* Not staged: the temporary directory is cleared, and what cannot be removed
\* stays.
Clear ==
    /\ phase = "locate"
    /\ ~Staged
    /\ SetDir(Tmp(ver), Removed(dirs[Tmp(ver)]))
    /\ Goto("copy")
    /\ strays' = strays + 1
    /\ UNCHANGED <<todo, resVars, failed, hurt, torn, counts>>

\* cp -R makes the directory.
CopyBegins ==
    /\ phase = "copy"
    /\ dirs[Tmp(ver)] = None
    /\ SetDir(Tmp(ver), Empty)
    /\ Goto("copying")
    /\ UNCHANGED <<todo, resVars, histVars, counts>>

\* The directory exists: cp -R copies into it, beside what is there.
CopyNested ==
    /\ phase = "copy"
    /\ dirs[Tmp(ver)] # None /\ dirs[Tmp(ver)].lock # "all"
    /\ age' = Touch(age, Tmp(ver))
    /\ Goto("unlock")
    /\ UNCHANGED <<todo, dirs, resVars, histVars, counts>>

\* cp copies one file of the two, as the source is now; a directory gets its
\* own mode once it is filled.
CopyOne(f) ==
    /\ phase = "copying"
    /\ dirs[Tmp(ver)][f] = None
    /\ LET d   == [dirs[Tmp(ver)] EXCEPT ![f] = tree]
           all == \A g \in Files : d[g] # None
       IN  /\ SetDir(Tmp(ver), [d EXCEPT !.lock =
                 IF ~readonly \/ d.pkg = None THEN "none"
                 ELSE IF all THEN "all" ELSE "sub"])
           /\ Goto(IF all THEN "unlock" ELSE "copying")
    /\ hurt' = IF tree = ver THEN hurt ELSE hurt \cup {ver}
    /\ UNCHANGED <<todo, resVars, failed, strays, torn, counts>>

\* chmod -R u+w
Unlock ==
    /\ phase = "unlock"
    /\ dirs' = [dirs EXCEPT ![Tmp(ver)].lock = "none"]
    /\ Goto("rename")
    /\ UNCHANGED <<todo, age, resVars, histVars, counts>>

\* os.Rename, which keeps the directory's own time.
Rename ==
    /\ phase = "rename"
    /\ dirs[Root(ver)] = None
    /\ dirs' = [dirs EXCEPT ![Root(ver)] = dirs[Tmp(ver)], ![Tmp(ver)] = None]
    /\ age' = ReplaceAll(age, Tmp(ver), Root(ver))
    /\ Goto("warmnew")
    /\ UNCHANGED <<todo, resVars, histVars, counts>>

\* Slip: one directory too many stays.
Victims_Slip ==
    IF Len(age) <= Keep + 1 THEN {}
    ELSE {age[n] : n \in 1..(Len(age) - Keep - 1)} \ {Root(ver)}

\* pruneStagedRoots: all but the Keep newest directories and the run's own.
Victims ==
    IF Len(age) <= Keep THEN {}
    ELSE {age[n] : n \in 1..(Len(age) - Keep)} \ {Root(ver)}

\* WarmDeps of a new root goes through.  In a root that is not whole it may
\* too: go build only warns of a pattern that matches no package.
WarmNew ==
    /\ phase = "warmnew"
    /\ Goto("prune")
    /\ todo' = Victims
    /\ UNCHANGED <<rootVars, resVars, histVars, counts>>

PruneRoot(n) ==
    /\ phase = "prune"
    /\ n \in todo
    /\ todo' = todo \ {n}
    /\ SetDir(n, Removed(dirs[n]))
    /\ hurt' = Forgotten(n, Removed(dirs[n]))
    /\ UNCHANGED <<phase, ver, tree, readonly, resVars, failed, strays,
                   torn, counts>>

PruneRootsEnds ==
    /\ phase = "prune"
    /\ todo = {}
    /\ Goto("warm")
    /\ strays' = 0
    /\ UNCHANGED <<todo, rootVars, resVars, failed, hurt, torn, counts>>

\* PrepareModuleRoot or the second WarmDeps returns an error: cp into a
\* read-only directory, the rename onto a directory that exists, a go build in
\* a root that is not whole.
Fails ==
    /\ \/ phase = "copy" /\ dirs[Tmp(ver)] # None /\ dirs[Tmp(ver)].lock = "all"
       \/ phase = "rename" /\ dirs[Root(ver)] # None
       \/ phase \in {"warmnew", "warm"} /\ ~Whole(dirs[Root(ver)], ver)
    /\ failed' = TRUE
    /\ phase' = "down" /\ todo' = {}
    /\ UNCHANGED <<ver, tree, readonly, rootVars, resVars, hurt, strays,
                   torn, counts>>

-----------------------------------------------------------------------------
\* PruneResultsCaches: all but the Keep newest files and the run's own, which
\* a new version does not have yet.
OldResults ==
    IF Len(rage) <= Keep THEN {}
    ELSE {rage[n] : n \in 1..(Len(rage) - Keep)} \ {ver}

\* SweepBuildDirs, which may touch the root; WarmDeps; LoadCache.
Warm ==
    /\ phase = "warm"
    /\ age' \in {age, Touch(age, Root(ver))}
    /\ Goto("files")
    /\ todo' = OldResults
    /\ UNCHANGED <<dirs, resVars, histVars, counts>>

PruneFile(v) ==
    /\ phase = "files"
    /\ v \in todo
    /\ todo' = todo \ {v}
    /\ rage' = RemoveFirst(rage, v)
    /\ UNCHANGED <<phase, ver, tree, readonly, rootVars, rtmp, histVars, counts>>

\* BeginStream creates the file if there is none.
BeginStream ==
    /\ phase = "files"
    /\ todo = {}
    /\ rage' = IF ver \in Listed(rage) THEN rage ELSE Append(rage, ver)
    /\ Goto("up")
    /\ UNCHANGED <<todo, rootVars, rtmp, histVars, counts>>

\* The jobs run.  A job that is built makes a directory in the root; one that
\* is not replayed adds a line to the results, and Save opens its temporary
\* file.
Work ==
    /\ phase = "up"
    /\ age' \in {age, Touch(age, Root(ver))}
    /\ rage' = Touch(rage, ver)
    /\ rtmp' = rtmp \cup {ver}
    /\ Goto("saving")
    /\ UNCHANGED <<todo, dirs, histVars, counts>>

\* Every job was replayed: Save leaves the file alone.
Replay ==
    /\ phase = "up"
    /\ Exit
    /\ UNCHANGED <<tree, readonly, rootVars, resVars, histVars, counts>>

SaveRenames ==
    /\ phase = "saving"
    /\ rtmp' = rtmp \ {ver}
    /\ rage' = Touch(rage, ver)
    /\ Exit
    /\ UNCHANGED <<tree, readonly, rootVars, failed, hurt, strays, torn, counts>>

-----------------------------------------------------------------------------
\* A kill between two steps, or any other error that ends the run (cp on a
\* full disk, Discover).  It hurts a read-only copy chmod has not reached.
Kill ==
    /\ phase # "down"
    /\ kills < MaxKills
    /\ kills' = kills + 1
    /\ hurt' = IF phase \in {"copying", "unlock"} /\ dirs[Tmp(ver)].lock # "none"
               THEN hurt \cup {ver} ELSE hurt
    /\ torn' = IF phase = "saving" THEN torn + 1 ELSE torn
    /\ Exit
    /\ UNCHANGED <<tree, readonly, rootVars, resVars, failed, strays, runs, edits>>

\* A kill in the middle of a RemoveAll: some file is gone and the directory is
\* not.
KillRemoving(n) ==
    /\ \/ phase = "prune" /\ n \in todo
       \/ phase = "locate" /\ ~Staged /\ n = Tmp(ver)
    /\ kills < MaxKills
    /\ kills' = kills + 1
    /\ dirs[n] # None /\ dirs[n].lock = "none"
    /\ \E gone \in (SUBSET Files) \ {{}} :
          SetDir(n, [f \in DOMAIN dirs[n] |-> IF f \in gone THEN None
                                                           ELSE dirs[n][f]])
    /\ hurt' = IF n[1] = "root" THEN hurt \cup {n[2]} ELSE hurt
    /\ Exit
    /\ UNCHANGED <<tree, readonly, resVars, failed, strays, torn, runs,
                   edits>>

\* The source is edited, or checked out, while it is being staged.
Edit(v) ==
    /\ phase \in {"locate", "copy", "copying"}
    /\ edits < MaxEdits
    /\ edits' = edits + 1
    /\ tree' = v
    /\ UNCHANGED <<phase, ver, readonly, todo, rootVars, resVars, histVars,
                   runs, kills>>

Over == phase = "down" /\ runs = MaxRuns /\ UNCHANGED vars

Next ==
    \/ \E v \in Versions : Start(v) \/ PruneFile(v) \/ Edit(v)
    \/ \E f \in Files : CopyOne(f)
    \/ \E n \in Names : PruneRoot(n) \/ KillRemoving(n)
    \/ Reuse \/ Clear \/ CopyBegins \/ CopyNested \/ Unlock \/ Rename
    \/ WarmNew \/ PruneRootsEnds \/ Fails
    \/ Warm \/ BeginStream \/ Work \/ Replay \/ SaveRenames
    \/ Kill
    \/ Over

Spec == Init /\ [][Next]_vars

-----------------------------------------------------------------------------
\* Every variable has its type; age and rage list what there is, once each.
TypeOK ==
    /\ phase \in {"down", "locate", "copy", "copying", "unlock", "rename",
                  "warmnew", "prune", "warm", "files", "up", "saving"}
    /\ ver \in Versions \cup {None} /\ tree \in Versions /\ readonly \in BOOLEAN
    /\ todo \subseteq Names \cup Versions
    /\ dirs \in [Names -> Dirs \cup {None}]
    /\ \A v \in Versions : dirs[Root(v)] # None => dirs[Root(v)].lock = "none"
    /\ IsInjective(age) /\ Listed(age) = {n \in Names : dirs[n] # None}
    /\ IsInjective(rage) /\ Listed(rage) \subseteq Versions
    /\ rtmp \subseteq Versions
    /\ failed \in BOOLEAN /\ hurt \subseteq Versions
    /\ strays \in Nat /\ torn \in Nat

\* From the moment PrepareModuleRoot returns, the root a run builds in is the
\* whole module of the version the results are filed under, and staging never
\* fails: a kill in the copy, in the clearing of the temporary directory or
\* before the rename is made good by the next run.  Except for a version hit by
\* a prune that was cut short, by a kill between the copy of a read-only source
\* and its chmod, or by an edit between the fingerprint and the end of the copy.
RootIsWhole ==
    ver # None /\ ver \notin hurt =>
        /\ ~failed
        /\ phase \in {"prune", "warm", "files", "up", "saving"} =>
              Whole(dirs[Root(ver)], ver)

Stuck == {n \in Names : dirs[n] # None /\ dirs[n].lock # "none"}

\* Nothing piles up from run to run.  Of the staged directories Keep are left
\* by a prune, each staging since adds one, and a read-only copy cannot be
\* pruned.  Of the results files there are those of the versions before and the
\* run's own; but a kill in a Save leaves a temporary file that no prune knows.
NothingPilesUp ==
    /\ Len(age) <= Keep + strays + Cardinality(Stuck)
    /\ Len(rage) <= Keep + 1 /\ Cardinality(rtmp) <= torn + 1
=============================================================================
