------------------------- MODULE StagedRootsProofs -------------------------
(***************************************************************************)
(* Proofs about the staged module roots for any set of versions and any    *)
(* number of runs, kills and edits.                                        *)
(***************************************************************************)
EXTENDS StagedRoots, FiniteSetTheorems, TLAPS

Phases == {"down", "locate", "copy", "copying", "unlock", "rename", "warmnew",
           "prune", "warm", "files", "up", "saving"}

(***************************************************************************)
(* The inductive invariant.                                                *)
(***************************************************************************)
TypeInv ==
    /\ phase \in Phases
    /\ ver \in Versions \cup {None}
    /\ phase # "down" => ver \in Versions
    /\ tree \in Versions
    /\ dirs \in [Names -> Dirs \cup {None}]

\* A run that failed is over.
FailedIsDown == phase # "down" => ~failed

\* A root was unlocked before it got its name.
RootsAreOpen ==
    \A v \in Versions : dirs[Root(v)] # None => dirs[Root(v)].lock = "none"

\* A version that was not hurt has a whole root or none.
RootsAreWhole ==
    \A v \in Versions \ hurt : dirs[Root(v)] # None => Whole(dirs[Root(v)], v)

\* Its temporary directory holds files of that version, and can be removed
\* unless a copy is under way.
TmpsAreClean ==
    \A v \in Versions \ hurt : dirs[Tmp(v)] # None =>
        /\ dirs[Tmp(v)].gomod \in {v, None} /\ dirs[Tmp(v)].pkg \in {v, None}
        /\ ~(phase \in {"copying", "unlock"} /\ v = ver) => dirs[Tmp(v)].lock = "none"

\* Where the run is in staging its root, hurt or not.
StagingIsOn ==
    /\ phase \in {"copying", "unlock", "rename"} => dirs[Tmp(ver)] # None
    /\ phase = "rename" => dirs[Tmp(ver)].lock = "none"
    /\ phase \in {"warmnew", "prune", "warm", "files", "up", "saving"}
          => dirs[Root(ver)] # None
    /\ phase = "prune" => Root(ver) \notin todo

\* The same of a version that was not hurt: nothing is in the way of the copy
\* or of the rename, and what is renamed is whole.
StagingIsClean ==
    ver \in Versions \ hurt =>
        /\ phase \in {"copy", "copying", "unlock", "rename"} => dirs[Root(ver)] = None
        /\ phase = "copy" => dirs[Tmp(ver)] = None
        /\ phase \in {"unlock", "rename"} => Whole(dirs[Tmp(ver)], ver)

NotFailed == ver # None /\ ver \notin hurt => ~failed

Inv ==
    /\ TypeInv
    /\ FailedIsDown
    /\ RootsAreOpen
    /\ RootsAreWhole
    /\ TmpsAreClean
    /\ StagingIsOn
    /\ StagingIsClean
    /\ NotFailed

(***************************************************************************)
(* Names and directories.                                                  *)
(***************************************************************************)
LEMMA NameFacts ==
    /\ \A v \in Versions : Root(v) \in Names /\ Tmp(v) \in Names
    /\ \A v, w \in Versions :
          /\ Root(v) # Tmp(w)
          /\ Root(v) = Root(w) => v = w
          /\ Tmp(v) = Tmp(w) => v = w
BY DEF Root, Tmp, Names

LEMMA NameSplit ==
    ASSUME NEW n \in Names
    PROVE  /\ n[2] \in Versions
           /\ \/ n[1] = "root" /\ n = Root(n[2])
              \/ n[1] = "tmp" /\ n = Tmp(n[2])
<1>1. n[1] \in {"root", "tmp"} /\ n[2] \in Versions /\ n = <<n[1], n[2]>>
  BY DEF Names
<1> QED
  BY <1>1 DEF Root, Tmp

LEMMA DirFacts ==
    ASSUME NEW d \in Dirs
    PROVE  /\ d # None
           /\ d.gomod \in Versions \cup {None} /\ d.pkg \in Versions \cup {None}
           /\ d.lock \in {"none", "sub", "all"}
BY StagedRootsAssumption DEF Dirs

LEMMA EmptyFacts ==
    Empty \in Dirs /\ Empty.gomod = None /\ Empty.pkg = None /\ Empty.lock = "none"
BY DEF Dirs, Empty

\* What can be removed is gone, and nothing is made of the rest.
LEMMA RemovedFacts ==
    ASSUME NEW d \in Dirs \cup {None}
    PROVE  /\ Removed(d) \in Dirs \cup {None}
           /\ d = None \/ d.lock = "none" => Removed(d) = None
<1>1. d \in Dirs => [d EXCEPT !.gomod = None] \in Dirs
  BY DEF Dirs
<1> QED
  BY <1>1 DEF Removed

LEMMA LockFacts ==
    ASSUME NEW d \in Dirs, NEW l \in {"none", "sub", "all"}
    PROVE  /\ [d EXCEPT !.lock = l] \in Dirs
           /\ [d EXCEPT !.lock = l].lock = l
           /\ [d EXCEPT !.lock = l].gomod = d.gomod
           /\ [d EXCEPT !.lock = l].pkg = d.pkg
BY DEF Dirs

\* A directory after f was copied into it.
LEMMA FileFacts ==
    ASSUME NEW d \in Dirs, NEW f \in Files, NEW v \in Versions
    PROVE  /\ [d EXCEPT ![f] = v] \in Dirs
           /\ [d EXCEPT ![f] = v].gomod = (IF f = "gomod" THEN v ELSE d.gomod)
           /\ [d EXCEPT ![f] = v].pkg = (IF f = "pkg" THEN v ELSE d.pkg)
<1>1. CASE f = "gomod"
  BY <1>1 DEF Dirs
<1>2. CASE f = "pkg"
  BY <1>2 DEF Dirs
<1> QED
  BY <1>1, <1>2 DEF Files

\* A directory some files of which are gone.
LEMMA CutFacts ==
    ASSUME NEW d \in Dirs, NEW gone \in SUBSET Files
    PROVE  LET c == [f \in DOMAIN d |-> IF f \in gone THEN None ELSE d[f]]
           IN  /\ c \in Dirs /\ c.lock = d.lock
               /\ c.gomod \in {d.gomod, None} /\ c.pkg \in {d.pkg, None}
BY DEF Dirs, Files

\* SetDir changes one directory.
LEMMA SetDirFacts ==
    ASSUME TypeInv, NEW n \in Names, NEW d \in Dirs \cup {None}, SetDir(n, d)
    PROVE  /\ dirs' \in [Names -> Dirs \cup {None}]
           /\ dirs'[n] = d
           /\ \A m \in Names \ {n} : dirs'[m] = dirs[m]
BY DEF TypeInv, SetDir

(***************************************************************************)
(* The steps.                                                              *)
(***************************************************************************)
LEMMA InvInit == Init => Inv
<1> SUFFICES ASSUME Init PROVE Inv
  OBVIOUS
<1>1. \A n \in Names : dirs[n] = None
  BY DEF Init
<1>2. TypeInv /\ FailedIsDown
  BY DEF Init, TypeInv, FailedIsDown, Phases
<1>3. RootsAreOpen /\ RootsAreWhole /\ TmpsAreClean
  BY <1>1, NameFacts DEF RootsAreOpen, RootsAreWhole, TmpsAreClean
<1>4. StagingIsOn /\ StagingIsClean /\ NotFailed
  BY DEF Init, StagingIsOn, StagingIsClean, NotFailed
<1> QED
  BY <1>2, <1>3, <1>4 DEF Inv

\* A step that leaves the directories and hurt as they are, outside of a copy.
LEMMA FrameStep ==
    ASSUME Inv, UNCHANGED <<dirs, hurt>>, TypeInv',
           phase \in {"copying", "unlock"} => phase' = phase /\ ver' = ver
    PROVE  RootsAreOpen' /\ RootsAreWhole' /\ TmpsAreClean'
BY DEF Inv, RootsAreOpen, RootsAreWhole, TmpsAreClean

LEMMA StartNext ==
    ASSUME Inv, NEW v \in Versions, Start(v) PROVE Inv'
<1> USE DEF Start, rootVars, resVars
<1>1. TypeInv'
  BY DEF Inv, TypeInv, Phases
<1>2. phase = "down" /\ UNCHANGED <<dirs, hurt>>
  OBVIOUS
<1>3. RootsAreOpen' /\ RootsAreWhole' /\ TmpsAreClean'
  BY <1>1, <1>2, FrameStep
<1>4. FailedIsDown' /\ StagingIsOn' /\ StagingIsClean' /\ NotFailed'
  BY DEF FailedIsDown, StagingIsOn, StagingIsClean, NotFailed
<1> QED
  BY <1>1, <1>3, <1>4 DEF Inv

LEMMA LocateNext ==
    ASSUME Inv, Reuse \/ Clear PROVE Inv'
<1> USE DEF rootVars, resVars, histVars, counts
<1>0. /\ TypeInv /\ FailedIsDown /\ RootsAreOpen /\ RootsAreWhole /\ TmpsAreClean
      /\ phase = "locate" /\ ver \in Versions /\ ~failed
      /\ UNCHANGED <<ver, tree, hurt, failed>>
  BY DEF Inv, Reuse, Clear, Goto, TypeInv, FailedIsDown
<1>1. CASE Reuse
  <2>1. phase' = "warm" /\ dirs' = dirs
    BY <1>1 DEF Reuse, Goto
  <2>2. TypeInv' /\ dirs'[Root(ver)] # None
    BY <1>0, <1>1, <2>1 DEF TypeInv, Phases, Reuse, Staged
  <2>3. RootsAreOpen' /\ RootsAreWhole' /\ TmpsAreClean'
    BY <1>0, <2>1, <2>2, FrameStep
  <2>4. FailedIsDown' /\ StagingIsOn' /\ StagingIsClean' /\ NotFailed'
    BY <1>0, <2>1, <2>2 DEF FailedIsDown, StagingIsOn, StagingIsClean, NotFailed
  <2> QED
    BY <2>2, <2>3, <2>4 DEF Inv
<1>2. CASE Clear
  <2>1. phase' = "copy" /\ SetDir(Tmp(ver), Removed(dirs[Tmp(ver)])) /\ ~Staged
    BY <1>2 DEF Clear, Goto
  <2>2. Tmp(ver) \in Names /\ dirs[Tmp(ver)] \in Dirs \cup {None}
    BY <1>0, NameFacts DEF TypeInv
  <2>3. /\ dirs' \in [Names -> Dirs \cup {None}]
        /\ dirs'[Tmp(ver)] = Removed(dirs[Tmp(ver)])
        /\ \A m \in Names \ {Tmp(ver)} : dirs'[m] = dirs[m]
    BY <1>0, <2>1, <2>2, RemovedFacts, SetDirFacts
  <2>4. TypeInv'
    BY <1>0, <2>1, <2>3 DEF TypeInv, Phases
  <2>5. \A v \in Versions : dirs'[Root(v)] = dirs[Root(v)]
    BY <1>0, <2>3, NameFacts
  <2>6. RootsAreOpen' /\ RootsAreWhole'
    BY <1>0, <2>5 DEF RootsAreOpen, RootsAreWhole
  <2>7. ver \notin hurt => dirs'[Tmp(ver)] = None
    BY <1>0, <2>2, <2>3, RemovedFacts DEF TmpsAreClean
  <2>8. TmpsAreClean'
    BY <1>0, <2>1, <2>3, <2>7, NameFacts DEF TmpsAreClean
  <2>9. ver \notin hurt => dirs[Root(ver)] = None
    BY <1>0, <2>1, StagedRootsAssumption DEF RootsAreWhole, Whole, Staged
  <2>10. FailedIsDown' /\ StagingIsOn' /\ StagingIsClean' /\ NotFailed'
    BY <1>0, <2>1, <2>5, <2>7, <2>9 DEF FailedIsDown, StagingIsOn, StagingIsClean,
       NotFailed
  <2> QED
    BY <2>4, <2>6, <2>8, <2>10 DEF Inv
<1> QED
  BY <1>1, <1>2

LEMMA CopyNext ==
    ASSUME Inv, CopyBegins \/ CopyNested PROVE Inv'
<1> USE DEF rootVars, resVars, histVars, counts
<1>0. /\ TypeInv /\ FailedIsDown /\ RootsAreOpen /\ RootsAreWhole /\ TmpsAreClean
      /\ StagingIsClean /\ phase = "copy" /\ ver \in Versions /\ ~failed
      /\ UNCHANGED <<ver, tree, hurt, failed>>
  BY DEF Inv, CopyBegins, CopyNested, Goto, TypeInv, FailedIsDown
<1>1. CASE CopyBegins
  <2>1. phase' = "copying" /\ SetDir(Tmp(ver), Empty)
    BY <1>1 DEF CopyBegins, Goto
  <2>2. /\ dirs' \in [Names -> Dirs \cup {None}]
        /\ dirs'[Tmp(ver)] = Empty
        /\ \A m \in Names \ {Tmp(ver)} : dirs'[m] = dirs[m]
    BY <1>0, <2>1, EmptyFacts, NameFacts, SetDirFacts
  <2>3. TypeInv' /\ FailedIsDown' /\ NotFailed'
    BY <1>0, <2>1, <2>2 DEF TypeInv, Phases, FailedIsDown, NotFailed
  <2>4. \A v \in Versions : dirs'[Root(v)] = dirs[Root(v)]
    BY <1>0, <2>2, NameFacts
  <2>5. RootsAreOpen' /\ RootsAreWhole'
    BY <1>0, <2>4 DEF RootsAreOpen, RootsAreWhole
  <2>6. TmpsAreClean'
    BY <1>0, <2>1, <2>2, NameFacts, EmptyFacts DEF TmpsAreClean
  <2>7. StagingIsOn' /\ StagingIsClean'
    BY <1>0, <2>1, <2>2, <2>4, EmptyFacts, DirFacts DEF StagingIsOn, StagingIsClean
  <2> QED
    BY <2>3, <2>5, <2>6, <2>7 DEF Inv
<1>2. CASE CopyNested
  <2>1. phase' = "unlock" /\ dirs' = dirs /\ dirs[Tmp(ver)] # None
    BY <1>2 DEF CopyNested, Goto
  <2>2. ver \in hurt
    BY <1>0, <2>1 DEF StagingIsClean
  <2>3. TypeInv' /\ FailedIsDown' /\ NotFailed'
    BY <1>0, <2>1 DEF TypeInv, Phases, FailedIsDown, NotFailed
  <2>4. RootsAreOpen' /\ RootsAreWhole' /\ TmpsAreClean'
    BY <1>0, <2>1, <2>3, FrameStep
  <2>5. StagingIsOn' /\ StagingIsClean'
    BY <1>0, <2>1, <2>2 DEF StagingIsOn, StagingIsClean
  <2> QED
    BY <2>3, <2>4, <2>5 DEF Inv
<1> QED
  BY <1>1, <1>2

LEMMA CopyOneNext ==
    ASSUME Inv, NEW f \in Files, CopyOne(f) PROVE Inv'
<1> USE DEF rootVars, resVars, histVars, counts
<1> DEFINE c   == [dirs[Tmp(ver)] EXCEPT ![f] = tree]
           all == \A g \in Files : c[g] # None
           l   == IF ~readonly \/ c.pkg = None THEN "none"
                  ELSE IF all THEN "all" ELSE "sub"
           d   == [c EXCEPT !.lock = l]
<1>0. /\ TypeInv /\ FailedIsDown /\ RootsAreOpen /\ RootsAreWhole /\ TmpsAreClean
      /\ StagingIsOn /\ StagingIsClean
      /\ phase = "copying" /\ ver \in Versions /\ tree \in Versions /\ ~failed
  BY DEF Inv, CopyOne, TypeInv, FailedIsDown
<1>1. /\ SetDir(Tmp(ver), d) /\ phase' = IF all THEN "unlock" ELSE "copying"
      /\ hurt' = IF tree = ver THEN hurt ELSE hurt \cup {ver}
      /\ UNCHANGED <<ver, tree, failed>>
  BY DEF CopyOne, Goto
<1>2. dirs[Tmp(ver)] \in Dirs /\ Tmp(ver) \in Names
  BY <1>0, NameFacts DEF TypeInv, StagingIsOn
<1>3. /\ c \in Dirs
      /\ c.gomod = (IF f = "gomod" THEN tree ELSE dirs[Tmp(ver)].gomod)
      /\ c.pkg = (IF f = "pkg" THEN tree ELSE dirs[Tmp(ver)].pkg)
  BY <1>0, <1>2, FileFacts
<1>4. l \in {"none", "sub", "all"} /\ (all => c.gomod # None /\ c.pkg # None)
  BY DEF Files
<1> HIDE DEF c, l, all
<1>5. d \in Dirs /\ d.gomod = c.gomod /\ d.pkg = c.pkg
  BY <1>3, <1>4, LockFacts
<1>6. d # None
  BY <1>5, DirFacts
<1> HIDE DEF d
<1>7. /\ dirs' \in [Names -> Dirs \cup {None}]
      /\ dirs'[Tmp(ver)] = d
      /\ \A m \in Names \ {Tmp(ver)} : dirs'[m] = dirs[m]
  BY <1>0, <1>1, <1>2, <1>5, SetDirFacts
<1>8. TypeInv' /\ FailedIsDown' /\ NotFailed'
  BY <1>0, <1>1, <1>7 DEF TypeInv, Phases, FailedIsDown, NotFailed
<1>9. \A v \in Versions : dirs'[Root(v)] = dirs[Root(v)]
  BY <1>0, <1>7, NameFacts
<1>10. RootsAreOpen' /\ RootsAreWhole'
  BY <1>0, <1>1, <1>9 DEF RootsAreOpen, RootsAreWhole
<1>11. ver \notin hurt' => d.gomod \in {ver, None} /\ d.pkg \in {ver, None}
  BY <1>0, <1>1, <1>2, <1>3, <1>5, DirFacts DEF TmpsAreClean
<1>12. TmpsAreClean'
  BY <1>0, <1>1, <1>7, <1>11, NameFacts DEF TmpsAreClean
<1>13. StagingIsOn'
  BY <1>1, <1>6, <1>7 DEF StagingIsOn
<1>14. StagingIsClean'
  BY <1>0, <1>1, <1>4, <1>5, <1>6, <1>7, <1>9, <1>11 DEF StagingIsClean, Whole
<1> QED
  BY <1>8, <1>10, <1>12, <1>13, <1>14 DEF Inv

LEMMA UnlockNext ==
    ASSUME Inv, Unlock PROVE Inv'
<1> USE DEF rootVars, resVars, histVars, counts
<1> DEFINE d == [dirs[Tmp(ver)] EXCEPT !.lock = "none"]
<1>0. /\ TypeInv /\ FailedIsDown /\ RootsAreOpen /\ RootsAreWhole /\ TmpsAreClean
      /\ StagingIsOn /\ StagingIsClean
      /\ phase = "unlock" /\ phase' = "rename" /\ ver \in Versions /\ ~failed
      /\ UNCHANGED <<ver, tree, hurt, failed>>
  BY DEF Inv, Unlock, Goto, TypeInv, FailedIsDown
<1>1. dirs[Tmp(ver)] \in Dirs /\ Tmp(ver) \in Names
  BY <1>0, NameFacts DEF TypeInv, StagingIsOn
<1>2. /\ d \in Dirs /\ d.lock = "none"
      /\ d.gomod = dirs[Tmp(ver)].gomod /\ d.pkg = dirs[Tmp(ver)].pkg
  BY <1>1, LockFacts
<1>3. dirs' = [dirs EXCEPT ![Tmp(ver)] = d]
  BY DEF Unlock
<1> HIDE DEF d
<1>4. d # None
  BY <1>2, DirFacts
<1>5. /\ dirs' \in [Names -> Dirs \cup {None}]
      /\ dirs'[Tmp(ver)] = d
      /\ \A m \in Names \ {Tmp(ver)} : dirs'[m] = dirs[m]
  BY <1>0, <1>1, <1>2, <1>3 DEF TypeInv
<1>6. TypeInv' /\ FailedIsDown' /\ NotFailed'
  BY <1>0, <1>5 DEF TypeInv, Phases, FailedIsDown, NotFailed
<1>7. \A v \in Versions : dirs'[Root(v)] = dirs[Root(v)]
  BY <1>0, <1>5, NameFacts
<1>8. RootsAreOpen' /\ RootsAreWhole'
  BY <1>0, <1>7 DEF RootsAreOpen, RootsAreWhole
<1>9. TmpsAreClean'
  BY <1>0, <1>1, <1>2, <1>5, NameFacts, DirFacts DEF TmpsAreClean
<1>10. StagingIsOn' /\ StagingIsClean'
  BY <1>0, <1>2, <1>4, <1>5, <1>7 DEF StagingIsOn, StagingIsClean, Whole
<1> QED
  BY <1>6, <1>8, <1>9, <1>10 DEF Inv

LEMMA RenameNext ==
    ASSUME Inv, Rename PROVE Inv'
<1> USE DEF rootVars, resVars, histVars, counts
<1>0. /\ TypeInv /\ FailedIsDown /\ RootsAreOpen /\ RootsAreWhole /\ TmpsAreClean
      /\ StagingIsOn /\ StagingIsClean
      /\ phase = "rename" /\ phase' = "warmnew" /\ ver \in Versions /\ ~failed
      /\ UNCHANGED <<ver, tree, hurt, failed>>
  BY DEF Inv, Rename, Goto, TypeInv, FailedIsDown
<1>1. dirs[Tmp(ver)] \in Dirs /\ dirs[Tmp(ver)].lock = "none"
  BY <1>0, NameFacts DEF TypeInv, StagingIsOn
<1>2. dirs' = [dirs EXCEPT ![Root(ver)] = dirs[Tmp(ver)], ![Tmp(ver)] = None]
  BY DEF Rename
<1>3. /\ dirs' \in [Names -> Dirs \cup {None}]
      /\ dirs'[Root(ver)] = dirs[Tmp(ver)]
      /\ dirs'[Tmp(ver)] = None
      /\ \A m \in Names \ {Tmp(ver), Root(ver)} : dirs'[m] = dirs[m]
  BY <1>0, <1>1, <1>2, NameFacts DEF TypeInv
<1>4. TypeInv' /\ FailedIsDown' /\ NotFailed'
  BY <1>0, <1>3 DEF TypeInv, Phases, FailedIsDown, NotFailed
<1>5. \A v \in Versions \ {ver} :
         dirs'[Root(v)] = dirs[Root(v)] /\ dirs'[Tmp(v)] = dirs[Tmp(v)]
  BY <1>0, <1>3, NameFacts
<1>6. RootsAreOpen'
  BY <1>0, <1>1, <1>3, <1>5 DEF RootsAreOpen
<1>7. RootsAreWhole'
  BY <1>0, <1>3, <1>5 DEF RootsAreWhole, StagingIsClean
<1>8. TmpsAreClean'
  BY <1>0, <1>3, <1>5 DEF TmpsAreClean
<1>9. StagingIsOn' /\ StagingIsClean'
  BY <1>0, <1>1, <1>3, DirFacts DEF StagingIsOn, StagingIsClean
<1> QED
  BY <1>4, <1>6, <1>7, <1>8, <1>9 DEF Inv

\* The steps of a run whose root is staged and whose version is not about to
\* change: nothing happens to the directories.
LEMMA StagedNext ==
    ASSUME Inv,
           \/ WarmNew \/ PruneRootsEnds \/ Warm \/ BeginStream \/ Work
           \/ \E v \in Versions : PruneFile(v)
    PROVE  Inv'
<1> USE DEF rootVars, resVars, histVars, counts
<1>1. /\ phase \in {"warmnew", "prune", "warm", "files", "up"}
      /\ phase' \in {"prune", "warm", "files", "up", "saving"}
      /\ UNCHANGED <<ver, tree, dirs, hurt, failed>>
  BY DEF WarmNew, PruneRootsEnds, Warm, BeginStream, Work, PruneFile, Goto
<1>2. phase' = "prune" => Root(ver) \notin todo'
  BY <1>1 DEF WarmNew, PruneRootsEnds, Warm, BeginStream, Work, PruneFile, Goto, Victims
<1>3. TypeInv' /\ FailedIsDown' /\ NotFailed'
  BY <1>1 DEF Inv, TypeInv, Phases, FailedIsDown, NotFailed
<1>4. RootsAreOpen' /\ RootsAreWhole' /\ TmpsAreClean'
  BY <1>1, <1>3, FrameStep
<1>5. StagingIsOn' /\ StagingIsClean'
  BY <1>1, <1>2 DEF Inv, StagingIsOn, StagingIsClean
<1> QED
  BY <1>3, <1>4, <1>5 DEF Inv

LEMMA PruneNext ==
    ASSUME Inv, NEW n \in Names, PruneRoot(n) PROVE Inv'
<1> USE DEF rootVars, resVars, histVars, counts
<1>0. /\ TypeInv /\ FailedIsDown /\ RootsAreOpen /\ RootsAreWhole /\ TmpsAreClean
      /\ StagingIsOn /\ StagingIsClean
      /\ phase = "prune" /\ ver \in Versions /\ ~failed
      /\ n \in todo /\ todo' \subseteq todo
      /\ UNCHANGED <<phase, ver, tree, failed>>
  BY DEF Inv, PruneRoot, TypeInv, FailedIsDown
<1>1. /\ SetDir(n, Removed(dirs[n]))
      /\ hurt' = Forgotten(n, Removed(dirs[n]))
  BY DEF PruneRoot
<1>2. dirs[n] \in Dirs \cup {None} /\ Removed(dirs[n]) \in Dirs \cup {None}
  BY <1>0, RemovedFacts DEF TypeInv
<1>3. /\ dirs' \in [Names -> Dirs \cup {None}]
      /\ dirs'[n] = Removed(dirs[n])
      /\ \A m \in Names \ {n} : dirs'[m] = dirs[m]
  BY <1>0, <1>1, <1>2, SetDirFacts
<1>4. n # Root(ver) /\ Root(ver) \in Names /\ dirs[Root(ver)] # None
  BY <1>0, NameFacts DEF StagingIsOn
<1>5. dirs'[Root(ver)] = dirs[Root(ver)]
  BY <1>3, <1>4
<1>6. n[2] \in Versions /\ (n = Root(n[2]) \/ n = Tmp(n[2]))
  BY NameSplit
<1>7. \/ hurt' = hurt
      \/ /\ hurt' = hurt \ {n[2]}
         /\ dirs'[Root(n[2])] = None /\ dirs'[Tmp(n[2])] = None
  BY <1>1, <1>3, <1>6, NameFacts DEF Forgotten
<1>8. \A v \in Versions : n = Root(v) => dirs'[n] = None
  BY <1>0, <1>2, <1>3, RemovedFacts DEF RootsAreOpen
<1>9. \A v \in Versions \ hurt : n = Tmp(v) => dirs'[n] = None
  BY <1>0, <1>2, <1>3, RemovedFacts DEF TmpsAreClean
<1>10. TypeInv' /\ FailedIsDown' /\ NotFailed'
  BY <1>0, <1>3 DEF TypeInv, FailedIsDown, NotFailed
<1>11. RootsAreOpen'
  BY <1>0, <1>3, <1>8, NameFacts DEF RootsAreOpen
<1>12. RootsAreWhole'
  BY <1>0, <1>3, <1>7, <1>8, NameFacts DEF RootsAreWhole
<1>13. TmpsAreClean'
  BY <1>0, <1>3, <1>7, <1>9, NameFacts DEF TmpsAreClean
<1>14. StagingIsOn' /\ StagingIsClean'
  BY <1>0, <1>4, <1>5 DEF StagingIsOn, StagingIsClean
<1> QED
  BY <1>10, <1>11, <1>12, <1>13, <1>14 DEF Inv

\* A run whose version was not hurt has no reason to fail.
LEMMA FailsNext ==
    ASSUME Inv, Fails PROVE Inv'
<1> USE DEF rootVars, resVars, counts
<1>1. /\ phase \in {"copy", "rename", "warmnew", "warm"} /\ phase' = "down"
      /\ UNCHANGED <<ver, tree, dirs, hurt>>
  BY DEF Fails
<1>2. ver \in Versions /\ ver \in hurt
  <2>1. ver \in Versions
    BY <1>1 DEF Inv, TypeInv
  <2> SUFFICES ASSUME ver \notin hurt PROVE FALSE
    BY <2>1
  <2>2. phase = "copy" => dirs[Tmp(ver)] = None
    BY <2>1 DEF Inv, StagingIsClean
  <2>3. phase = "rename" => dirs[Root(ver)] = None
    BY <2>1 DEF Inv, StagingIsClean
  <2>4. phase \in {"warmnew", "warm"} => Whole(dirs[Root(ver)], ver)
    BY <2>1 DEF Inv, StagingIsOn, RootsAreWhole
  <2> QED
    BY <2>2, <2>3, <2>4 DEF Fails
<1>3. TypeInv'
  BY <1>1 DEF Inv, TypeInv, Phases
<1>4. RootsAreOpen' /\ RootsAreWhole' /\ TmpsAreClean'
  BY <1>1, <1>3, FrameStep
<1>5. FailedIsDown' /\ StagingIsOn' /\ StagingIsClean' /\ NotFailed'
  BY <1>1, <1>2 DEF FailedIsDown, StagingIsOn, StagingIsClean, NotFailed
<1> QED
  BY <1>3, <1>4, <1>5 DEF Inv

LEMMA ExitNext ==
    ASSUME Inv, Replay \/ SaveRenames \/ Kill PROVE Inv'
<1> USE DEF rootVars, resVars, histVars, counts
<1>1. phase' = "down" /\ ver' = None /\ UNCHANGED <<tree, dirs, failed>>
  BY DEF Replay, SaveRenames, Kill, Exit
<1>2. /\ hurt \subseteq hurt'
      /\ phase \in {"copying", "unlock"} /\ ver \notin hurt' => dirs[Tmp(ver)].lock = "none"
  BY DEF Replay, SaveRenames, Kill
<1>3. TypeInv'
  BY <1>1 DEF Inv, TypeInv, Phases
<1>4. RootsAreOpen' /\ RootsAreWhole'
  BY <1>1, <1>2 DEF Inv, RootsAreOpen, RootsAreWhole
<1>5. TmpsAreClean'
  BY <1>1, <1>2 DEF Inv, TmpsAreClean
<1>6. FailedIsDown' /\ StagingIsOn' /\ StagingIsClean' /\ NotFailed'
  BY <1>1, StagedRootsAssumption DEF FailedIsDown, StagingIsOn, StagingIsClean, NotFailed
<1> QED
  BY <1>3, <1>4, <1>5, <1>6 DEF Inv

LEMMA KillRemovingNext ==
    ASSUME Inv, NEW n \in Names, KillRemoving(n) PROVE Inv'
<1> USE DEF rootVars, resVars, histVars, counts
<1>0. /\ TypeInv /\ RootsAreOpen /\ RootsAreWhole /\ TmpsAreClean
      /\ phase \in {"prune", "locate"}
      /\ phase' = "down" /\ ver' = None /\ UNCHANGED tree
  BY DEF Inv, KillRemoving, Exit
<1>1. dirs[n] \in Dirs /\ dirs[n].lock = "none"
  BY <1>0 DEF KillRemoving, TypeInv
<1>2. PICK gone \in (SUBSET Files) \ {{}} :
         SetDir(n, [f \in DOMAIN dirs[n] |-> IF f \in gone THEN None ELSE dirs[n][f]])
  BY DEF KillRemoving
<1> DEFINE c == [f \in DOMAIN dirs[n] |-> IF f \in gone THEN None ELSE dirs[n][f]]
<1>3. /\ c \in Dirs /\ c.lock = "none"
      /\ c.gomod \in {dirs[n].gomod, None} /\ c.pkg \in {dirs[n].pkg, None}
  BY <1>1, CutFacts
<1>4. SetDir(n, c)
  BY <1>2
<1> HIDE DEF c
<1>5. /\ dirs' \in [Names -> Dirs \cup {None}]
      /\ dirs'[n] = c
      /\ \A m \in Names \ {n} : dirs'[m] = dirs[m]
  BY <1>0, <1>3, <1>4, SetDirFacts
<1>6. hurt' = IF n[1] = "root" THEN hurt \cup {n[2]} ELSE hurt
  BY DEF KillRemoving
<1>7. /\ n[2] \in Versions
      /\ \/ n[1] = "root" /\ n = Root(n[2])
         \/ n[1] = "tmp" /\ n = Tmp(n[2])
  BY NameSplit
<1>8. TypeInv'
  BY <1>0, <1>5 DEF TypeInv, Phases
<1>9. RootsAreOpen'
  BY <1>0, <1>3, <1>5, NameFacts DEF RootsAreOpen
<1>10. \A v \in Versions \ hurt' : dirs'[Root(v)] = dirs[Root(v)]
  BY <1>5, <1>6, <1>7, NameFacts
<1>11. RootsAreWhole'
  BY <1>0, <1>6, <1>10 DEF RootsAreWhole
<1>12. ASSUME NEW v \in Versions \ hurt', dirs'[Tmp(v)] # None
       PROVE  /\ dirs'[Tmp(v)].gomod \in {v, None} /\ dirs'[Tmp(v)].pkg \in {v, None}
              /\ dirs'[Tmp(v)].lock = "none"
  <2>1. v \notin hurt /\ Tmp(v) \in Names
    BY <1>6, NameFacts
  <2>2. CASE n = Tmp(v)
    <3>1. dirs[n].gomod \in {v, None} /\ dirs[n].pkg \in {v, None}
      BY <1>0, <1>1, <2>1, <2>2, DirFacts DEF TmpsAreClean
    <3> QED
      BY <1>3, <1>5, <2>2, <3>1
  <2>3. CASE n # Tmp(v)
    BY <1>0, <1>5, <1>12, <2>1, <2>3 DEF TmpsAreClean
  <2> QED
    BY <2>2, <2>3
<1>13. TmpsAreClean'
  BY <1>12 DEF TmpsAreClean
<1>14. FailedIsDown' /\ StagingIsOn' /\ StagingIsClean' /\ NotFailed'
  BY <1>0, StagedRootsAssumption DEF FailedIsDown, StagingIsOn, StagingIsClean, NotFailed
<1> QED
  BY <1>8, <1>9, <1>11, <1>13, <1>14 DEF Inv

LEMMA EditNext ==
    ASSUME Inv, NEW v \in Versions, Edit(v) PROVE Inv'
<1> USE DEF rootVars, resVars, histVars
<1>1. tree' = v /\ UNCHANGED <<phase, ver, todo, dirs, hurt, failed>>
  BY DEF Edit
<1>2. TypeInv'
  BY <1>1 DEF Inv, TypeInv
<1>3. RootsAreOpen' /\ RootsAreWhole' /\ TmpsAreClean'
  BY <1>1, <1>2, FrameStep
<1>4. FailedIsDown' /\ StagingIsOn' /\ StagingIsClean' /\ NotFailed'
  BY <1>1 DEF Inv, FailedIsDown, StagingIsOn, StagingIsClean, NotFailed
<1> QED
  BY <1>2, <1>3, <1>4 DEF Inv

LEMMA StutterNext ==
    ASSUME Inv, UNCHANGED vars PROVE Inv'
BY DEF vars, Inv, TypeInv, FailedIsDown, RootsAreOpen, RootsAreWhole, TmpsAreClean,
   StagingIsOn, StagingIsClean, NotFailed, Staged

LEMMA InvNext == Inv /\ [Next]_vars => Inv'
<1> SUFFICES ASSUME Inv, [Next]_vars PROVE Inv'
  OBVIOUS
<1>1. ASSUME NEW v \in Versions, Start(v) \/ PruneFile(v) \/ Edit(v) PROVE Inv'
  BY <1>1, StartNext, StagedNext, EditNext
<1>2. ASSUME NEW f \in Files, CopyOne(f) PROVE Inv'
  BY <1>2, CopyOneNext
<1>3. ASSUME NEW n \in Names, PruneRoot(n) \/ KillRemoving(n) PROVE Inv'
  BY <1>3, PruneNext, KillRemovingNext
<1>4. CASE Reuse \/ Clear \/ CopyBegins \/ CopyNested \/ Unlock \/ Rename
  BY <1>4, LocateNext, CopyNext, UnlockNext, RenameNext
<1>5. CASE WarmNew \/ PruneRootsEnds \/ Warm \/ BeginStream \/ Work
  BY <1>5, StagedNext
<1>6. CASE Fails \/ Replay \/ SaveRenames \/ Kill
  BY <1>6, FailsNext, ExitNext
<1>7. CASE Over \/ UNCHANGED vars
  BY <1>7, StutterNext DEF Over
<1> QED
  BY <1>1, <1>2, <1>3, <1>4, <1>5, <1>6, <1>7 DEF Next

(***************************************************************************)
(* The theorem on whole roots.                                             *)
(***************************************************************************)

\* Every reachable state of the run and of the staged directories satisfies Inv.
THEOREM Invariance == Spec => []Inv
<1>1. Init => Inv
  BY InvInit
<1>2. Inv /\ [Next]_vars => Inv'
  BY InvNext
<1> QED
  BY <1>1, <1>2, PTL DEF Spec

\* From the moment PrepareModuleRoot returns, a run builds in the whole module
\* of the version it files its results under, and staging never fails, unless
\* the version was hurt by a cut prune, a cut copy of a read-only source or an
\* edit.
THEOREM RootsCanBeTrusted == Spec => []RootIsWhole
<1>1. Inv => RootIsWhole
  <2> SUFFICES ASSUME Inv, ver # None, ver \notin hurt
               PROVE  /\ ~failed
                      /\ phase \in {"prune", "warm", "files", "up", "saving"} =>
                            Whole(dirs[Root(ver)], ver)
    BY DEF RootIsWhole
  <2>1. ~failed /\ ver \in Versions
    BY DEF Inv, NotFailed, TypeInv
  <2>2. phase \in {"prune", "warm", "files", "up", "saving"} => dirs[Root(ver)] # None
    BY DEF Inv, StagingIsOn
  <2> QED
    BY <2>1, <2>2 DEF Inv, RootsAreWhole
<1> QED
  BY <1>1, Invariance, PTL

(***************************************************************************)
(* Orders by time: lists that hold each element once, the newest last.     *)
(***************************************************************************)

\* s lists the elements of T, each once; x is the newest in s.
Orders(s, T)   == s \in Seq(T) /\ IsInjective(s) /\ Listed(s) = T
NewestIs(s, x) == s # <<>> /\ s[Len(s)] = x

\* A concatenation, element by element.
LEMMA ConcatAt ==
    ASSUME NEW S, NEW a \in Seq(S), NEW b \in Seq(S)
    PROVE  /\ a \o b \in Seq(S) /\ Len(a \o b) = Len(a) + Len(b)
           /\ \A n \in 1..(Len(a) + Len(b)) :
                 (a \o b)[n] = IF n <= Len(a) THEN a[n] ELSE b[n - Len(a)]
OBVIOUS

\* RemoveFirst takes out the one place of an element.
LEMMA RemoveAtFacts ==
    ASSUME NEW S, NEW s \in Seq(S), NEW i \in 1..Len(s)
    PROVE  /\ RemoveAt(s, i) \in Seq(S)
           /\ Len(RemoveAt(s, i)) = Len(s) - 1
           /\ \A n \in 1..(Len(s) - 1) :
                 /\ n < i => RemoveAt(s, i)[n] = s[n]
                 /\ n >= i => RemoveAt(s, i)[n] = s[n + 1]
<1> DEFINE a == SubSeq(s, 1, i - 1)
           b == SubSeq(s, i + 1, Len(s))
<1>1. a \in Seq(S) /\ Len(a) = i - 1 /\ \A n \in 1..(i - 1) : a[n] = s[n]
  OBVIOUS
<1>2. b \in Seq(S) /\ Len(b) = Len(s) - i /\ \A n \in 1..(Len(s) - i) : b[n] = s[n + i]
  OBVIOUS
<1>3. RemoveAt(s, i) = a \o b
  BY DEF RemoveAt
<1>4. Len(s) \in Nat
  OBVIOUS
<1> HIDE DEF a, b
<1>5. /\ a \o b \in Seq(S) /\ Len(a \o b) = Len(a) + Len(b)
      /\ \A n \in 1..(Len(a) + Len(b)) :
            (a \o b)[n] = IF n <= Len(a) THEN a[n] ELSE b[n - Len(a)]
  BY <1>1, <1>2, ConcatAt
<1>6. Len(a) + Len(b) = Len(s) - 1
  BY <1>1, <1>2, <1>4
<1>7. ASSUME NEW n \in 1..(Len(s) - 1), n < i
      PROVE  (a \o b)[n] = s[n]
  <2>1. n \in 1..(Len(a) + Len(b)) /\ n <= Len(a) /\ n \in 1..(i - 1)
    BY <1>1, <1>4, <1>6, <1>7
  <2> QED BY <1>1, <1>5, <2>1
<1>8. ASSUME NEW n \in 1..(Len(s) - 1), n >= i
      PROVE  (a \o b)[n] = s[n + 1]
  <2> DEFINE k == n - Len(a)
  <2>1. n \in 1..(Len(a) + Len(b)) /\ ~(n <= Len(a))
    BY <1>1, <1>4, <1>6, <1>8
  <2>2. k \in 1..(Len(s) - i) /\ k + i = n + 1
    BY <1>1, <1>4, <1>8
  <2>3. (a \o b)[n] = b[k]
    BY <1>5, <2>1
  <2> HIDE DEF k
  <2> QED BY <1>2, <2>2, <2>3
<1> QED BY <1>3, <1>5, <1>6, <1>7, <1>8

\* RemoveFirst leaves a list without the element alone.
LEMMA RemoveNone ==
    ASSUME NEW S, NEW s \in Seq(S), NEW x, x \notin Listed(s)
    PROVE  RemoveFirst(s, x) = s
<1>1. DOMAIN s = 1..Len(s)
  OBVIOUS
<1>2. \A n \in 1..Len(s) : s[n] # x
  BY <1>1 DEF Listed
<1> QED BY <1>2 DEF RemoveFirst

\* RemoveFirst takes an element out of a list that holds it once.
LEMMA RemoveFacts ==
    ASSUME NEW S, NEW s \in Seq(S), IsInjective(s), NEW x
    PROVE  /\ RemoveFirst(s, x) \in Seq(S)
           /\ IsInjective(RemoveFirst(s, x))
           /\ Listed(RemoveFirst(s, x)) = Listed(s) \ {x}
<1>1. CASE x \notin Listed(s)
  <2>1. RemoveFirst(s, x) = s
    BY <1>1, RemoveNone
  <2> QED BY <1>1, <2>1
<1>2. CASE x \in Listed(s)
  <2>1. PICK i \in 1..Len(s) : s[i] = x
    BY <1>2 DEF Listed
  <2>2. {n \in 1..Len(s) : s[n] = x} = {i}
    BY <2>1 DEF IsInjective
  <2>3. Min({i}) = i
    BY DEF Min
  <2>4. SelectInSeq(s, LAMBDA v : v = x) = i
    BY <2>2, <2>3 DEF SelectInSeq
  <2>5. RemoveFirst(s, x) = RemoveAt(s, i)
    BY <2>1, <2>4 DEF RemoveFirst
  <2> DEFINE r == RemoveAt(s, i)
  <2>a. Len(s) \in Nat
    OBVIOUS
  <2>6. /\ r \in Seq(S) /\ Len(r) = Len(s) - 1 /\ Len(s) \in Nat
        /\ \A n \in 1..(Len(s) - 1) :
              (n < i => r[n] = s[n]) /\ (n >= i => r[n] = s[n + 1])
    BY <2>a, RemoveAtFacts, Zenon
  <2> HIDE DEF r
  <2>7. DOMAIN r = 1..(Len(s) - 1) /\ DOMAIN s = 1..Len(s)
    BY <2>6
  <2> DEFINE p(n) == IF n < i THEN n ELSE n + 1
  <2>8. ASSUME NEW n \in 1..(Len(s) - 1)
        PROVE  p(n) \in 1..Len(s) /\ p(n) # i /\ r[n] = s[p(n)]
    <3>1. CASE n < i
      BY <2>6, <3>1
    <3>2. CASE n >= i
      <4>1. p(n) = n + 1
        BY <3>2
      <4> QED BY <2>6, <3>2, <4>1
    <3> QED BY <3>1, <3>2
  <2>9. \A m, n \in 1..(Len(s) - 1) : p(m) = p(n) => m = n
    OBVIOUS
  <2>10. ASSUME NEW m \in 1..Len(s), m # i
         PROVE  \E n \in 1..(Len(s) - 1) : p(n) = m
    <3>1. CASE m < i
      BY <3>1
    <3>2. CASE m > i
      <4>1. m - 1 \in 1..(Len(s) - 1) /\ p(m - 1) = m
        BY <3>2, <2>6
      <4> QED BY <4>1
    <3> QED BY <3>1, <3>2, <2>10
  <2> HIDE DEF p
  <2>11. IsInjective(r)
    BY <2>7, <2>8, <2>9 DEF IsInjective
  <2>12. \A m \in 1..Len(s) : s[m] = x => m = i
    BY <2>1, <2>7 DEF IsInjective
  <2>13. \A y : y \in Listed(r) => y \in Listed(s) \ {x}
    BY <2>7, <2>8, <2>12 DEF Listed
  <2>14. ASSUME NEW y \in Listed(s) \ {x} PROVE y \in Listed(r)
    <3>1. PICK m \in 1..Len(s) : s[m] = y
      BY <2>7 DEF Listed
    <3>2. m # i
      BY <2>1, <3>1
    <3>3. PICK n \in 1..(Len(s) - 1) : p(n) = m
      BY <2>10, <3>2
    <3>4. r[n] = y
      BY <2>8, <3>1, <3>3
    <3> QED BY <2>7, <3>4 DEF Listed
  <2>15. Listed(r) = Listed(s) \ {x}
    BY <2>13, <2>14, Zenon
  <2> QED BY <2>5, <2>6, <2>11, <2>15 DEF r
<1> QED BY <1>1, <1>2

\* What Touch makes of a list: x is in it, and newest.
LEMMA TouchFacts ==
    ASSUME NEW S, NEW s \in Seq(S), IsInjective(s), NEW x \in S
    PROVE  /\ Touch(s, x) \in Seq(S)
           /\ IsInjective(Touch(s, x))
           /\ Listed(Touch(s, x)) = Listed(s) \cup {x}
           /\ NewestIs(Touch(s, x), x)
<1> DEFINE r == RemoveFirst(s, x)
           t == Append(r, x)
<1>1. r \in Seq(S) /\ IsInjective(r) /\ Listed(r) = Listed(s) \ {x}
  BY RemoveFacts
<1> HIDE DEF r
<1>2. /\ t \in Seq(S) /\ Len(t) = Len(r) + 1 /\ Len(r) \in Nat /\ t[Len(r) + 1] = x
      /\ \A n \in 1..Len(r) : t[n] = r[n]
  BY <1>1
<1>3. DOMAIN t = 1..(Len(r) + 1) /\ DOMAIN r = 1..Len(r)
  BY <1>1, <1>2
<1> HIDE DEF t
<1>4. \A n \in 1..Len(r) : r[n] # x
  BY <1>1, <1>3 DEF Listed
<1>5. IsInjective(t)
  BY <1>1, <1>2, <1>3, <1>4 DEF IsInjective
<1>6. Listed(t) = Listed(r) \cup {x}
  BY <1>2, <1>3 DEF Listed
<1>7. Touch(s, x) = t
  BY DEF Touch, r, t
<1>8. Listed(t) = Listed(s) \cup {x}
  BY <1>1, <1>6
<1>9. NewestIs(t, x)
  BY <1>2 DEF NewestIs
<1> QED BY <1>2, <1>5, <1>7, <1>8, <1>9

\* Renaming an element keeps its place in the order.
LEMMA ReplaceFacts ==
    ASSUME NEW S, NEW s \in Seq(S), IsInjective(s), NEW x, NEW y \in S, y \notin Listed(s)
    PROVE  /\ ReplaceAll(s, x, y) \in Seq(S)
           /\ IsInjective(ReplaceAll(s, x, y))
           /\ x \in Listed(s) => Listed(ReplaceAll(s, x, y)) = (Listed(s) \ {x}) \cup {y}
           /\ NewestIs(s, x) => NewestIs(ReplaceAll(s, x, y), y)
<1> DEFINE r == ReplaceAll(s, x, y)
<1>1. /\ r \in Seq(S) /\ Len(r) = Len(s) /\ Len(s) \in Nat
      /\ \A n \in 1..Len(s) : r[n] = IF s[n] = x THEN y ELSE s[n]
  BY DEF ReplaceAll
<1>2. DOMAIN r = 1..Len(s) /\ DOMAIN s = 1..Len(s)
  BY <1>1
<1> HIDE DEF r
<1>3. \A n \in 1..Len(s) : s[n] # y
  BY <1>2 DEF Listed
<1>4. IsInjective(r)
  BY <1>1, <1>2, <1>3 DEF IsInjective
<1>5. x \in Listed(s) => Listed(r) = (Listed(s) \ {x}) \cup {y}
  BY <1>1, <1>2 DEF Listed
<1>6. NewestIs(s, x) => NewestIs(r, y)
  <2>1. s # <<>> => Len(s) \in 1..Len(s) /\ r # <<>>
    BY <1>1
  <2> QED BY <1>1, <2>1 DEF NewestIs
<1> QED BY <1>1, <1>4, <1>5, <1>6 DEF r

\* A list without repetition is as long as it has elements.
LEMMA ListedCard ==
    ASSUME NEW S, NEW s \in Seq(S), IsInjective(s)
    PROVE  IsFiniteSet(Listed(s)) /\ Cardinality(Listed(s)) = Len(s)
<1>1. Len(s) \in Nat /\ DOMAIN s = 1..Len(s)
  OBVIOUS
<1>2. s \in [1..Len(s) -> Listed(s)]
  BY <1>1 DEF Listed
<1>3. s \in Bijection(1..Len(s), Listed(s))
  BY <1>1, <1>2 DEF Bijection, Injection, Surjection, IsInjective, Listed
<1>4. ExistsBijection(1..Len(s), Listed(s))
  BY <1>3 DEF ExistsBijection
<1> QED BY <1>1, <1>4, FS_CountingElements, FS_NatBijection

\* All but the first Len(s) - k elements are k at most.
LEMMA NewestCard ==
    ASSUME NEW S, NEW s \in Seq(S), NEW k \in Nat, k < Len(s)
    PROVE  Cardinality(Listed(s) \ {s[n] : n \in 1..(Len(s) - k)}) <= k
<1> DEFINE R == Listed(s) \ {s[n] : n \in 1..(Len(s) - k)}
           I == (Len(s) - k + 1)..Len(s)
           T == {s[n] : n \in I}
<1>1. Len(s) \in Nat /\ DOMAIN s = 1..Len(s)
  OBVIOUS
<1>2. IsFiniteSet(I) /\ Cardinality(I) = k
  BY <1>1, FS_Interval
<1>3. IsFiniteSet(T) /\ Cardinality(T) <= Cardinality(I)
  <2> DEFINE f == [n \in I |-> s[n]]
  <2>1. f \in Surjection(I, T)
    BY DEF Surjection
  <2> QED BY <2>1, <1>2, FS_Surjection
<1>4. R \in SUBSET T
  BY <1>1 DEF Listed
<1>5. Cardinality(R) <= Cardinality(T) /\ IsFiniteSet(R)
  BY <1>3, <1>4, FS_Subset
<1>6. Cardinality(R) \in Nat /\ Cardinality(T) \in Nat
  BY <1>3, <1>5, FS_CardinalityType
<1> QED BY <1>2, <1>3, <1>5, <1>6

\* A list is one of its own elements.
LEMMA SeqOfListed ==
    ASSUME NEW S, NEW s \in Seq(S) PROVE s \in Seq(Listed(s))
<1>1. Len(s) \in Nat /\ DOMAIN s = 1..Len(s) /\ s = [n \in 1..Len(s) |-> s[n]]
  OBVIOUS
<1>2. \A n \in 1..Len(s) : s[n] \in Listed(s)
  BY <1>1 DEF Listed
<1> QED BY <1>1, <1>2

\* RemoveAll takes a directory out of the order.
LEMMA RemoveOrders ==
    ASSUME NEW T, NEW s, Orders(s, T), NEW x
    PROVE  Orders(RemoveFirst(s, x), T \ {x})
<1> DEFINE r == RemoveFirst(s, x)
<1>1. r \in Seq(T) /\ IsInjective(r) /\ Listed(r) = T \ {x}
  BY RemoveFacts DEF Orders
<1> HIDE DEF r
<1>2. r \in Seq(T \ {x})
  BY <1>1, SeqOfListed
<1>3. Orders(r, T \ {x})
  BY <1>1, <1>2 DEF Orders
<1> QED BY <1>3 DEF r

\* A touch makes a directory the newest.
LEMMA TouchOrders ==
    ASSUME NEW T, NEW s, Orders(s, T), NEW x
    PROVE  Orders(Touch(s, x), T \cup {x}) /\ NewestIs(Touch(s, x), x)
<1> DEFINE S == T \cup {x}
           r == Touch(s, x)
<1>1. s \in Seq(S) /\ x \in S /\ IsInjective(s) /\ Listed(s) = T
  BY DEF Orders
<1> HIDE DEF S
<1>2. /\ r \in Seq(S) /\ IsInjective(r) /\ Listed(r) = Listed(s) \cup {x}
      /\ NewestIs(r, x)
  BY <1>1, TouchFacts
<1> HIDE DEF r
<1>3. Orders(r, S) /\ NewestIs(r, x)
  BY <1>1, <1>2 DEF Orders, S
<1> QED BY <1>3 DEF r, S

\* A rename gives the new name the old time.
LEMMA ReplaceOrders ==
    ASSUME NEW T, NEW s, Orders(s, T), NEW x \in T, NEW y, y \notin T
    PROVE  /\ Orders(ReplaceAll(s, x, y), (T \ {x}) \cup {y})
           /\ NewestIs(s, x) => NewestIs(ReplaceAll(s, x, y), y)
<1> DEFINE S == T \cup {y}
           r == ReplaceAll(s, x, y)
           U == (T \ {x}) \cup {y}
<1>1. s \in Seq(S) /\ y \in S /\ IsInjective(s) /\ Listed(s) = T /\ x \in Listed(s)
      /\ y \notin Listed(s)
  BY DEF Orders
<1> HIDE DEF S
<1>2. /\ r \in Seq(S) /\ IsInjective(r) /\ Listed(r) = (Listed(s) \ {x}) \cup {y}
      /\ NewestIs(s, x) => NewestIs(r, y)
  BY <1>1, ReplaceFacts
<1> HIDE DEF r
<1>3. Listed(r) = U
  BY <1>1, <1>2
<1> HIDE DEF U
<1>4. r \in Seq(U)
  BY <1>2, <1>3, SeqOfListed
<1>5. Orders(r, U) /\ (NewestIs(s, x) => NewestIs(r, y))
  BY <1>2, <1>3, <1>4 DEF Orders
<1> QED BY <1>5 DEF r, U

\* An order is as long as there are directories.
LEMMA OrdersCard ==
    ASSUME NEW T, NEW s, Orders(s, T)
    PROVE  IsFiniteSet(T) /\ Cardinality(T) = Len(s)
BY ListedCard DEF Orders

(***************************************************************************)
(* The inductive invariants behind the bounds of the prunes.               *)
(***************************************************************************)

\* The staged directories there are.
Present == {n \in Names : dirs[n] # None}

\* Their order by time lists each once.
AgeLists == Orders(age, Present)

\* What the run stages is the newest of them until the prune, which therefore
\* spares it among the Keep newest and not beside them.
Newest ==
    /\ phase \in {"copying", "unlock", "rename"} => NewestIs(age, Tmp(ver))
    /\ phase = "warmnew" => NewestIs(age, Root(ver))

\* A staging is counted when it begins; the copy it then makes is counted once,
\* read-only or not.
Ahead   == IF phase = "copy" THEN 1 ELSE 0
Others  == IF phase \in {"copying", "unlock"} THEN Stuck \ {Tmp(ver)} ELSE Stuck

RootsBounded ==
    /\ strays \in Nat
    /\ Cardinality(Present) + Ahead <= Keep + strays + Cardinality(Others)

\* A prune leaves Keep directories and those it cannot remove.
PruneSpares ==
    phase = "prune" => Cardinality(Present \ (Stuck \cup todo)) <= Keep

RootPiles == AgeLists /\ Newest /\ RootsBounded /\ PruneSpares

\* A run's own results file is among those it has found or made, and the prune
\* leaves Keep others.
FilePiles ==
    /\ Listed(rage) \subseteq Versions /\ Orders(rage, Listed(rage))
    /\ Len(rage) <= Keep + 1
    /\ phase = "files" => Cardinality(Listed(rage) \ (todo \cup {ver})) <= Keep
    /\ phase \in {"up", "saving"} => ver \in Listed(rage)

\* A temporary results file is of the Save under way or was left by a kill.
SavePiles ==
    /\ rtmp \subseteq Versions /\ torn \in Nat
    /\ Cardinality(IF phase = "saving" THEN rtmp \ {ver} ELSE rtmp) <= torn

(***************************************************************************)
(* Counting directories and files.                                         *)
(***************************************************************************)

\* There are finitely many names.
LEMMA CardOfNames ==
    ASSUME NEW T \in SUBSET Names
    PROVE  IsFiniteSet(T) /\ Cardinality(T) \in Nat
<1>1. IsFiniteSet({"root"} \cup {"tmp"})
  BY FS_Singleton, FS_Union
<1>2. {"root"} \cup {"tmp"} = {"root", "tmp"}
  OBVIOUS
<1>3. IsFiniteSet(Names)
  BY <1>1, <1>2, StagedRootsAssumption, FS_Product DEF Names
<1> QED BY <1>3, FS_Subset, FS_CardinalityType

\* There are finitely many versions.
LEMMA CardOfVersions ==
    ASSUME NEW T \in SUBSET Versions
    PROVE  IsFiniteSet(T) /\ Cardinality(T) \in Nat
BY StagedRootsAssumption, FS_Subset, FS_CardinalityType

\* Fewer names are no more.
LEMMA CardMonotone ==
    ASSUME NEW U \in SUBSET Names, NEW T \in SUBSET U
    PROVE  Cardinality(T) <= Cardinality(U)
BY CardOfNames, FS_Subset

\* SetDir, seen from the order and from the sets.
LEMMA SetDirOrder ==
    ASSUME TypeInv, AgeLists, NEW n \in Names, NEW d \in Dirs \cup {None}, SetDir(n, d)
    PROVE  /\ AgeLists'
           /\ Present' = IF d = None THEN Present \ {n} ELSE Present \cup {n}
           /\ Stuck' = IF d = None \/ d.lock = "none" THEN Stuck \ {n} ELSE Stuck \cup {n}
           /\ d = None \/ age' = age \/ NewestIs(age', n)
           /\ d # None /\ dirs[n] = None => NewestIs(age', n)
<1>1. /\ dirs' \in [Names -> Dirs \cup {None}]
      /\ dirs'[n] = d
      /\ \A m \in Names \ {n} : dirs'[m] = dirs[m]
  BY SetDirFacts
<1>2. Present' = IF d = None THEN Present \ {n} ELSE Present \cup {n}
  BY <1>1 DEF Present
<1>3. Stuck' = IF d = None \/ d.lock = "none" THEN Stuck \ {n} ELSE Stuck \cup {n}
  BY <1>1 DEF Stuck
<1>4. CASE d = None
  <2>1. age' = RemoveFirst(age, n) /\ Present' = Present \ {n}
    BY <1>2, <1>4 DEF SetDir
  <2>2. Orders(RemoveFirst(age, n), Present \ {n})
    BY RemoveOrders DEF AgeLists
  <2>3. AgeLists'
    BY <2>1, <2>2 DEF AgeLists
  <2> QED BY <1>2, <1>3, <1>4, <2>3
<1>5. CASE d # None /\ d = dirs[n]
  <2>1. age' = age
    BY <1>5 DEF SetDir
  <2>2. n \in Present
    BY <1>5 DEF Present
  <2>3. Present \cup {n} = Present
    BY <2>2
  <2>4. Present' = Present
    BY <1>2, <1>5, <2>3
  <2>5. AgeLists'
    BY <2>1, <2>4 DEF AgeLists
  <2> QED BY <1>2, <1>3, <1>5, <2>1, <2>5
<1>6. CASE d # None /\ d # dirs[n]
  <2>1. age' = Touch(age, n) /\ Present' = Present \cup {n}
    BY <1>2, <1>6 DEF SetDir
  <2>2. Orders(Touch(age, n), Present \cup {n}) /\ NewestIs(Touch(age, n), n)
    BY TouchOrders DEF AgeLists
  <2>3. AgeLists' /\ NewestIs(age', n)
    BY <2>1, <2>2 DEF AgeLists
  <2> QED BY <1>2, <1>3, <1>6, <2>3
<1> QED BY <1>4, <1>5, <1>6

(***************************************************************************)
(* The staged directories, step by step.                                   *)
(***************************************************************************)

\* Steps that leave the directories as they are.
LEMMA SameDirs ==
    ASSUME dirs' = dirs PROVE Present' = Present /\ Stuck' = Stuck
BY DEF Present, Stuck

\* A touch of a directory there is.
LEMMA TouchedOrder ==
    ASSUME AgeLists, dirs' = dirs, NEW n \in Names, dirs[n] # None,
           age' = Touch(age, n)
    PROVE  AgeLists' /\ NewestIs(age', n)
<1>1. Present' = Present /\ Present \cup {n} = Present
  BY SameDirs DEF Present
<1>2. Orders(Touch(age, n), Present \cup {n}) /\ NewestIs(Touch(age, n), n)
  BY TouchOrders DEF AgeLists
<1> QED BY <1>1, <1>2 DEF AgeLists

\* A directory nothing can remove is there.
LEMMA StuckArePresent == Stuck \subseteq Present /\ Present \subseteq Names
BY DEF Stuck, Present

\* Cardinalities of the sets the bound speaks of.
LEMMA CardTypes ==
    /\ Cardinality(Present) \in Nat /\ Cardinality(Stuck) \in Nat
    /\ Cardinality(Others) \in Nat /\ Keep \in Nat /\ Ahead \in {0, 1}
    /\ Cardinality(Others) <= Cardinality(Stuck)
    /\ Cardinality(Stuck) <= Cardinality(Others) + 1
<1>1. Present \in SUBSET Names /\ Stuck \in SUBSET Names
  BY StuckArePresent
<1>2. /\ Cardinality(Present) \in Nat
      /\ IsFiniteSet(Stuck) /\ Cardinality(Stuck) \in Nat
  BY <1>1, CardOfNames
<1>3. Cardinality(Stuck \ {Tmp(ver)}) =
         IF Tmp(ver) \in Stuck THEN Cardinality(Stuck) - 1 ELSE Cardinality(Stuck)
  BY <1>2, FS_RemoveElement
<1>4. Cardinality(Stuck \ {Tmp(ver)}) \in Nat
  <2>1. Stuck \ {Tmp(ver)} \in SUBSET Names
    BY <1>1
  <2> QED BY <2>1, CardOfNames
<1>5. Others = Stuck \/ Others = Stuck \ {Tmp(ver)}
  BY DEF Others
<1>6. Ahead \in {0, 1} /\ Keep \in Nat
  BY StagedRootsAssumption DEF Ahead
<1>7. CASE Others = Stuck
  BY <1>2, <1>6, <1>7
<1>8. CASE Others = Stuck \ {Tmp(ver)}
  BY <1>2, <1>3, <1>4, <1>6, <1>8
<1> QED BY <1>5, <1>7, <1>8

\* The arithmetic of a bound that is kept.
LEMMA BoundKept ==
    ASSUME NEW p \in Nat, NEW q \in Nat, NEW c \in Nat, NEW d \in Nat, NEW k \in Nat,
           NEW s \in Nat, NEW t \in Nat, NEW a \in {0, 1}, NEW b \in {0, 1},
           p + a <= k + s + c, q <= p, c <= d, s + b <= t + a
    PROVE  q + b <= k + t + d
OBVIOUS

\* A step that neither adds a directory nor unlocks one keeps the bound.
LEMMA NotMore ==
    ASSUME RootsBounded, strays' \in Nat,
           Cardinality(Present') \in Nat, Cardinality(Others') \in Nat, Ahead' \in {0, 1},
           Cardinality(Present') <= Cardinality(Present),
           Cardinality(Others) <= Cardinality(Others'),
           strays + Ahead' <= strays' + Ahead
    PROVE  RootsBounded'
<1> DEFINE p == Cardinality(Present)
           q == Cardinality(Present')
           c == Cardinality(Others)
           d == Cardinality(Others')
           b == Ahead'
           t == strays'
<1>1. p \in Nat /\ c \in Nat /\ Keep \in Nat /\ Ahead \in {0, 1} /\ strays \in Nat
  BY CardTypes DEF RootsBounded
<1>2. p + Ahead <= Keep + strays + c
  BY DEF RootsBounded
<1>3. /\ q \in Nat /\ d \in Nat /\ q <= p /\ c <= d
      /\ b \in {0, 1} /\ t \in Nat /\ strays + b <= t + Ahead
  OBVIOUS
<1> HIDE DEF p, q, c, d, b, t
<1>4. q + b <= Keep + t + d
  BY <1>1, <1>2, <1>3, BoundKept
<1> QED BY <1>4 DEF RootsBounded, q, d, b, t

\* At first nothing is staged.
LEMMA RootPilesInit == Init => RootPiles
<1> SUFFICES ASSUME Init PROVE RootPiles
  OBVIOUS
<1>1. Present = {}
  BY DEF Init, Present
<1>2. AgeLists
  BY <1>1 DEF Init, AgeLists, Orders, IsInjective, Listed
<1>3. Newest /\ PruneSpares
  BY DEF Init, Newest, PruneSpares
<1>4. Cardinality(Present) = 0 /\ Ahead = 0 /\ strays = 0
  BY <1>1, FS_EmptySet DEF Init, Ahead
<1>5. RootsBounded
  BY <1>4, CardTypes DEF RootsBounded
<1> QED BY <1>2, <1>3, <1>5 DEF RootPiles

\* Steps that leave the directories alone, but for their times.
LEMMA QuietSteps ==
    ASSUME Inv, RootPiles, dirs' = dirs, AgeLists', Newest', strays' \in Nat,
           strays + Ahead' <= strays' + Ahead,
           Others' \in {Others, Stuck},
           phase' = "prune" => phase = "prune" /\ todo' = todo
    PROVE  RootPiles'
<1>1. Present' = Present /\ Stuck' = Stuck
  BY SameDirs
<1>3. Ahead' \in {0, 1}
  BY DEF Ahead
<1>4. Cardinality(Others) <= Cardinality(Others') /\ Cardinality(Others') \in Nat
  BY CardTypes
<1>5. RootsBounded'
  <2>1. RootsBounded
    BY DEF RootPiles
  <2>2. Cardinality(Present') = Cardinality(Present) /\ Cardinality(Present) \in Nat
    BY <1>1, CardTypes
  <2>3. Cardinality(Present') <= Cardinality(Present)
    BY <2>2
  <2> QED BY <1>3, <1>4, <2>1, <2>2, <2>3, NotMore
<1>6. PruneSpares'
  BY <1>1 DEF PruneSpares, RootPiles
<1> QED BY <1>5, <1>6 DEF RootPiles

\* Every step but those of a staging and a prune.
LEMMA QuietNext ==
    ASSUME Inv, RootPiles,
           \/ \E v \in Versions : Start(v) \/ PruneFile(v) \/ Edit(v)
           \/ Reuse \/ Fails \/ Warm \/ BeginStream \/ Work \/ Replay
           \/ SaveRenames \/ Kill \/ UNCHANGED vars
    PROVE  RootPiles'
<1> USE DEF rootVars, resVars, histVars, counts
<1>1. dirs' = dirs /\ strays' = strays
  BY DEF Start, PruneFile, Edit, Reuse, Fails, Warm, BeginStream, Work, Replay,
     SaveRenames, Kill, vars
<1>2. \/ phase' \in {"down", "locate", "warm", "files", "up", "saving"}
      \/ phase' = phase /\ ver' = ver /\ age' = age /\ todo' = todo
  BY DEF Start, PruneFile, Edit, Reuse, Fails, Warm, BeginStream, Work, Replay,
     SaveRenames, Kill, Exit, Goto, vars
<1>3. \/ age' = age
      \/ phase \in {"warm", "up"} /\ age' = Touch(age, Root(ver))
  BY DEF Start, PruneFile, Edit, Reuse, Fails, Warm, BeginStream, Work, Replay,
     SaveRenames, Kill, vars
<1>4. AgeLists'
  <2>1. CASE age' = age
    BY <1>1, <2>1, SameDirs DEF RootPiles, AgeLists
  <2>2. CASE phase \in {"warm", "up"} /\ age' = Touch(age, Root(ver))
    <3>1. ver \in Versions /\ dirs[Root(ver)] # None
      BY <2>2 DEF Inv, TypeInv, StagingIsOn
    <3>2. Root(ver) \in Names
      BY <3>1, NameFacts
    <3> QED BY <1>1, <2>2, <3>1, <3>2, TouchedOrder DEF RootPiles
  <2> QED BY <1>3, <2>1, <2>2
<1>5. Newest'
  BY <1>2 DEF RootPiles, Newest
<1>6. Others' \in {Others, Stuck}
  BY <1>1, <1>2, SameDirs DEF Others
<1>7. strays' \in Nat /\ strays + Ahead' <= strays' + Ahead
  BY <1>1, <1>2 DEF RootPiles, RootsBounded, Ahead
<1>8. phase' = "prune" => phase = "prune" /\ todo' = todo
  BY <1>2
<1> QED BY <1>1, <1>4, <1>5, <1>6, <1>7, <1>8, QuietSteps

\* A copy into a directory left before: what was counted at Clear is spent.
LEMMA NestedPiles ==
    ASSUME Inv, RootPiles, CopyNested PROVE RootPiles'
<1> USE DEF histVars
<1>1. /\ phase = "copy" /\ phase' = "unlock" /\ ver' = ver /\ ver \in Versions
      /\ dirs' = dirs /\ strays' = strays /\ dirs[Tmp(ver)] # None
      /\ age' = Touch(age, Tmp(ver))
  BY DEF CopyNested, Goto, Inv, TypeInv
<1>2. Tmp(ver) \in Names
  BY <1>1, NameFacts
<1>3. AgeLists' /\ NewestIs(age', Tmp(ver))
  BY <1>1, <1>2, TouchedOrder DEF RootPiles
<1>4. Newest' /\ PruneSpares'
  BY <1>1, <1>3 DEF Newest, PruneSpares
<1>5. Present' = Present /\ Others' = Stuck \ {Tmp(ver)} /\ Others = Stuck
  BY <1>1, SameDirs DEF Others
<1>6. Ahead = 1 /\ Ahead' = 0
  BY <1>1 DEF Ahead
<1> DEFINE p == Cardinality(Present)
           c == Cardinality(Stuck)
           d == Cardinality(Stuck \ {Tmp(ver)})
<1>7. p \in Nat /\ c \in Nat /\ d \in Nat /\ Keep \in Nat /\ c <= d + 1
  <2>1. IsFiniteSet(Stuck) /\ Stuck \ {Tmp(ver)} \in SUBSET Names
    BY CardOfNames DEF Stuck
  <2>2. d = IF Tmp(ver) \in Stuck THEN c - 1 ELSE c
    BY <2>1, FS_RemoveElement
  <2>3. d \in Nat
    BY <2>1, CardOfNames
  <2> QED BY <2>2, <2>3, CardTypes
<1>8. strays \in Nat /\ p + 1 <= Keep + strays + c
  BY <1>5, <1>6 DEF RootPiles, RootsBounded
<1> HIDE DEF p, c, d
<1>9. p + 0 <= Keep + strays + d
  BY <1>7, <1>8
<1>10. RootsBounded'
  BY <1>1, <1>5, <1>6, <1>8, <1>9 DEF RootsBounded, p, d
<1> QED BY <1>3, <1>4, <1>10 DEF RootPiles

\* The prune takes all but the Keep newest.
LEMMA VictimsSpare ==
    ASSUME AgeLists, NewestIs(age, Root(ver))
    PROVE  Cardinality(Present \ (Stuck \cup Victims)) <= Keep
<1> DEFINE R == Present \ (Stuck \cup Victims)
           old == {age[n] : n \in 1..(Len(age) - Keep)}
<1>1. /\ age \in Seq(Present) /\ IsInjective(age) /\ Listed(age) = Present
      /\ Len(age) \in Nat /\ Keep \in Nat \ {0}
  BY StagedRootsAssumption DEF AgeLists, Orders
<1>2. Present \in SUBSET Names /\ R \in SUBSET Names /\ R \in SUBSET Present
  BY DEF Present
<1>3. Cardinality(R) \in Nat /\ Cardinality(R) <= Cardinality(Present)
  BY <1>2, CardOfNames, CardMonotone
<1>4. CASE Len(age) <= Keep
  <2>1. Cardinality(Present) = Len(age)
    BY OrdersCard DEF AgeLists
  <2> QED BY <1>1, <1>3, <1>4, <2>1
<1>5. CASE Keep < Len(age)
  <2>1. Cardinality(Listed(age) \ old) <= Keep
    BY <1>1, <1>5, NewestCard
  <2>2. age[Len(age)] = Root(ver) /\ DOMAIN age = 1..Len(age)
    BY <1>1 DEF NewestIs
  <2>3. Root(ver) \notin old
    BY <1>1, <1>5, <2>2 DEF IsInjective
  <2>4. Victims = old
    BY <1>1, <1>5, <2>3 DEF Victims
  <2>5. R \in SUBSET (Present \ old) /\ Present \ old \in SUBSET Names
    BY <1>2, <2>4
  <2>6. Cardinality(R) <= Cardinality(Present \ old) /\ Cardinality(Present \ old) \in Nat
    BY <2>5, CardMonotone, CardOfNames
  <2>7. Cardinality(Present \ old) <= Keep
    BY <1>1, <2>1
  <2> QED BY <1>1, <1>3, <2>6, <2>7
<1> QED BY <1>1, <1>4, <1>5

\* The prune begins.
LEMMA WarmNewPiles ==
    ASSUME Inv, RootPiles, WarmNew PROVE RootPiles'
<1> USE DEF rootVars, histVars
<1>1. /\ phase = "warmnew" /\ phase' = "prune" /\ todo' = Victims /\ ver' = ver
      /\ dirs' = dirs /\ age' = age /\ strays' = strays
  BY DEF WarmNew, Goto
<1>2. Present' = Present /\ Stuck' = Stuck
  BY <1>1, SameDirs
<1>3. AgeLists' /\ Newest'
  BY <1>1, <1>2 DEF RootPiles, AgeLists, Newest
<1>4. Cardinality(Present \ (Stuck \cup Victims)) <= Keep
  BY <1>1, VictimsSpare DEF RootPiles, Newest
<1>5. PruneSpares'
  BY <1>1, <1>2, <1>4 DEF PruneSpares
<1>6. Others' = Others /\ Ahead' = Ahead
  BY <1>1, <1>2 DEF Others, Ahead
<1>7. RootsBounded'
  BY <1>1, <1>2, <1>6 DEF RootPiles, RootsBounded
<1> QED BY <1>3, <1>5, <1>7 DEF RootPiles

\* The prune ends: nothing staged since.
LEMMA PruneEndsPiles ==
    ASSUME Inv, RootPiles, PruneRootsEnds PROVE RootPiles'
<1> USE DEF rootVars
<1>1. /\ phase = "prune" /\ todo = {} /\ phase' = "warm" /\ ver' = ver
      /\ dirs' = dirs /\ age' = age /\ strays' = 0
  BY DEF PruneRootsEnds, Goto
<1>2. Present' = Present /\ Stuck' = Stuck
  BY <1>1, SameDirs
<1>3. AgeLists' /\ Newest' /\ PruneSpares'
  BY <1>1, <1>2 DEF RootPiles, AgeLists, Newest, PruneSpares
<1>4. Others' = Stuck /\ Ahead' = 0
  BY <1>1, <1>2 DEF Others, Ahead
<1>5. Stuck \cup {} = Stuck /\ Present \cap Stuck = Stuck
  BY StuckArePresent
<1>6. Cardinality(Present \ Stuck) <= Keep
  BY <1>1, <1>5 DEF RootPiles, PruneSpares
<1>7. Cardinality(Present \ Stuck) = Cardinality(Present) - Cardinality(Stuck)
  <2>1. IsFiniteSet(Present)
    BY StuckArePresent, CardOfNames
  <2> QED BY <1>5, <2>1, FS_Difference
<1>8. Cardinality(Present) <= Keep + Cardinality(Stuck)
  BY <1>6, <1>7, CardTypes
<1>9. RootsBounded'
  BY <1>1, <1>2, <1>4, <1>8, CardTypes DEF RootsBounded
<1> QED BY <1>3, <1>9 DEF RootPiles

\* RemoveAll takes a directory away or leaves it locked as it was.
LEMMA RemovedPiles ==
    ASSUME TypeInv, AgeLists, NEW n \in Names, SetDir(n, Removed(dirs[n]))
    PROVE  /\ AgeLists' /\ Stuck' = Stuck /\ Present' \subseteq Present
           /\ n \in Stuck \/ n \notin Present'
<1> DEFINE d == Removed(dirs[n])
<1>1. dirs[n] \in Dirs \cup {None} /\ d \in Dirs \cup {None}
  BY RemovedFacts DEF TypeInv
<1>2. /\ AgeLists'
      /\ Present' = IF d = None THEN Present \ {n} ELSE Present \cup {n}
      /\ Stuck' = IF d = None \/ d.lock = "none" THEN Stuck \ {n} ELSE Stuck \cup {n}
  BY <1>1, SetDirOrder
<1>3. CASE dirs[n] = None \/ dirs[n].lock = "none"
  <2>1. d = None /\ n \notin Stuck
    BY <1>1, <1>3, RemovedFacts DEF Stuck
  <2> QED BY <1>2, <2>1
<1>4. CASE dirs[n] # None /\ dirs[n].lock # "none"
  <2>1. n \in Stuck /\ n \in Present /\ dirs[n] \in Dirs
    BY <1>1, <1>4 DEF Stuck, Present
  <2>2. d \in Dirs /\ d.lock = dirs[n].lock
    BY <1>4, <2>1 DEF Removed, Dirs
  <2>3. d # None /\ d.lock # "none"
    BY <1>4, <2>2, DirFacts
  <2> QED BY <1>2, <2>1, <2>3
<1> QED BY <1>3, <1>4

\* A staging begins and is counted.
LEMMA ClearPiles ==
    ASSUME Inv, RootPiles, Clear PROVE RootPiles'
<1>1. /\ phase = "locate" /\ phase' = "copy" /\ ver' = ver /\ ver \in Versions
      /\ SetDir(Tmp(ver), Removed(dirs[Tmp(ver)])) /\ strays' = strays + 1
      /\ TypeInv /\ AgeLists /\ RootsBounded
  BY DEF Clear, Goto, Inv, TypeInv, RootPiles
<1>2. Tmp(ver) \in Names
  BY <1>1, NameFacts
<1>3. AgeLists' /\ Stuck' = Stuck /\ Present' \subseteq Present
  BY <1>1, <1>2, RemovedPiles
<1>4. Newest' /\ PruneSpares'
  BY <1>1 DEF Newest, PruneSpares
<1>5. Others' = Others /\ Ahead = 0 /\ Ahead' = 1
  BY <1>1, <1>3 DEF Others, Ahead
<1>6. /\ Cardinality(Present') <= Cardinality(Present) /\ Cardinality(Present') \in Nat
      /\ Cardinality(Others') \in Nat /\ Cardinality(Others) <= Cardinality(Others')
  <2>1. Present' \in SUBSET Present /\ Present' \in SUBSET Names /\ Present \in SUBSET Names
    BY <1>3, StuckArePresent
  <2> QED BY <1>5, <2>1, CardMonotone, CardOfNames, CardTypes
<1>7. strays' \in Nat /\ strays + Ahead' <= strays' + Ahead
  BY <1>1, <1>5 DEF RootsBounded
<1>8. RootsBounded'
  BY <1>1, <1>5, <1>6, <1>7, NotMore
<1> QED BY <1>3, <1>4, <1>8 DEF RootPiles

\* The prune removes a directory or finds it locked.
LEMMA PrunePiles ==
    ASSUME Inv, RootPiles, NEW n \in Names, PruneRoot(n) PROVE RootPiles'
<1>1. /\ phase = "prune" /\ phase' = "prune" /\ ver' = ver /\ n \in todo
      /\ todo' = todo \ {n} /\ SetDir(n, Removed(dirs[n])) /\ strays' = strays
      /\ TypeInv /\ AgeLists /\ RootsBounded /\ PruneSpares
  BY DEF PruneRoot, Inv, RootPiles
<1>2. /\ AgeLists' /\ Stuck' = Stuck /\ Present' \subseteq Present
      /\ n \in Stuck \/ n \notin Present'
  BY <1>1, RemovedPiles
<1>3. Newest'
  BY <1>1 DEF Newest
<1>4. Others' = Others /\ Ahead = 0 /\ Ahead' = 0
  BY <1>1, <1>2 DEF Others, Ahead
<1>5. Present' \in SUBSET Present /\ Present' \in SUBSET Names /\ Present \in SUBSET Names
  BY <1>2, StuckArePresent
<1>6. RootsBounded'
  <2>1. /\ Cardinality(Present') <= Cardinality(Present) /\ Cardinality(Present') \in Nat
        /\ Cardinality(Others') \in Nat /\ Cardinality(Others) <= Cardinality(Others')
    BY <1>4, <1>5, CardMonotone, CardOfNames, CardTypes
  <2>2. strays' \in Nat /\ strays + Ahead' <= strays' + Ahead
    BY <1>1, <1>4 DEF RootsBounded
  <2> QED BY <1>1, <1>4, <2>1, <2>2, NotMore
<1>7. PruneSpares'
  <2> DEFINE A == Present \ (Stuck \cup todo)
             B == Present' \ (Stuck \cup (todo \ {n}))
  <2>1. B \in SUBSET A /\ A \in SUBSET Names /\ B \in SUBSET Names
    BY <1>2, <1>5
  <2>2. Cardinality(B) <= Cardinality(A) /\ Cardinality(B) \in Nat /\ Cardinality(A) \in Nat
    BY <2>1, CardMonotone, CardOfNames
  <2>3. Cardinality(A) <= Keep
    BY <1>1 DEF PruneSpares
  <2>4. Cardinality(B) <= Keep
    <3> HIDE DEF A, B
    <3> QED BY <2>2, <2>3, CardTypes
  <2> QED BY <1>1, <1>2, <2>4 DEF PruneSpares
<1> QED BY <1>2, <1>3, <1>6, <1>7 DEF RootPiles

\* A kill amid a removal.
LEMMA KillRemovingPiles ==
    ASSUME Inv, RootPiles, NEW n \in Names, KillRemoving(n) PROVE RootPiles'
<1>0. /\ TypeInv /\ AgeLists /\ RootsBounded
      /\ phase \in {"prune", "locate"} /\ phase' = "down" /\ strays' = strays
  BY DEF Inv, RootPiles, KillRemoving, Exit
<1>1. dirs[n] \in Dirs /\ dirs[n] # None /\ dirs[n].lock = "none"
  BY <1>0 DEF KillRemoving, TypeInv
<1>2. PICK gone \in (SUBSET Files) \ {{}} :
         SetDir(n, [f \in DOMAIN dirs[n] |-> IF f \in gone THEN None ELSE dirs[n][f]])
  BY DEF KillRemoving
<1> DEFINE c == [f \in DOMAIN dirs[n] |-> IF f \in gone THEN None ELSE dirs[n][f]]
<1>3. c \in Dirs /\ c.lock = "none"
  BY <1>1, CutFacts
<1>4. SetDir(n, c)
  BY <1>2
<1> HIDE DEF c
<1>5. c # None
  BY <1>3, DirFacts
<1>6. AgeLists' /\ Present' = Present \cup {n} /\ Stuck' = Stuck \ {n}
  BY <1>0, <1>3, <1>4, <1>5, SetDirOrder
<1>7. Present' = Present /\ Stuck' = Stuck
  <2>1. n \in Present /\ n \notin Stuck
    BY <1>1 DEF Present, Stuck
  <2> QED BY <1>6, <2>1
<1>8. Newest' /\ PruneSpares'
  BY <1>0 DEF Newest, PruneSpares
<1>9. Others' = Others /\ Ahead = 0 /\ Ahead' = 0
  BY <1>0, <1>7 DEF Others, Ahead
<1>10. RootsBounded'
  BY <1>0, <1>7, <1>9 DEF RootsBounded
<1> QED BY <1>6, <1>8, <1>10 DEF RootPiles

\* The copy makes the temporary directory.
LEMMA CopyBeginsPiles ==
    ASSUME Inv, RootPiles, CopyBegins PROVE RootPiles'
<1> USE DEF histVars
<1>1. /\ phase = "copy" /\ phase' = "copying" /\ ver' = ver /\ ver \in Versions
      /\ dirs[Tmp(ver)] = None /\ SetDir(Tmp(ver), Empty) /\ strays' = strays
      /\ TypeInv /\ AgeLists /\ RootsBounded
  BY DEF CopyBegins, Goto, Inv, TypeInv, RootPiles
<1>2. Tmp(ver) \in Names /\ Empty \in Dirs /\ Empty # None /\ Empty.lock = "none"
  BY <1>1, NameFacts, EmptyFacts, DirFacts
<1>3. /\ AgeLists' /\ Present' = Present \cup {Tmp(ver)} /\ Stuck' = Stuck \ {Tmp(ver)}
      /\ NewestIs(age', Tmp(ver))
  BY <1>1, <1>2, SetDirOrder
<1>4. Tmp(ver) \notin Present /\ Tmp(ver) \notin Stuck
  BY <1>1 DEF Present, Stuck
<1>5. Newest' /\ PruneSpares'
  BY <1>1, <1>3 DEF Newest, PruneSpares
<1>6. Stuck' = Stuck /\ Stuck \ {Tmp(ver)} = Stuck
  BY <1>3, <1>4
<1>7. Others' = Stuck /\ Others = Stuck /\ Ahead = 1 /\ Ahead' = 0
  BY <1>1, <1>6 DEF Others, Ahead
<1>8. Cardinality(Present') = Cardinality(Present) + 1
  <2>1. IsFiniteSet(Present)
    BY StuckArePresent, CardOfNames
  <2> QED BY <1>3, <1>4, <2>1, FS_AddElement
<1>9. RootsBounded'
  BY <1>1, <1>7, <1>8, CardTypes DEF RootsBounded
<1> QED BY <1>3, <1>5, <1>9 DEF RootPiles

\* The copy writes a file.
LEMMA CopyOnePiles ==
    ASSUME Inv, RootPiles, NEW f \in Files, CopyOne(f) PROVE RootPiles'
<1> DEFINE c   == [dirs[Tmp(ver)] EXCEPT ![f] = tree]
           all == \A g \in Files : c[g] # None
           l   == IF ~readonly \/ c.pkg = None THEN "none"
                  ELSE IF all THEN "all" ELSE "sub"
           d   == [c EXCEPT !.lock = l]
<1>0. /\ TypeInv /\ AgeLists /\ Newest /\ RootsBounded /\ phase = "copying"
      /\ ver \in Versions /\ tree \in Versions /\ dirs[Tmp(ver)] # None
  BY DEF Inv, RootPiles, CopyOne, TypeInv, StagingIsOn
<1>1. /\ SetDir(Tmp(ver), d) /\ phase' \in {"unlock", "copying"} /\ ver' = ver
      /\ strays' = strays
  BY DEF CopyOne, Goto
<1>2. Tmp(ver) \in Names /\ dirs[Tmp(ver)] \in Dirs /\ Tmp(ver) \in Present
  BY <1>0, NameFacts DEF TypeInv, Present
<1>3. c \in Dirs
  BY <1>0, <1>2, FileFacts
<1>4. l \in {"none", "sub", "all"}
  OBVIOUS
<1> HIDE DEF c, l, all
<1>5. d \in Dirs /\ d # None
  BY <1>3, <1>4, LockFacts, DirFacts
<1> HIDE DEF d
<1>6. /\ AgeLists' /\ Present' = Present \cup {Tmp(ver)}
      /\ Stuck' = Stuck \ {Tmp(ver)} \/ Stuck' = Stuck \cup {Tmp(ver)}
      /\ age' = age \/ NewestIs(age', Tmp(ver))
  BY <1>0, <1>1, <1>2, <1>5, SetDirOrder
<1>7. Newest' /\ PruneSpares'
  BY <1>0, <1>1, <1>6 DEF Newest, PruneSpares
<1>8. Present' = Present /\ Stuck' \ {Tmp(ver)} = Stuck \ {Tmp(ver)}
  BY <1>2, <1>6
<1>9. Others' = Others /\ Ahead = 0 /\ Ahead' = 0
  BY <1>0, <1>1, <1>8 DEF Others, Ahead
<1>10. RootsBounded'
  BY <1>0, <1>1, <1>8, <1>9 DEF RootsBounded
<1> QED BY <1>6, <1>7, <1>10 DEF RootPiles

\* The copy is unlocked.
LEMMA UnlockPiles ==
    ASSUME Inv, RootPiles, Unlock PROVE RootPiles'
<1> USE DEF histVars
<1> DEFINE d == [dirs[Tmp(ver)] EXCEPT !.lock = "none"]
<1>0. /\ TypeInv /\ AgeLists /\ Newest /\ RootsBounded
      /\ phase = "unlock" /\ phase' = "rename" /\ ver' = ver /\ ver \in Versions
      /\ age' = age /\ strays' = strays /\ dirs[Tmp(ver)] # None
  BY DEF Inv, RootPiles, Unlock, Goto, TypeInv, StagingIsOn
<1>1. dirs[Tmp(ver)] \in Dirs /\ Tmp(ver) \in Names
  BY <1>0, NameFacts DEF TypeInv
<1>2. d \in Dirs /\ d # None /\ d.lock = "none"
  BY <1>1, LockFacts, DirFacts
<1>3. dirs' = [dirs EXCEPT ![Tmp(ver)] = d]
  BY DEF Unlock
<1> HIDE DEF d
<1>4. dirs'[Tmp(ver)] = d /\ \A m \in Names \ {Tmp(ver)} : dirs'[m] = dirs[m]
  BY <1>0, <1>1, <1>3 DEF TypeInv
<1>5. Present' = Present
  BY <1>0, <1>1, <1>2, <1>4 DEF Present
<1>6. Stuck' = Stuck \ {Tmp(ver)}
  BY <1>1, <1>2, <1>4 DEF Stuck
<1>7. AgeLists' /\ Newest' /\ PruneSpares'
  BY <1>0, <1>5 DEF AgeLists, Newest, PruneSpares
<1>8. Others' = Others /\ Ahead = 0 /\ Ahead' = 0
  BY <1>0, <1>6 DEF Others, Ahead
<1>9. RootsBounded'
  BY <1>0, <1>5, <1>8 DEF RootsBounded
<1> QED BY <1>7, <1>9 DEF RootPiles

\* The copy gets its name.
LEMMA RenamePiles ==
    ASSUME Inv, RootPiles, Rename PROVE RootPiles'
<1> USE DEF histVars
<1>0. /\ TypeInv /\ AgeLists /\ Newest /\ RootsBounded
      /\ phase = "rename" /\ phase' = "warmnew" /\ ver' = ver /\ ver \in Versions
      /\ strays' = strays /\ age' = ReplaceAll(age, Tmp(ver), Root(ver))
      /\ dirs[Root(ver)] = None /\ dirs[Tmp(ver)] # None /\ dirs[Tmp(ver)].lock = "none"
      /\ dirs' = [dirs EXCEPT ![Root(ver)] = dirs[Tmp(ver)], ![Tmp(ver)] = None]
  BY DEF Inv, RootPiles, Rename, Goto, TypeInv, StagingIsOn
<1>1. Root(ver) \in Names /\ Tmp(ver) \in Names /\ Root(ver) # Tmp(ver)
  BY <1>0, NameFacts
<1>2. /\ dirs'[Root(ver)] = dirs[Tmp(ver)] /\ dirs'[Tmp(ver)] = None
      /\ \A m \in Names \ {Tmp(ver), Root(ver)} : dirs'[m] = dirs[m]
  BY <1>0, <1>1 DEF TypeInv
<1>3. Tmp(ver) \in Present /\ Root(ver) \notin Present
  BY <1>0, <1>1 DEF Present
<1>4. Present' = (Present \ {Tmp(ver)}) \cup {Root(ver)}
  BY <1>0, <1>1, <1>2 DEF Present
<1>5. Stuck' = Stuck
  BY <1>0, <1>1, <1>2 DEF Stuck
<1>6. /\ Orders(ReplaceAll(age, Tmp(ver), Root(ver)), (Present \ {Tmp(ver)}) \cup {Root(ver)})
      /\ NewestIs(ReplaceAll(age, Tmp(ver), Root(ver)), Root(ver))
  BY <1>0, <1>3, ReplaceOrders DEF AgeLists, Newest
<1>7. AgeLists' /\ NewestIs(age', Root(ver))
  BY <1>0, <1>4, <1>6 DEF AgeLists
<1>8. Newest' /\ PruneSpares'
  BY <1>0, <1>7 DEF Newest, PruneSpares
<1>9. Others' = Others /\ Ahead = 0 /\ Ahead' = 0
  BY <1>0, <1>5 DEF Others, Ahead
<1>10. Cardinality(Present') = Cardinality(Present)
  <2>1. IsFiniteSet(Present) /\ Cardinality(Present) \in Nat
    BY StuckArePresent, CardOfNames
  <2> DEFINE A == Present \ {Tmp(ver)}
  <2>2. IsFiniteSet(A) /\ Cardinality(A) = Cardinality(Present) - 1
    BY <1>3, <2>1, FS_RemoveElement
  <2>3. Root(ver) \notin A
    BY <1>3
  <2> HIDE DEF A
  <2>4. Cardinality(A \cup {Root(ver)}) = Cardinality(A) + 1
    BY <2>2, <2>3, FS_AddElement
  <2>5. Cardinality(A \cup {Root(ver)}) = Cardinality(Present)
    BY <2>1, <2>2, <2>4
  <2> QED BY <1>4, <2>5 DEF A
<1>11. RootsBounded'
  BY <1>0, <1>9, <1>10 DEF RootsBounded
<1> QED BY <1>7, <1>8, <1>11 DEF RootPiles

\* Every step keeps the bound on the staged directories.
LEMMA RootPilesNext == Inv /\ RootPiles /\ [Next]_vars => RootPiles'
<1> SUFFICES ASSUME Inv, RootPiles, [Next]_vars PROVE RootPiles'
  OBVIOUS
<1>1. ASSUME NEW v \in Versions, Start(v) \/ PruneFile(v) \/ Edit(v) PROVE RootPiles'
  BY <1>1, QuietNext
<1>2. ASSUME NEW f \in Files, CopyOne(f) PROVE RootPiles'
  BY <1>2, CopyOnePiles
<1>3. ASSUME NEW n \in Names, PruneRoot(n) \/ KillRemoving(n) PROVE RootPiles'
  BY <1>3, PrunePiles, KillRemovingPiles
<1>4. CASE Clear \/ CopyBegins \/ CopyNested \/ Unlock \/ Rename
  BY <1>4, ClearPiles, CopyBeginsPiles, NestedPiles, UnlockPiles, RenamePiles
<1>5. CASE WarmNew \/ PruneRootsEnds
  BY <1>5, WarmNewPiles, PruneEndsPiles
<1>6. CASE Reuse \/ Fails \/ Warm \/ BeginStream \/ Work \/ Replay \/ SaveRenames \/ Kill
  BY <1>6, QuietNext
<1>7. CASE Over \/ UNCHANGED vars
  BY <1>7, QuietNext DEF Over
<1> QED
  BY <1>1, <1>2, <1>3, <1>4, <1>5, <1>6, <1>7 DEF Next

(***************************************************************************)
(* The results files.                                                      *)
(***************************************************************************)

\* At first there is no results file.
LEMMA FilePilesInit == Init => FilePiles /\ SavePiles
<1> SUFFICES ASSUME Init PROVE FilePiles /\ SavePiles
  OBVIOUS
<1>1. Listed(rage) = {} /\ Orders(rage, Listed(rage))
  BY DEF Init, Orders, IsInjective, Listed
<1>2. FilePiles
  BY <1>1, StagedRootsAssumption DEF Init, FilePiles
<1>3. SavePiles
  BY FS_EmptySet DEF Init, SavePiles
<1> QED BY <1>2, <1>3

\* The order of the files after one was appended, touched or removed.
LEMMA ListedOrders ==
    ASSUME NEW s, NEW T, Orders(s, T)
    PROVE  Orders(s, Listed(s)) /\ Listed(s) = T
BY DEF Orders

\* A new file is the newest.
LEMMA AppendOrders ==
    ASSUME NEW T, NEW s, Orders(s, T), NEW x, x \notin T
    PROVE  Orders(Append(s, x), T \cup {x})
<1>1. s \in Seq(T) /\ x \notin Listed(s)
  BY DEF Orders
<1>2. RemoveFirst(s, x) = s
  BY <1>1, RemoveNone, Zenon
<1>3. Touch(s, x) = Append(s, x)
  BY <1>2 DEF Touch
<1>4. Orders(Touch(s, x), T \cup {x})
  BY TouchOrders, Zenon
<1> QED BY <1>3, <1>4

\* As many files as the order is long.
LEMMA FilesAre ==
    ASSUME FilePiles
    PROVE  /\ Listed(rage) \in SUBSET Versions /\ IsFiniteSet(Listed(rage))
           /\ Cardinality(Listed(rage)) = Len(rage) /\ Len(rage) \in Nat
           /\ Keep \in Nat
BY OrdersCard, CardOfVersions, StagedRootsAssumption DEF FilePiles

\* Steps that leave the files alone.
LEMMA QuietFiles ==
    ASSUME FilePiles, rage' = rage,
           \/ phase' \notin {"files", "up", "saving"}
           \/ phase' = phase /\ ver' = ver /\ todo' = todo
    PROVE  FilePiles'
BY DEF FilePiles, Orders, Listed, IsInjective

\* The prune is to leave Keep files and the run's own.
LEMMA OldResultsSpare ==
    ASSUME FilePiles
    PROVE  Cardinality(Listed(rage) \ (OldResults \cup {ver})) <= Keep
<1> DEFINE F == Listed(rage)
           R == F \ (OldResults \cup {ver})
           old == {rage[n] : n \in 1..(Len(rage) - Keep)}
<1>1. F \in SUBSET Versions /\ IsFiniteSet(F) /\ Cardinality(F) = Len(rage)
      /\ Len(rage) \in Nat /\ Keep \in Nat
  BY FilesAre
<1>2. R \in SUBSET F /\ R \in SUBSET Versions
  BY <1>1
<1>3. Cardinality(R) <= Cardinality(F) /\ Cardinality(R) \in Nat
  BY <1>1, <1>2, FS_Subset, CardOfVersions
<1>4. CASE Len(rage) <= Keep
  <2> HIDE DEF F, R
  <2> QED BY <1>1, <1>3, <1>4 DEF F, R
<1>5. CASE Keep < Len(rage)
  <2>1. rage \in Seq(F)
    BY DEF FilePiles, Orders
  <2>2. Cardinality(F \ old) <= Keep
    BY <1>1, <1>5, <2>1, NewestCard
  <2>3. OldResults = old \ {ver}
    BY <1>1, <1>5 DEF OldResults
  <2>4. R \in SUBSET (F \ old) /\ F \ old \in SUBSET Versions
    BY <1>1, <2>3
  <2>5. Cardinality(R) <= Cardinality(F \ old) /\ Cardinality(F \ old) \in Nat
    BY <2>4, FS_Subset, CardOfVersions
  <2> HIDE DEF F, R, old
  <2>6. Cardinality(R) <= Keep
    BY <1>1, <1>3, <2>2, <2>5
  <2> QED BY <2>6 DEF R, F
<1> QED BY <1>1, <1>4, <1>5

\* The prune of the results files begins.
LEMMA WarmFiles ==
    ASSUME FilePiles, Warm PROVE FilePiles'
<1>1. /\ phase' = "files" /\ ver' = ver /\ rage' = rage /\ todo' = OldResults
  BY DEF Warm, Goto, resVars
<1>2. Listed(rage') = Listed(rage) /\ Orders(rage', Listed(rage'))
  BY <1>1 DEF FilePiles
<1>3. Cardinality(Listed(rage') \ (todo' \cup {ver'})) <= Keep
  BY <1>1, OldResultsSpare
<1> QED BY <1>1, <1>2, <1>3 DEF FilePiles

\* The prune removes a file.
LEMMA PruneFileFiles ==
    ASSUME FilePiles, NEW v \in Versions, PruneFile(v) PROVE FilePiles'
<1> DEFINE F == Listed(rage)
           G == Listed(rage')
<1>1. /\ phase = "files" /\ phase' = "files" /\ ver' = ver
      /\ rage' = RemoveFirst(rage, v) /\ todo' = todo \ {v}
  BY DEF PruneFile
<1>2. Orders(RemoveFirst(rage, v), F \ {v})
  BY RemoveOrders DEF FilePiles
<1>3. G = F \ {v} /\ Orders(rage', G)
  BY <1>1, <1>2, ListedOrders
<1>4. F \in SUBSET Versions /\ IsFiniteSet(F) /\ Cardinality(F) = Len(rage)
      /\ Len(rage) \in Nat /\ Keep \in Nat /\ Len(rage) <= Keep + 1
  BY FilesAre DEF FilePiles
<1>5. Cardinality(G) = Len(rage') /\ G \in SUBSET F /\ G \in SUBSET Versions
  BY <1>3, <1>4, OrdersCard
<1>6. Cardinality(G) <= Cardinality(F) /\ Cardinality(G) \in Nat
  BY <1>4, <1>5, FS_Subset, CardOfVersions
<1>7. Len(rage') <= Keep + 1
  <2> HIDE DEF F, G
  <2> QED BY <1>4, <1>5, <1>6
<1>8. Cardinality(G \ (todo' \cup {ver'})) <= Keep
  <2> DEFINE A == F \ (todo \cup {ver})
             B == G \ (todo' \cup {ver'})
  <2>1. B \in SUBSET A /\ A \in SUBSET Versions /\ B \in SUBSET Versions
    BY <1>1, <1>3, <1>4
  <2>2. Cardinality(B) <= Cardinality(A) /\ Cardinality(B) \in Nat /\ Cardinality(A) \in Nat
    BY <2>1, FS_Subset, CardOfVersions
  <2>3. Cardinality(A) <= Keep
    BY <1>1 DEF FilePiles
  <2> HIDE DEF A, B
  <2>4. Cardinality(B) <= Keep
    BY <1>4, <2>2, <2>3
  <2> QED BY <2>4 DEF B
<1> QED BY <1>1, <1>3, <1>5, <1>7, <1>8 DEF FilePiles

\* The run makes its own file, one beside the Keep the prune left.
LEMMA BeginStreamFiles ==
    ASSUME Inv, FilePiles, BeginStream PROVE FilePiles'
<1> DEFINE F == Listed(rage)
<1>1. /\ phase = "files" /\ phase' = "up" /\ todo = {} /\ ver' = ver /\ ver \in Versions
      /\ rage' = IF ver \in F THEN rage ELSE Append(rage, ver)
  BY DEF BeginStream, Goto, Inv, TypeInv
<1>2. F \in SUBSET Versions /\ IsFiniteSet(F) /\ Cardinality(F) = Len(rage)
      /\ Len(rage) \in Nat /\ Keep \in Nat
  BY FilesAre
<1>3. CASE ver \in F
  <2>1. rage' = rage /\ Listed(rage') = Listed(rage)
    BY <1>1, <1>3
  <2> QED BY <1>1, <1>3, <2>1 DEF FilePiles
<1>4. CASE ver \notin F
  <2>1. Orders(Append(rage, ver), F \cup {ver})
    BY <1>4, AppendOrders DEF FilePiles
  <2>2. Listed(rage') = F \cup {ver} /\ Orders(rage', Listed(rage'))
    BY <1>1, <1>4, <2>1, ListedOrders
  <2>3. Cardinality(F) <= Keep
    <3>1. F \ (todo \cup {ver}) = F
      BY <1>1, <1>4
    <3> QED BY <1>1, <3>1 DEF FilePiles
  <2>4. Len(rage') = Cardinality(F) + 1
    BY <1>2, <1>4, <2>2, OrdersCard, FS_AddElement
  <2>5. Len(rage') <= Keep + 1
    BY <1>2, <2>3, <2>4
  <2> QED BY <1>1, <1>2, <2>2, <2>5 DEF FilePiles
<1> QED BY <1>3, <1>4

\* Writing to a file makes it the newest.
LEMMA WorkFiles ==
    ASSUME FilePiles, Work \/ SaveRenames PROVE FilePiles'
<1> DEFINE F == Listed(rage)
<1>1. /\ ver \in F /\ rage' = Touch(rage, ver)
      /\ phase' \in {"saving", "down"} /\ (phase' = "saving" => ver' = ver)
  BY DEF Work, SaveRenames, Goto, Exit, FilePiles
<1>2. Orders(Touch(rage, ver), F \cup {ver}) /\ F \cup {ver} = F
  BY <1>1, TouchOrders DEF FilePiles
<1>3. Listed(rage') = F /\ Orders(rage', Listed(rage'))
  BY <1>1, <1>2, ListedOrders
<1>4. Len(rage') = Len(rage)
  BY <1>3, OrdersCard, FilesAre
<1> QED BY <1>1, <1>3, <1>4 DEF FilePiles

\* A Save makes one temporary file and renames it, unless it is killed.
LEMMA SaveStep ==
    ASSUME Inv, SavePiles, Work \/ SaveRenames \/ Kill PROVE SavePiles'
<1> USE DEF rootVars, resVars, histVars, counts
<1>0. rtmp \in SUBSET Versions /\ rtmp \ {ver} \in SUBSET Versions /\ torn \in Nat
  BY DEF SavePiles
<1>1. /\ IsFiniteSet(rtmp) /\ Cardinality(rtmp) \in Nat /\ Cardinality(rtmp \ {ver}) \in Nat
      /\ Cardinality(rtmp) <= Cardinality(rtmp \ {ver}) + 1
      /\ Cardinality(rtmp \ {ver}) <= Cardinality(rtmp)
  <2>1. IsFiniteSet(rtmp) /\ Cardinality(rtmp) \in Nat /\ Cardinality(rtmp \ {ver}) \in Nat
    BY <1>0, CardOfVersions
  <2>2. Cardinality(rtmp \ {ver}) =
           IF ver \in rtmp THEN Cardinality(rtmp) - 1 ELSE Cardinality(rtmp)
    BY <2>1, FS_RemoveElement
  <2> QED BY <2>1, <2>2
<1>2. CASE Work
  <2>1. /\ phase = "up" /\ phase' = "saving" /\ ver' = ver /\ ver \in Versions
        /\ rtmp' = rtmp \cup {ver} /\ torn' = torn
    BY <1>2 DEF Work, Goto, Inv, TypeInv
  <2>2. rtmp' \ {ver'} = rtmp \ {ver} /\ rtmp' \subseteq Versions
    BY <1>0, <2>1
  <2>3. Cardinality(rtmp) <= torn
    BY <2>1 DEF SavePiles
  <2>4. Cardinality(rtmp \ {ver}) <= torn
    BY <1>0, <1>1, <2>3
  <2> QED BY <1>0, <2>1, <2>2, <2>4 DEF SavePiles
<1>3. CASE SaveRenames
  <2>1. /\ phase = "saving" /\ phase' = "down" /\ rtmp' = rtmp \ {ver} /\ torn' = torn
    BY <1>3 DEF SaveRenames, Exit
  <2>2. Cardinality(rtmp \ {ver}) <= torn
    BY <2>1 DEF SavePiles
  <2> QED BY <1>0, <2>1, <2>2 DEF SavePiles
<1>4. CASE Kill
  <2>1. /\ phase' = "down" /\ rtmp' = rtmp
        /\ torn' = IF phase = "saving" THEN torn + 1 ELSE torn
    BY <1>4 DEF Kill, Exit
  <2>2. phase = "saving" => Cardinality(rtmp \ {ver}) <= torn
    BY DEF SavePiles
  <2>3. phase # "saving" => Cardinality(rtmp) <= torn
    BY DEF SavePiles
  <2>4. Cardinality(rtmp) <= torn' /\ torn' \in Nat
    BY <1>0, <1>1, <2>1, <2>2, <2>3
  <2> QED BY <1>0, <2>1, <2>4 DEF SavePiles
<1> QED BY <1>2, <1>3, <1>4

\* Steps that leave the temporary files alone.
LEMMA QuietSaves ==
    ASSUME SavePiles, UNCHANGED <<rtmp, torn>>,
           (phase # "saving" /\ phase' # "saving") \/ UNCHANGED <<phase, ver>>
    PROVE  SavePiles'
BY DEF SavePiles

\* Every step keeps the bounds on the results files.
LEMMA FilePilesNext ==
    Inv /\ FilePiles /\ SavePiles /\ [Next]_vars => FilePiles' /\ SavePiles'
<1> SUFFICES ASSUME Inv, FilePiles, SavePiles, [Next]_vars
             PROVE  FilePiles' /\ SavePiles'
  OBVIOUS
<1> USE DEF rootVars, resVars, histVars, counts
<1>1. ASSUME NEW v \in Versions, Start(v) \/ PruneFile(v) \/ Edit(v)
      PROVE  FilePiles' /\ SavePiles'
  <2>1. FilePiles'
    BY <1>1, PruneFileFiles, QuietFiles DEF Start, Edit
  <2>2. SavePiles'
    BY <1>1, QuietSaves DEF Start, PruneFile, Edit
  <2> QED BY <2>1, <2>2
<1>2. ASSUME NEW f \in Files, CopyOne(f) PROVE FilePiles' /\ SavePiles'
  <2>1. phase = "copying" /\ phase' \in {"unlock", "copying"} /\ UNCHANGED <<rage, rtmp, torn>>
    BY <1>2 DEF CopyOne, Goto
  <2> QED BY <2>1, QuietFiles, QuietSaves
<1>3. ASSUME NEW n \in Names, PruneRoot(n) \/ KillRemoving(n) PROVE FilePiles' /\ SavePiles'
  <2>1. phase \in {"prune", "locate"} /\ phase' \in {"prune", "down"}
        /\ UNCHANGED <<rage, rtmp, torn>>
    BY <1>3 DEF PruneRoot, KillRemoving, Exit
  <2> QED BY <2>1, QuietFiles, QuietSaves
<1>4. CASE Reuse \/ Clear \/ CopyBegins \/ CopyNested \/ Unlock \/ Rename
           \/ WarmNew \/ PruneRootsEnds \/ Fails
  <2>1. /\ phase # "saving" /\ phase' \notin {"files", "up", "saving"}
        /\ UNCHANGED <<rage, rtmp, torn>>
    BY <1>4 DEF Reuse, Clear, CopyBegins, CopyNested, Unlock, Rename, WarmNew,
       PruneRootsEnds, Fails, Goto
  <2> QED BY <2>1, QuietFiles, QuietSaves
<1>5. CASE Warm \/ BeginStream
  <2>1. FilePiles'
    BY <1>5, WarmFiles, BeginStreamFiles
  <2>2. phase # "saving" /\ phase' # "saving" /\ UNCHANGED <<rtmp, torn>>
    BY <1>5 DEF Warm, BeginStream, Goto
  <2> QED BY <2>1, <2>2, QuietSaves
<1>6. CASE Work \/ SaveRenames
  BY <1>6, WorkFiles, SaveStep
<1>7. CASE Kill
  <2>1. phase' = "down" /\ rage' = rage
    BY <1>7 DEF Kill, Exit
  <2> QED BY <1>7, <2>1, QuietFiles, SaveStep
<1>8. CASE Replay
  <2>1. phase = "up" /\ phase' = "down" /\ UNCHANGED <<rage, rtmp, torn>>
    BY <1>8 DEF Replay, Exit
  <2> QED BY <2>1, QuietFiles, QuietSaves
<1>9. CASE Over \/ UNCHANGED vars
  BY <1>9, QuietFiles, QuietSaves DEF Over, vars
<1> QED
  BY <1>1, <1>2, <1>3, <1>4, <1>5, <1>6, <1>7, <1>8, <1>9 DEF Next

\* Neither staged directories nor results files pile up, over any number of
\* runs, versions, kills and edits: a prune leaves Keep of them, and what is
\* beyond that is a staging since, a copy nothing can remove, the run's own file
\* or the temporary file of a Save that was killed.
THEOREM PrunesBoundTheDisk == Spec => []NothingPilesUp
<1> DEFINE All == Inv /\ RootPiles /\ FilePiles /\ SavePiles
<1>1. Init => All
  BY InvInit, RootPilesInit, FilePilesInit
<1>2. All /\ [Next]_vars => All'
  BY InvNext, RootPilesNext, FilePilesNext
<1>3. All => NothingPilesUp
  <2> SUFFICES ASSUME All PROVE NothingPilesUp
    OBVIOUS
  <2>1. Len(age) <= Keep + strays + Cardinality(Stuck)
    <3>1. Cardinality(Present) = Len(age)
      BY OrdersCard DEF RootPiles, AgeLists
    <3>2. strays \in Nat /\ Len(age) + Ahead <= Keep + strays + Cardinality(Others)
      BY <3>1 DEF RootPiles, RootsBounded
    <3>3. Len(age) \in Nat
      BY <3>1, CardTypes
    <3> QED BY <3>2, <3>3, CardTypes
  <2>2. Len(rage) <= Keep + 1
    BY DEF FilePiles
  <2>3. Cardinality(rtmp) <= torn + 1
    <3>1. IsFiniteSet(rtmp) /\ Cardinality(rtmp) \in Nat /\ torn \in Nat
      BY CardOfVersions DEF SavePiles
    <3>2. Cardinality(rtmp \ {ver}) =
             IF ver \in rtmp THEN Cardinality(rtmp) - 1 ELSE Cardinality(rtmp)
      BY <3>1, FS_RemoveElement
    <3>3. Cardinality(rtmp \ {ver}) <= torn \/ Cardinality(rtmp) <= torn
      BY DEF SavePiles
    <3> QED BY <3>1, <3>2, <3>3
  <2> QED BY <2>1, <2>2, <2>3 DEF NothingPilesUp
<1> QED
  BY <1>1, <1>2, <1>3, PTL DEF Spec
=============================================================================
