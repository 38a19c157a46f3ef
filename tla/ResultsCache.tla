---------------------------- MODULE ResultsCache ----------------------------
(***************************************************************************)
(* One cache file over several runs: LoadCache, BeginStream, Put and Save  *)
(* of pkg/tc39/cache.go as runMain (cmd/bento262/main.go) drives them.     *)
(* The process may be killed between any two steps and in the middle of    *)
(* the write a Put makes, and the disk may fill up.                        *)
(*                                                                         *)
(* The file is the sequence of its lines.  A line holds an entry or is     *)
(* Junk, which json.Unmarshal rejects; only the last may lack its newline. *)
(*                                                                         *)
(* The names ending in _Slip are deliberate slips in one definition each;  *)
(* nothing in the specification uses them.                                 *)
(***************************************************************************)
EXTENDS Naturals, Sequences, SequencesExt, FiniteSetsExt

CONSTANTS
    Keys,       \* job keys (results cache) or tail keys (tail cache)
    Verdicts,   \* the statuses Put accepts
    MaxRuns,    \* bound: processes started
    MaxTears,   \* bound: kills that cut a write short
    MaxFulls,   \* bound: writes cut short by a full disk
    None,
    Junk

Entries == [key : Keys, status : Verdicts]

ASSUME ResultsCacheAssumption ==
    /\ IsFiniteSet(Keys)
    /\ MaxRuns \in Nat /\ MaxTears \in Nat /\ MaxFulls \in Nat
    /\ None \notin Verdicts
    /\ Junk \notin Entries

VARIABLES
    phase,      \* "down", "up", then Save: "compacting", "written", "saved"
    mem,        \* c.entries
    added,      \* c.added
    stream,     \* c.stream: "none", "open", or "broken" (bufio's sticky error)
    file,       \* the lines on disk at c.path
    tmp,        \* the lines at c.path + ".tmp"
    \* history and bounds
    done,       \* the keys whose Put returned, in any run
    runs, tears, fulls

disk   == <<file, tmp>>
counts == <<runs, tears, fulls>>
vars   == <<phase, mem, added, stream, file, tmp, done, runs, tears, fulls>>

Line(e, nl) == [e |-> e, nl |-> nl]

\* The last line of f lacks its newline.
Open(f) == f # <<>> /\ ~Last(f).nl

\* Appending to an open line glues the bytes onto it: two JSON values, or a
\* fragment and a value, on one line are no entry.
AppendLine(f, e, nl) ==
    IF Open(f) THEN [f EXCEPT ![Len(f)] = Line(Junk, nl)]
               ELSE Append(f, Line(e, nl))

\* Slip: LoadCache stops at the first line it cannot parse.
Loaded_Slip(f) ==
    LET bad == {n \in DOMAIN f : f[n].e = Junk}
        at(k) == {n \in DOMAIN f : /\ \A m \in bad : n < m
                                   /\ f[n].e.key = k}
    IN  [k \in Keys |-> IF at(k) = {} THEN None ELSE f[Max(at(k))].e.status]

\* What LoadCache makes of the file: bad lines are skipped, the last line of a
\* key wins, and a last line without a newline still counts.
Loaded(f) ==
    LET at(k) == {n \in DOMAIN f : f[n].e # Junk /\ f[n].e.key = k}
    IN  [k \in Keys |-> IF at(k) = {} THEN None ELSE f[Max(at(k))].e.status]

Known == {k \in Keys : mem[k] # None}

Init ==
    /\ phase = "down"
    /\ mem = [k \in Keys |-> None]
    /\ added = 0
    /\ stream = "none"
    /\ file = <<>>
    /\ tmp = <<>>
    /\ done = {}
    /\ runs = 0 /\ tears = 0 /\ fulls = 0

-----------------------------------------------------------------------------
\* Slip: BeginStream opens the file with O_TRUNC.
Start_Slip ==
    /\ phase = "down"
    /\ runs < MaxRuns
    /\ phase' = "up"
    /\ mem' = Loaded(file)
    /\ added' = 0
    /\ stream' = "open"
    /\ file' = <<>>
    /\ runs' = runs + 1
    /\ UNCHANGED <<tmp, done, tears, fulls>>

\* LoadCache, then BeginStream, which opens the file for append.
Start ==
    /\ phase = "down"
    /\ runs < MaxRuns
    /\ phase' = "up"
    /\ mem' = Loaded(file)
    /\ added' = 0
    /\ stream' = "open"
    /\ runs' = runs + 1
    /\ UNCHANGED <<disk, done, tears, fulls>>

\* Put up to the write: the first entry of a key stays, so a key that has one
\* is not accepted and the call changes nothing.
Accept(k, v) ==
    /\ phase = "up"
    /\ mem[k] = None
    /\ mem' = [mem EXCEPT ![k] = v]
    /\ added' = added + 1

\* Slip: the line is streamed before the key is looked up.
PutFlushed_Slip(k, v) ==
    /\ phase = "up"
    /\ stream = "open"
    /\ mem' = IF mem[k] = None THEN [mem EXCEPT ![k] = v] ELSE mem
    /\ added' = IF mem[k] = None THEN added + 1 ELSE added
    /\ file' = AppendLine(file, [key |-> k, status |-> v], TRUE)
    /\ done' = done \cup {k}
    /\ UNCHANGED <<phase, stream, tmp, counts>>

\* Put whose line is written and flushed.
PutFlushed(k, v) ==
    /\ Accept(k, v)
    /\ stream = "open"
    /\ file' = AppendLine(file, [key |-> k, status |-> v], TRUE)
    /\ done' = done \cup {k}
    /\ UNCHANGED <<phase, stream, tmp, counts>>

\* The part of a line that reaches the disk when its write is cut short: some
\* bytes of the value, or all of it without the newline.
Torn(k, v) ==
    {AppendLine(file, Junk, FALSE),
     AppendLine(file, [key |-> k, status |-> v], FALSE)}

\* Put on a full disk: the short write leaves bufio's error set for good, and
\* Put drops the error.
PutShort(k, v) ==
    /\ Accept(k, v)
    /\ stream = "open"
    /\ fulls < MaxFulls
    /\ stream' = "broken"
    /\ file' \in Torn(k, v) \cup {file}
    /\ done' = done \cup {k}
    /\ fulls' = fulls + 1
    /\ UNCHANGED <<phase, tmp, runs, tears>>

\* Put on the broken stream reaches memory only.
PutUnstreamed(k, v) ==
    /\ Accept(k, v)
    /\ stream = "broken"
    /\ done' = done \cup {k}
    /\ UNCHANGED <<phase, stream, disk, counts>>

\* The process is gone: memory and the open handle with it.
Gone ==
    /\ phase' = "down"
    /\ mem' = [k \in Keys |-> None]
    /\ added' = 0
    /\ stream' = "none"

\* A kill in the middle of a Put's write.
KillInPut(k, v) ==
    /\ phase = "up"
    /\ mem[k] = None
    /\ stream = "open"
    /\ tears < MaxTears
    /\ file' \in Torn(k, v)
    /\ tears' = tears + 1
    /\ Gone
    /\ UNCHANGED <<tmp, done, runs, fulls>>

\* A kill between two steps.
Kill ==
    /\ phase # "down"
    /\ Gone
    /\ UNCHANGED <<disk, done, counts>>

-----------------------------------------------------------------------------
\* Save: CloseStream's Flush returns the sticky error and the run ends with it.
SaveFails ==
    /\ phase = "up"
    /\ stream = "broken"
    /\ Gone
    /\ UNCHANGED <<disk, done, counts>>

\* Save with nothing added closes the stream and leaves the file alone.
SaveNothing ==
    /\ phase = "up"
    /\ stream = "open"
    /\ added = 0
    /\ phase' = "saved"
    /\ stream' = "none"
    /\ UNCHANGED <<mem, added, disk, done, counts>>

\* Save closes the stream and creates the temporary file, truncating a stale
\* one.
SaveCreates ==
    /\ phase = "up"
    /\ stream = "open"
    /\ added > 0
    /\ phase' = "compacting"
    /\ stream' = "none"
    /\ tmp' = <<>>
    /\ UNCHANGED <<mem, added, file, done, counts>>

\* One line per key, in map order, which carries no meaning.
Compacted == [n \in 1..Cardinality(Known) |->
    LET k == SetToSeq(Known)[n] IN Line([key |-> k, status |-> mem[k]], TRUE)]

\* Slip: the buffered writer is not flushed before the rename.
SaveWrites_Slip ==
    /\ phase = "compacting"
    /\ tmp' = Front(Compacted)
    /\ phase' = "written"
    /\ UNCHANGED <<mem, added, stream, file, done, counts>>

\* The entries are encoded and flushed.
SaveWrites ==
    /\ phase = "compacting"
    /\ tmp' = Compacted
    /\ phase' = "written"
    /\ UNCHANGED <<mem, added, stream, file, done, counts>>

\* The disk is full: Save returns the error and the temporary file stays.
SaveWriteFails ==
    /\ phase = "compacting"
    /\ fulls < MaxFulls
    /\ fulls' = fulls + 1
    /\ Gone
    /\ UNCHANGED <<disk, done, runs, tears>>

SaveRenames ==
    /\ phase = "written"
    /\ file' = tmp
    /\ tmp' = <<>>
    /\ phase' = "saved"
    /\ UNCHANGED <<mem, added, stream, done, counts>>

\* The run is over and all the runs the bound allows have been.
Over == phase = "down" /\ runs = MaxRuns /\ UNCHANGED vars

Next ==
    \/ Start
    \/ \E k \in Keys, v \in Verdicts :
          \/ PutFlushed(k, v) \/ PutShort(k, v) \/ PutUnstreamed(k, v)
          \/ KillInPut(k, v)
    \/ Kill
    \/ SaveFails \/ SaveNothing \/ SaveCreates
    \/ SaveWrites \/ SaveWriteFails \/ SaveRenames
    \/ Over

Spec == Init /\ [][Next]_vars

-----------------------------------------------------------------------------
\* Every variable of the Cache and its files has its type; only the last line
\* of a file lacks its newline, and Put counts each key of a run at most once.
TypeOK ==
    /\ phase \in {"down", "up", "compacting", "written", "saved"}
    /\ mem \in [Keys -> Verdicts \cup {None}]
    /\ added \in 0..Cardinality(Known)
    /\ stream \in {"none", "open", "broken"}
    /\ \A f \in {file, tmp} : \A n \in DOMAIN f :
          /\ f[n].e \in Entries \cup {Junk}
          /\ f[n].nl \/ n = Len(f)
    /\ done \subseteq Keys
    /\ runs \in 0..MaxRuns /\ tears \in 0..MaxTears /\ fulls \in 0..MaxFulls

\* While a run is up, whoever loads the file (a worker subprocess loads the
\* tail cache at any time, the next run loads it after a kill) reads for each
\* key what the run holds in memory, or nothing; never another verdict.
DiskAgreesWithMemory ==
    phase # "down" => \A k \in Keys : Loaded(file)[k] \in {None, mem[k]}

\* A Save that reports success leaves on disk all that the run knew, loaded
\* entries included, whatever became of the stream.
SavedIsComplete == phase = "saved" => Loaded(file) = mem

Lost == {k \in done : Loaded(file)[k] = None}

\* A kill loses at most one finished job: none by itself, and one to the next
\* run's first append if it cut a write short.  A kill while Save compacts
\* loses nothing.
LossBounded == fulls = 0 => Cardinality(Lost) <= tears

\* An entry that can be read stays readable, with its verdict, through kills,
\* appends and compaction, unless it is the last line and lacks its newline.
DiskEntriesStay ==
    [][\A k \in Keys :
          \/ Loaded(file)[k] = None
          \/ Loaded(file)'[k] = Loaded(file)[k]
          \/ Open(file) /\ Last(file).e # Junk /\ Last(file).e.key = k]_vars
=============================================================================
