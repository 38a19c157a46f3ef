------------------------------ MODULE JobBoard ------------------------------
(***************************************************************************)
(* What RunAll (pkg/tc39/orchestrator.go) promises its caller, with no     *)
(* workers, channels or subprocesses: a board with one line per job.  A    *)
(* job the results cache answers is on the board from the start; every     *)
(* other job gets one outcome, at most once and for good; the board is     *)
(* handed to the caller when it is full, or early if the run was told to   *)
(* stop.                                                                   *)
(***************************************************************************)
CONSTANTS
    Jobs,       \* the jobs of one run, one per job ID
    Verdicts,   \* the outcomes worth caching: pass, fail, handback
    None        \* "no outcome yet"

\* The outcomes Cache.Put refuses: the two a machine can cause.
Transient == {"crash", "timeout"}

Statuses == Verdicts \cup Transient

VARIABLES
    outcome,    \* [Jobs -> Statuses \cup {None}], the map RunAll returns
    stopping,   \* the caller closed RunOptions.Abort
    returned    \* RunAll has returned

boardVars == <<outcome, stopping, returned>>

Full == \A j \in Jobs : outcome[j] # None

\* The cache pre-pass has run; a board it filled is returned at once.
BoardInit ==
    /\ outcome \in [Jobs -> Verdicts \cup {None}]
    /\ stopping = FALSE
    /\ returned = Full

Record(j, s) ==
    /\ ~returned
    /\ outcome[j] = None
    /\ outcome' = [outcome EXCEPT ![j] = s]
    /\ UNCHANGED <<stopping, returned>>

Stop ==
    /\ ~returned
    /\ stopping' = TRUE
    /\ UNCHANGED <<outcome, returned>>

Return ==
    /\ ~returned
    /\ Full \/ stopping
    /\ returned' = TRUE
    /\ UNCHANGED <<outcome, stopping>>

BoardNext ==
    \/ \E j \in Jobs, s \in Statuses : Record(j, s)
    \/ Stop
    \/ Return

BoardSpec == BoardInit /\ [][BoardNext]_boardVars
=============================================================================
