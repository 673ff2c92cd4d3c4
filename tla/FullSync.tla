------------------------------ MODULE FullSync ------------------------------
(***************************************************************************)
(* The initial full sync of api/routes/connections.py for one company:     *)
(* trigger_full_sync looks at the shared state and, two lock holdings and  *)
(* a query later, sets it and starts a thread; _run_full_sync runs report  *)
(* after report, each in a worker thread it waits for a limited time.      *)
(***************************************************************************)
EXTENDS Integers, Sequences, FiniteSets

CONSTANTS
    Callers,     \* POSTs of the endpoint; each starts at most one sync
    Plan         \* the reports, in their order

ASSUME FullSyncAssumption == Plan # <<>> /\ Len(Plan) \in Nat

VARIABLES
    sync_running,  \* state["running"]
    caller,        \* where the request of each stands
    report,        \* the report its sync is at; 0: none started, Len(Plan) + 1: all done
    workers,       \* threads at work: which sync's, which report
    outcome,       \* state["pipelines"]: the status of each report
    completed,     \* state["completed"]
    overlapped     \* have two requests both found nothing running? (history)

fullSyncVars == <<sync_running, caller, report, workers, outcome, completed, overlapped>>

Reports == 1..Len(Plan)
Places  == {"out", "checked", "syncing", "waiting", "rebuild", "done", "refused"}

FullSyncTypeOK ==
    /\ sync_running \in BOOLEAN /\ overlapped \in BOOLEAN
    /\ caller \in [Callers -> Places]
    /\ report \in [Callers -> 0..Len(Plan) + 1]
    /\ workers \subseteq (Callers \X Reports)
    /\ outcome \in [Reports -> {"none", "pending", "running", "success", "failed", "timed_out"}]
    /\ completed \in Nat

FullSyncInit ==
    /\ sync_running = FALSE /\ overlapped = FALSE
    /\ caller = [c \in Callers |-> "out"]
    /\ report = [c \in Callers |-> 0]
    /\ workers = {}
    /\ outcome = [r \in Reports |-> "none"]
    /\ completed = 0

Step(c, place) == caller' = [caller EXCEPT ![c] = place]
Syncing(c)     == caller[c] \in {"syncing", "waiting", "rebuild"}
Started(c)     == caller[c] = "syncing" /\ report[c] = 0

\* trigger_full_sync: the look, under the lock.
Check(c) ==
    /\ caller[c] = "out"
    /\ Step(c, IF sync_running THEN "refused" ELSE "checked")
    /\ overlapped' = (overlapped \/ (~sync_running /\ \E d \in Callers : caller[d] = "checked"))
    /\ UNCHANGED <<sync_running, report, workers, outcome, completed>>

\* No credentials, or no database.
Unconnected(c) ==
    /\ caller[c] = "checked"
    /\ Step(c, "refused")
    /\ UNCHANGED <<sync_running, report, workers, outcome, completed, overlapped>>

\* Slip: the flag is left to the thread.
StartThread_unmarked(c) ==
    /\ caller[c] = "checked"
    /\ Step(c, "syncing")
    /\ UNCHANGED <<sync_running, report, workers, outcome, completed, overlapped>>

\* The state is set, and the thread started.
StartThread(c) ==
    /\ caller[c] = "checked"
    /\ sync_running' = TRUE
    /\ Step(c, "syncing")
    /\ UNCHANGED <<report, workers, outcome, completed, overlapped>>

\* _run_full_sync: every report pending.
BeginSync(c) ==
    /\ Started(c)
    /\ report' = [report EXCEPT ![c] = 1]
    /\ outcome' = [r \in Reports |-> "pending"]
    /\ completed' = 0
    /\ UNCHANGED <<sync_running, caller, workers, overlapped>>

\* A worker thread for the next report.
StartReport(c) ==
    /\ caller[c] = "syncing" /\ report[c] \in Reports
    /\ workers' = workers \cup {<<c, report[c]>>}
    /\ outcome' = [outcome EXCEPT ![report[c]] = "running"]
    /\ Step(c, "waiting")
    /\ UNCHANGED <<sync_running, report, completed, overlapped>>

\* The thread comes to an end; the pipeline's own work is in Sync and Books.
WorkerEnds(w) ==
    /\ w \in workers
    /\ workers' = workers \ {w}
    /\ UNCHANGED <<sync_running, caller, report, outcome, completed, overlapped>>

\* What the sync writes down of a report it no longer waits for: one whose
\* thread is still at work is abandoned.
Ends(c, status) ==
    /\ outcome' = [outcome EXCEPT ![report[c]] = status]
    /\ completed' = completed + 1
    /\ report' = [report EXCEPT ![c] = @ + 1]
    /\ Step(c, IF report[c] = Len(Plan) THEN "rebuild" ELSE "syncing")
    /\ UNCHANGED <<sync_running, workers, overlapped>>

Joined(c)   == caller[c] = "waiting" /\ <<c, report[c]>> \notin workers
             /\ \E status \in {"success", "failed"} : Ends(c, status)
TimedOut(c) == caller[c] = "waiting" /\ <<c, report[c]>> \in workers /\ Ends(c, "timed_out")

\* The canonical layer is rebuilt, and the state given free.
FinishSync(c) ==
    /\ caller[c] = "rebuild"
    /\ sync_running' = FALSE
    /\ Step(c, "done")
    /\ UNCHANGED <<report, workers, outcome, completed, overlapped>>

\* What raises outside a report, a thread that cannot be started for one, ends
\* the sync there: no rebuild, and the state given free.
AbortSync(c) ==
    /\ caller[c] = "syncing" /\ ~Started(c)
    /\ sync_running' = FALSE
    /\ Step(c, "done")
    /\ UNCHANGED <<report, workers, outcome, completed, overlapped>>

FullSyncNext ==
    \/ \E c \in Callers :
          \/ Check(c) \/ Unconnected(c) \/ StartThread(c) \/ BeginSync(c)
          \/ StartReport(c) \/ Joined(c) \/ TimedOut(c) \/ FinishSync(c) \/ AbortSync(c)
    \/ \E w \in workers : WorkerEnds(w)

FullSyncSpec == FullSyncInit /\ [][FullSyncNext]_fullSyncVars

-----------------------------------------------------------------------------
\* connections.py: one full sync of a company at a time, "running" while it is,
\* and the progress shown is that of this sync alone.  Two requests that both
\* look before either has set the flag both start, and the first of their syncs
\* to end says that nothing is running.
OneFullSync ==
    ~overlapped =>
        /\ Cardinality({c \in Callers : Syncing(c)}) <= 1
        /\ sync_running <=> \E c \in Callers : Syncing(c)
        /\ \A c \in Callers : Syncing(c) /\ ~Started(c) => completed = report[c] - 1
=============================================================================
