-------------------------------- MODULE Sync --------------------------------
(***************************************************************************)
(* connections.py, client.py, base.py: one TranzAct report is copied page  *)
(* by page.  A cursor row remembers how far a migration has walked; the    *)
(* hourly job of the worker and the web process's "sync all" and per-report *)
(* threads all read that row, fetch for minutes, and write it back.  A     *)
(* report is refused only while its in-memory status says running, which   *)
(* the other threads overwrite; "sync all" and the hourly job do not ask.  *)
(*                                                                         *)
(* A page counts as one row.  The source does not change during a sync.    *)
(***************************************************************************)
EXTENDS Integers, FiniteSets

CONSTANTS
    Reports,         \* threads of trigger_pipeline_sync
    All,             \* the thread of _run_all_pipelines
    Hourly,          \* the scheduler's job in the worker
    Idle,            \* a thread that is not there
    Sources,         \* what the report may look like at TranzAct
    CHUNK_PAGES, REFRESH_PAGES,
    MaxThreads       \* bound: threads at once

Jobs == Reports \cup {All, Hourly}

\* edge: what TranzAct answers to a page beyond the last.
SourceType == [pages : Nat, total : BOOLEAN, edge : {"empty", "error"}]

Cursor == [next_page : Nat \ {0}, rows_stored : Nat, complete : BOOLEAN]

Fresh == [next_page |-> 1, rows_stored |-> 0, complete |-> FALSE]

\* at: the cursor the thread works with, and will write.  last: the walk ends
\* with the next write.
Job == [step : {"begin", "fetch", "write"}, restart : BOOLEAN,
        refresh : BOOLEAN, at : Cursor, last : BOOLEAN]

ASSUME SyncAssumption ==
    /\ Sources \subseteq SourceType
    /\ MaxThreads \in Nat
    /\ CHUNK_PAGES \in Nat \ {0} /\ REFRESH_PAGES \in Nat \ {0}
    /\ Idle \notin Job
    /\ All # Hourly /\ All \notin Reports /\ Hourly \notin Reports

VARIABLES
    source,     \* the report at TranzAct
    stored,     \* the pages whose rows are in the raw table
    cursor,     \* the report's row of tz_sync_cursor
    status,     \* the web process's st[key]["status"]
    job,        \* what each thread is doing
    crossed     \* history: which of the awkward things have happened

vars == <<source, stored, cursor, status, job, crossed>>

\* overlap: two threads were inside the same report.  cut: pages ended early
\* and passed for the end.  stuck: a report was left running with no thread.
Awkward == {"overlap", "cut", "stuck"}

TypeOK ==
    /\ source \in Sources
    /\ stored \subseteq 1..source.pages
    /\ cursor \in Cursor
    /\ status \in {"idle", "running", "success", "failed"}
    /\ job \in [Jobs -> Job \cup {Idle}]
    /\ crossed \subseteq Awkward

Init ==
    /\ source \in Sources
    /\ stored = {}
    /\ cursor = Fresh
    /\ status = "idle"
    /\ job = [j \in Jobs |-> Idle]
    /\ crossed = {}

Working(j) == job[j] # Idle
Inside(j) == Working(j) /\ job[j].step # "begin"

-----------------------------------------------------------------------------
(* fetch_report: what one call may come back with. *)

Smaller(m, n) == IF m < n THEN m ELSE n

\* Only a call from page 1 may compare its rows with the total.
AllCounted(start, k) ==
    start = 1 /\ source.total /\ k > 0 /\ k = source.pages

\* k pages, then the chunk is full or the time is up.  With no page at all
\* last_page_rows is 0, and nothing more is taken to be available.
Stopped(start, k) ==
    [rows |-> k, reached_end |-> FALSE, more_available |-> k > 0,
     cut |-> k = 0 /\ start <= source.pages]

\* k pages, then an empty one, the total, or a failing page that passes for
\* the end.
Ended(start, k, cut) ==
    [rows |-> k, reached_end |-> TRUE, more_available |-> FALSE, cut |-> cut]

Chunk(start, max) ==
    LET left == source.pages - (start - 1)
        K == 0..Smaller(max, left)
    IN  {Stopped(start, k) : k \in {k \in K : ~AllCounted(start, k)}}
        \cup {Ended(start, k, FALSE) : k \in {k \in K :
                 \/ AllCounted(start, k)
                 \/ k = left /\ k < max /\ source.edge = "empty"}}
        \cup {Ended(start, k, k < left) : k \in {k \in K :
                 /\ k > 0 /\ k < max /\ ~source.total
                 /\ k < left \/ source.edge = "error"}}

Fetched(start, res) == start .. (start + res.rows - 1)

\* Slip: one page too far.
Walked_skips(at, res) ==
    LET complete == res.reached_end \/ ~res.more_available
    IN  [next_page   |-> IF complete THEN 1 ELSE at.next_page + res.rows + 1,
         rows_stored |-> at.rows_stored + res.rows,
         complete    |-> complete]

\* The cursor after a chunk of the walk, and after a refresh.
Walked(at, res) ==
    LET complete == res.reached_end \/ ~res.more_available
    IN  [next_page   |-> IF complete THEN 1 ELSE at.next_page + res.rows,
         rows_stored |-> at.rows_stored + res.rows,
         complete    |-> complete]

\* Slip: a refresh moves the cursor.
Refreshed_moves(at, res) ==
    IF res.reached_end
    THEN [next_page |-> 1, rows_stored |-> res.rows, complete |-> TRUE]
    ELSE [next_page |-> 1 + res.rows, rows_stored |-> res.rows, complete |-> FALSE]

Refreshed(at, res) ==
    IF res.reached_end
    THEN [next_page |-> 1, rows_stored |-> res.rows, complete |-> TRUE]
    ELSE at

WalkEnds(at, res) == Walked(at, res).complete \/ res.rows = 0

-----------------------------------------------------------------------------
(* Starting. *)

Free(j) == ~Working(j) /\ Cardinality({i \in Jobs : Working(i)}) < MaxThreads

Start(j, restart, refresh) ==
    job' = [job EXCEPT ![j] =
               [step |-> "begin", restart |-> restart, refresh |-> refresh,
                at |-> Fresh, last |-> FALSE]]

\* trigger_pipeline_sync: the status is checked and set under the lock.
Trigger(r, restart) ==
    /\ Free(r) /\ status # "running"
    /\ status' = "running"
    /\ Start(r, restart, FALSE)
    /\ UNCHANGED <<source, stored, cursor, crossed>>

\* No connection any more: the status is put back.
TriggerUnconnected ==
    /\ status # "running"
    /\ status' = "idle"
    /\ UNCHANGED <<source, stored, cursor, job, crossed>>

\* The credentials cannot be read or decrypted: the request fails after the
\* status was set.
TriggerFails ==
    /\ status # "running"
    /\ status' = "running"
    /\ crossed' = crossed \cup {"stuck"}
    /\ UNCHANGED <<source, stored, cursor, job>>

\* trigger_sync_all and trigger_sync_refresh, past _all_running.
TriggerAll(restart, refresh) ==
    /\ Free(All)
    /\ Start(All, restart, refresh)
    /\ UNCHANGED <<source, stored, cursor, status, crossed>>

\* _run_for_all.
TriggerHourly ==
    /\ Free(Hourly)
    /\ Start(Hourly, FALSE, TRUE)
    /\ UNCHANGED <<source, stored, cursor, status, crossed>>

-----------------------------------------------------------------------------
(* _run_single_pipeline. *)

\* The worker has a status of its own, which nobody reads.
SetStatus(j, s) == status' = IF j = Hourly THEN status ELSE s

Quit(j) == job' = [job EXCEPT ![j] = Idle]

\* The cursor is read and the status set.
Begin(j) ==
    LET at == IF job[j].restart THEN Fresh ELSE cursor IN
    /\ Working(j) /\ job[j].step = "begin"
    /\ job' = [job EXCEPT ![j].step = "fetch", ![j].at = at,
                          ![j].refresh = @ \/ at.complete]
    /\ SetStatus(j, "running")
    /\ crossed' = IF \E i \in Jobs \ {j} : Inside(i)
                  THEN crossed \cup {"overlap"} ELSE crossed
    /\ UNCHANGED <<source, stored, cursor>>

\* The cursor cannot be read: the thread ends and says so nowhere.
BeginFails(j) ==
    /\ Working(j) /\ job[j].step = "begin"
    /\ Quit(j)
    /\ crossed' = IF j \in Reports THEN crossed \cup {"stuck"} ELSE crossed
    /\ UNCHANGED <<source, stored, cursor, status>>

\* run_chunk from page 1, for the newest pages; its upsert is committed.
Refresh(j) ==
    /\ Working(j) /\ job[j].step = "fetch" /\ job[j].refresh
    /\ \E res \in Chunk(1, REFRESH_PAGES) :
          /\ stored' = stored \cup Fetched(1, res)
          /\ job' = [job EXCEPT ![j].step = "write", ![j].last = TRUE,
                                ![j].at = Refreshed(@, res)]
          /\ crossed' = IF res.reached_end /\ res.cut
                        THEN crossed \cup {"cut"} ELSE crossed
    /\ UNCHANGED <<source, cursor, status>>

\* run_chunk from where the walk is.
Walk(j) ==
    LET at == job[j].at IN
    /\ Working(j) /\ job[j].step = "fetch" /\ ~job[j].refresh
    /\ \E res \in Chunk(at.next_page, CHUNK_PAGES) :
          /\ stored' = stored \cup Fetched(at.next_page, res)
          /\ job' = [job EXCEPT ![j].step = "write",
                                ![j].last = WalkEnds(at, res),
                                ![j].at = Walked(at, res)]
          /\ crossed' = IF res.cut THEN crossed \cup {"cut"} ELSE crossed
    /\ UNCHANGED <<source, cursor, status>>

\* _write_cursor; the walk goes on, or the thread ends.
Save(j) ==
    /\ Working(j) /\ job[j].step = "write"
    /\ cursor' = job[j].at
    /\ IF job[j].last
       THEN Quit(j) /\ SetStatus(j, "success")
       ELSE /\ job' = [job EXCEPT ![j].step = "fetch"]
            /\ SetStatus(j, "running")
    /\ UNCHANGED <<source, stored, crossed>>

\* A page after its retries, the upsert, or the cursor's write fails.
Fail(j) ==
    /\ Inside(j)
    /\ Quit(j)
    /\ SetStatus(j, "failed")
    /\ UNCHANGED <<source, stored, cursor, crossed>>

\* A process is restarted: its threads and its memory are gone.
WebRestarts ==
    /\ job' = [j \in Jobs |-> IF j = Hourly THEN job[j] ELSE Idle]
    /\ status' = "idle"
    /\ UNCHANGED <<source, stored, cursor, crossed>>

WorkerRestarts ==
    /\ Working(Hourly) /\ Quit(Hourly)
    /\ UNCHANGED <<source, stored, cursor, status, crossed>>

Step(j) == Begin(j) \/ BeginFails(j) \/ Refresh(j) \/ Walk(j) \/ Save(j) \/ Fail(j)

Next ==
    \/ \E r \in Reports, restart \in BOOLEAN : Trigger(r, restart)
    \/ TriggerUnconnected \/ TriggerFails
    \/ \E restart, refresh \in BOOLEAN : TriggerAll(restart, refresh)
    \/ TriggerHourly
    \/ \E j \in Jobs : Step(j)
    \/ WebRestarts \/ WorkerRestarts

Spec == Init /\ [][Next]_vars

-----------------------------------------------------------------------------
(* Safety. *)

\* A report shown as fully synced has every page in the raw table, whatever
\* was interrupted, resumed, restarted or written back late in between: no
\* cursor ever says complete on behalf of pages nobody fetched.  It may after
\* a chunk that got no page in its time, or a page that failed midway in a
\* report without a total: both pass for the end.
CompleteMeansStored ==
    cursor.complete /\ "cut" \notin crossed => stored = 1..source.pages

\* Resuming leaves no hole: every page before the one the cursor resumes at is
\* stored, also when two threads cross and the older cursor is written last.
NothingSkipped == 1..(cursor.next_page - 1) \subseteq stored

\* The progress that is shown is the progress that was made: the count and the
\* position of the cursor are always those of one walk.
RowsTellProgress ==
    "cut" \notin crossed =>
        cursor.rows_stored = IF cursor.complete THEN source.pages
                                                ELSE cursor.next_page - 1

\* While the report is refused as already running there is a thread at work on
\* it, unless a failure before the thread's try left it so.
RunningMeansWork ==
    status = "running" /\ "stuck" \notin crossed => \E j \in Jobs \ {Hourly} : Working(j)

Ahead(c, d) ==
    \/ c.complete
    \/ ~d.complete /\ c.next_page >= d.next_page /\ c.rows_stored >= d.rows_stored

\* Only a restart sets a migration back: a refresh, a resumption, a failure or
\* a process restart leaves the cursor where it was or further on, as long as
\* no two threads are inside the report at once.
ProgressKept ==
    [][ "overlap" \notin crossed =>
        \/ Ahead(cursor', cursor)
        \/ \E j \in Jobs \ {Hourly} : Working(j) /\ job[j].restart ]_vars

\* Every walk ends: a chunk ends it or moves it to a later page, and never
\* beyond the page after the last.
WalkMovesOn ==
    [][\A j \in Jobs : Walk(j) =>
          \/ job'[j].last
          \/ /\ job'[j].at.next_page > job[j].at.next_page
             /\ job'[j].at.next_page <= source.pages + 1]_vars

\* tz_sync_progress is what a person sees of a migration: whatever crosses, fails
\* or restarts, what it shows is stored, without a hole, counted right, and worked
\* on if it says so.
ShownIsTrue == CompleteMeansStored /\ NothingSkipped /\ RowsTellProgress /\ RunningMeansWork

\* A migration goes forward, and a walk comes to its end.
WalkGoesForward == ProgressKept /\ WalkMovesOn

\* The hourly refresh never disturbs a migration in progress (scheduler.py:111).
HourlyNeverDisturbs ==
    [][Save(Hourly) /\ "cut" \notin crossed => Ahead(cursor', cursor)]_vars

=============================================================================
