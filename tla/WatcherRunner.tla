---------------------------- MODULE WatcherRunner ----------------------------
(***************************************************************************)
(* brain/runner.py for one company: the worker's tick runs the watchers    *)
(* that are due, API threads run one at a person's word.  A pass is four   *)
(* transactions: the run row is opened, the watcher does its work, the row *)
(* is closed, the verdict is counted; between them a connection may be     *)
(* lost or the process die.  A watcher that halts raises an alert, which   *)
(* swallows whatever goes wrong in it (Alerts).                            *)
(***************************************************************************)
EXTENDS Integers, Sequences, FiniteSets, SequencesExt

CONSTANTS
    Watchers,
    Worker,         \* the process that ticks
    Manual,         \* API threads running "run now"
    Nothing,        \* what an idle process runs
    MAX_CONSECUTIVE_ERRORS,
    max_watchers,   \* of run_due
    MaxRunFaults,   \* bound: passes cut off
    MaxErrors       \* bound: errors a person's runs may add up to

Runners == {Worker} \cup Manual

ASSUME WatcherRunnerAssumption ==
    /\ Worker \notin Manual /\ IsFiniteSet(Manual) /\ Nothing \notin Watchers
    /\ MAX_CONSECUTIVE_ERRORS \in Nat \ {0} /\ max_watchers \in Nat \ {0}
    /\ MaxRunFaults \in Nat /\ MaxErrors \in Nat

VARIABLES
    enabled,       \* workflows.enabled
    errors,        \* workflows.consecutive_errors
    overdue,       \* the watchers whose interval is over, the longest first
    running,       \* brain_runs rows of each watcher that are "running"
    streak,        \* closed rows since the last "ok" of each watcher, or since
                   \* it was turned on (history)
    runner_pc,     \* where each process stands
    todo,          \* what is left of the worker's list
    current,       \* the watcher each process runs, until it is counted
    verdict,       \* how it went
    irregular,     \* was a pass cut off, or have two of one watcher overlapped? (history)
    runFaults      \* how many faults have happened (bound only)

workflows == <<enabled, errors, overdue>>
episodes  == <<running, streak>>
local     == <<todo, current, verdict>>
runnerVars == <<workflows, episodes, local, runner_pc, irregular, runFaults>>

RunnerTypeOK ==
    /\ enabled \in [Watchers -> BOOLEAN]
    /\ errors \in [Watchers -> 0..(MaxErrors + MAX_CONSECUTIVE_ERRORS)]
    /\ overdue \in Seq(Watchers) /\ IsInjective(overdue)
    /\ running \in [Watchers -> Nat]
    /\ streak \in [Watchers -> 0..MAX_CONSECUTIVE_ERRORS]
    /\ runner_pc \in [Runners -> {"idle", "next", "watch", "close", "record", "halted"}]
    /\ todo \in Seq(Watchers)
    /\ current \in [Runners -> Watchers \cup {Nothing}]
    /\ verdict \in [Runners -> {"ok", "error"}]
    /\ irregular \in BOOLEAN
    /\ runFaults \in 0..MaxRunFaults

\* Right after ensure_registered: nothing has run yet, so everything is due.
RunnerInit ==
    /\ enabled = [k \in Watchers |-> TRUE]
    /\ errors = [k \in Watchers |-> 0]
    /\ overdue \in SetToSeqs(Watchers)
    /\ running = [k \in Watchers |-> 0]
    /\ streak = [k \in Watchers |-> 0]
    /\ runner_pc = [p \in Runners |-> "idle"]
    /\ todo = <<>>
    /\ current = [p \in Runners |-> Nothing]
    /\ verdict = [p \in Runners |-> "ok"]
    /\ irregular = FALSE
    /\ runFaults = 0

Go(p, label) == runner_pc' = [runner_pc EXCEPT ![p] = label]

\* The worker goes on with its list, an API thread answers.
Next_watcher(p) == Go(p, IF p = Worker THEN "next" ELSE "idle")

\* The process is done with its watcher.
Forget(p) ==
    /\ current' = [current EXCEPT ![p] = Nothing]
    /\ verdict' = [verdict EXCEPT ![p] = "ok"]

Halted(k)      == errors[k] >= MAX_CONSECUTIVE_ERRORS
Schedulable(k) == enabled[k] /\ ~Halted(k)

-----------------------------------------------------------------------------
(* People and time. *)

Recording(k) == \E p \in Runners : current[p] = k /\ runner_pc[p] = "record"
Uncounted(k) == \E p \in Runners : current[p] = k /\ runner_pc[p] = "record" /\ verdict[p] = "error"

\* PUT /brain/workflows/{key}: turning a watcher on clears its errors.  A failure
\* whose row is closed by then is counted after it.
SetEnabled(k, on) ==
    /\ enabled' = [enabled EXCEPT ![k] = on]
    /\ errors' = [errors EXCEPT ![k] = IF on THEN 0 ELSE @]
    /\ streak' = [streak EXCEPT ![k] = IF ~on \/ irregular THEN @ ELSE IF Uncounted(k) THEN 1 ELSE 0]
    /\ UNCHANGED <<overdue, running, local, runner_pc, irregular, runFaults>>

\* The interval of k is over.
Lapse(k) ==
    /\ ~Contains(overdue, k)
    /\ overdue' = Append(overdue, k)
    /\ UNCHANGED <<enabled, errors, episodes, local, runner_pc, irregular, runFaults>>

-----------------------------------------------------------------------------
(* run_due and run. *)

\* Slip: the least overdue first.
Due_latest == SelectSeq(Reverse(overdue), Schedulable)

\* due: enabled, not halted, the most overdue first.
Due == SelectSeq(overdue, Schedulable)

Tick ==
    /\ runner_pc[Worker] = "idle" /\ Due # <<>>
    /\ todo' = SubSeq(Due, 1, IF Len(Due) < max_watchers THEN Len(Due) ELSE max_watchers)
    /\ Go(Worker, "next")
    /\ UNCHANGED <<workflows, episodes, current, verdict, irregular, runFaults>>

EndTick ==
    /\ runner_pc[Worker] = "next" /\ todo = <<>>
    /\ Go(Worker, "idle")
    /\ UNCHANGED <<workflows, episodes, local, irregular, runFaults>>

\* After a pass was cut off, or two overlapped, the count and the rows say
\* different things for good, and the rows are no longer counted.
Regular_unless(now) ==
    /\ irregular' = (irregular \/ now)
    /\ streak' = [k \in Watchers |-> IF irregular' THEN 0 ELSE streak[k]]

InPass(p, k) == current[p] = k /\ runner_pc[p] \in {"watch", "close", "record"}

\* run, of a watcher there is (KeyError otherwise); _open_run, committed: a row
\* that says "running".
OpenRun(p, k) ==
    /\ k \in Watchers
    /\ running' = [running EXCEPT ![k] = @ + 1]
    /\ current' = [current EXCEPT ![p] = k]
    /\ Go(p, "watch")
    /\ Regular_unless(\E q \in Runners \ {p} : InPass(q, k))
    /\ UNCHANGED <<workflows, verdict, runFaults>>

\* What was listed is run, whatever became of it since.
RunListed ==
    /\ runner_pc[Worker] = "next" /\ todo # <<>>
    /\ OpenRun(Worker, Head(todo))
    /\ todo' = Tail(todo)

\* POST /brain/run/{key} asks neither enabled nor the count.
RunNow(p, k) ==
    /\ runner_pc[p] = "idle" /\ errors[k] < MaxErrors
    /\ OpenRun(p, k)
    /\ UNCHANGED todo

\* watcher.fn, and the commit or rollback of what it did.
Watch(p) ==
    /\ runner_pc[p] = "watch"
    /\ \E v \in {"ok", "error"} : verdict' = [verdict EXCEPT ![p] = v]
    /\ Go(p, "close")
    /\ UNCHANGED <<workflows, episodes, todo, current, irregular, runFaults>>

\* The closed rows since the last "ok", as far as they matter.
Streak(n, v) ==
    CASE v = "ok" -> 0
      [] v = "error" /\ n < MAX_CONSECUTIVE_ERRORS -> n + 1
      [] OTHER -> n

\* _close_run, committed.
CloseRun(p) ==
    LET k == current[p] IN
    /\ runner_pc[p] = "close"
    /\ running' = [running EXCEPT ![k] = @ - 1]
    /\ streak' = [streak EXCEPT ![k] = IF irregular THEN 0 ELSE Streak(@, verdict[p])]
    /\ Go(p, "record")
    /\ UNCHANGED <<workflows, local, irregular, runFaults>>

\* Slip: a success does not clear the count.
Counted_on(k, v) == IF v = "ok" THEN errors[k] ELSE errors[k] + 1

\* consecutive_errors after one more verdict.
Counted(k, v) == IF v = "ok" THEN 0 ELSE errors[k] + 1

\* Slip: the halt is said one failure after it.
watcher_halted_late(n) == n > MAX_CONSECUTIVE_ERRORS

\* alerts.watcher_halted: is a failure that makes the count n to be said?
watcher_halted(n) == n >= MAX_CONSECUTIVE_ERRORS

\* _record_success or _record_failure, committed: the interval starts again.
Record(p) ==
    LET k == current[p] IN
    /\ runner_pc[p] = "record"
    /\ errors' = [errors EXCEPT ![k] = Counted(k, verdict[p])]
    /\ overdue' = Remove(overdue, k)
    /\ Forget(p)
    /\ IF verdict[p] = "error" /\ watcher_halted(errors'[k])
       THEN Go(p, "halted")
       ELSE Next_watcher(p)
    /\ UNCHANGED <<enabled, episodes, todo, irregular, runFaults>>

\* _alert_if_halted: whatever becomes of the email, the run returns.
AlertHalted(p) ==
    /\ runner_pc[p] = "halted"
    /\ Next_watcher(p)
    /\ UNCHANGED <<workflows, episodes, local, irregular, runFaults>>

\* The connection is lost, so that run raises after all, or the process dies:
\* the rest of the list is not run.
CutOff(p) ==
    /\ runner_pc[p] # "idle" /\ runFaults < MaxRunFaults
    /\ runFaults' = runFaults + 1
    /\ Forget(p)
    /\ todo' = IF p = Worker THEN <<>> ELSE todo
    /\ Go(p, "idle")
    /\ Regular_unless(TRUE)
    /\ UNCHANGED <<workflows, running>>

-----------------------------------------------------------------------------
Run(p) == Watch(p) \/ CloseRun(p) \/ Record(p) \/ AlertHalted(p)

Work == Tick \/ RunListed \/ EndTick \/ Run(Worker)

RunnerNext ==
    \/ Work
    \/ \E p \in Manual, k \in Watchers : RunNow(p, k)
    \/ \E p \in Manual : Run(p)
    \/ \E p \in Runners : CutOff(p)
    \/ \E k \in Watchers : Lapse(k)
    \/ \E k \in Watchers, on \in BOOLEAN : SetEnabled(k, on)

\* The scheduler starts a tick every ten minutes, and a watcher returns.
RunnerFairness == WF_runnerVars(Work)

RunnerSpec     == RunnerInit /\ [][RunnerNext]_runnerVars
RunnerFairSpec == RunnerSpec /\ RunnerFairness

-----------------------------------------------------------------------------
(* Safety. *)

Busy(k) == {p \in Runners : current[p] = k /\ runner_pc[p] \in {"watch", "close"}}

\* Every pass leaves a row that says how it ended, failures too: at most one
\* row says "running" for each pass under way and each that was cut off.
RowsAreClosed ==
    \A k \in Watchers :
        Cardinality(Busy(k)) <= running[k] /\ running[k] <= Cardinality(Busy(k)) + runFaults

\* runner.py: three failures in a row halt a watcher, and nothing less does: the
\* count and the closed rows agree, though written in two transactions, whoever
\* turns the watcher on or off in between.  A pass cut off between the two, or
\* two that overlap, set them apart for good.
ThreeInARow ==
    ~irregular =>
        \A k \in Watchers :
            Recording(k) \/ (Halted(k) <=> streak[k] = MAX_CONSECUTIVE_ERRORS)

\* What the tables say of the passes is what became of them, in both.
PassesAreAccounted == ThreeInARow /\ RowsAreClosed

(* Liveness. *)

\* No watcher that is due is passed over for ever, though a tick runs only the
\* most overdue, ticks are cut off and people run watchers of their own.
EveryDueWatcherRuns ==
    \A k \in Watchers :
        (Contains(overdue, k) /\ Schedulable(k))
            ~> (~Contains(overdue, k) \/ ~Schedulable(k))
=============================================================================
