------------------------------ MODULE MCWorker ------------------------------
(***************************************************************************)
(* What the worker must get round to, in three parts of which one moves in *)
(* a behaviour while the others rest: the consumer's passes over the       *)
(* events (EventBus), the ticks of the watchers (WatcherRunner), and a     *)
(* watcher that halts with the reports of it (Halts).                      *)
(***************************************************************************)
EXTENDS MCEventBus, Halts

CONSTANTS
    WorkParts,      \* the parts this run is about
    LeftAlone       \* the watcher that rests in the part about reports

VARIABLE work_part     \* the one that moves

workVars == <<work_part, vars, haltVars>>

\* The part that rests has one initial state.
WorkInit ==
    /\ work_part \in WorkParts
    /\ Init
    /\ HaltsInit /\ (work_part # "watchers" => overdue = SetToSeq(Watchers))

\* Turned off first of all, and run by nobody.
Rests(k) == ~enabled'[k] /\ running'[k] = 0

WorkNext ==
    /\ UNCHANGED work_part
    /\ \/ work_part = "events"   /\ Next       /\ UNCHANGED haltVars
       \/ work_part = "watchers" /\ RunnerNext /\ UNCHANGED <<alertVars, halting, told, unheard, vars>>
       \/ work_part = "halts"    /\ HaltsNext  /\ Rests(LeftAlone) /\ UNCHANGED vars

\* The consumer and the ticks are fair, each in its part.
WorkFairness ==
    /\ \A w \in Workers :
          WF_workVars(work_part = "events" /\ Step(w) /\ UNCHANGED <<work_part, kind, haltVars>>)
    /\ WF_workVars(work_part = "watchers" /\ Work
                     /\ UNCHANGED <<work_part, alertVars, halting, told, unheard, vars>>)

WorkSpec == WorkInit /\ [][WorkNext]_workVars /\ WorkFairness

-----------------------------------------------------------------------------
\* registry.py, runner.py: in the part where the watchers move, every watcher
\* that is due gets its turn, or is turned off or halted.
WatchersGetTheirTurn == work_part = "watchers" => EveryDueWatcherRuns

\* In the part where a watcher halts, it is said; the watchers alone say nothing.
HaltsAreSaid == work_part = "halts" => HaltsAreTold
=============================================================================
