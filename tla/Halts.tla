-------------------------------- MODULE Halts --------------------------------
(***************************************************************************)
(* The failure that halts a watcher is the one to say out loud: the runner *)
(* (WatcherRunner) and the alerts it raises (Alerts) together, for one     *)
(* company.  Counting the failure and reporting it are two transactions,   *)
(* the e-mail is a third step, and _alert_if_halted returns whatever       *)
(* becomes of them.                                                        *)
(***************************************************************************)
EXTENDS WatcherRunner, Alerts

\* Whoever runs watchers raises the alerts; a watcher is a condition.
ASSUME HaltsAssumption == Processes = Runners /\ Conditions = Watchers

VARIABLES
    halting,    \* the halted watcher each process is to report
    told,       \* those emailed about since they halted, or so lately that
                \* this was suppressed (history)
    unheard     \* those the latest report of which came to nothing (history)

haltVars == <<runnerVars, alertVars, halting, told, unheard>>

HaltsTypeOK ==
    /\ halting \in [Runners -> Watchers \cup {Nothing}]
    /\ told \subseteq Watchers /\ unheard \subseteq Watchers

HaltsInit ==
    /\ RunnerInit /\ AlertsInit
    /\ halting = [p \in Runners |-> Nothing]
    /\ told = {} /\ unheard = {}

\* What was said of a halt is over with it.
StillHalted(S) == {k \in S : errors'[k] >= MAX_CONSECUTIVE_ERRORS}

-----------------------------------------------------------------------------
\* A process goes on with its watchers.
GoOn(p) ==
    /\ Watch(p) \/ CloseRun(p) \/ (p = Worker /\ (Tick \/ RunListed \/ EndTick))
    /\ UNCHANGED <<alertVars, halting, told, unheard>>

\* People and time.
Meanwhile ==
    /\ \/ \E p \in Manual, k \in Watchers : RunNow(p, k)
       \/ \E k \in Watchers : Lapse(k)
       \/ \E k \in Watchers, on \in BOOLEAN : SetEnabled(k, on)
    /\ told' = StillHalted(told)
    /\ UNCHANGED <<alertVars, halting, unheard>>

\* watcher_halted: the failure just counted is the last one, or beyond it.
Count(p) ==
    /\ Record(p)
    /\ halting' = [halting EXCEPT ![p] = IF runner_pc'[p] = "halted" THEN current[p] ELSE @]
    /\ told' = StillHalted(told)
    /\ UNCHANGED <<alertVars, unheard>>

\* The process has done with its report.
Reported(p) == AlertHalted(p) /\ halting' = [halting EXCEPT ![p] = Nothing]

\* watcher_halted_alert: a claim on the watcher, or nothing within the cooldown.
Report(p) ==
    LET k == halting[p] IN
    /\ runner_pc[p] = "halted"
    /\ Raise(p, k) \/ RaiseLocally(p, k)
    /\ IF Idle(p)'
       THEN /\ Reported(p)
            /\ told' = IF emails[k] > 0 THEN StillHalted(told \cup {k}) ELSE told
            /\ UNCHANGED unheard
       ELSE /\ unheard' = unheard \ {k}
            /\ UNCHANGED <<runnerVars, halting, told>>

\* raise_alert fails before anything is marked, and swallows it.
Swallow(p) ==
    /\ Undelivered /\ Idle(p)
    /\ Reported(p)
    /\ unheard' = unheard \cup {halting[p]}
    /\ UNCHANGED <<alertVars, told>>

\* The e-mail is out, or it is not, and then the mark is put back or stays.
Answered(p) ==
    LET k == halting[p] IN
    /\ Reported(p)
    /\ \/ /\ Deliver(p)
          /\ told' = StillHalted(told \cup {k}) /\ unheard' = unheard \ {k}
       \/ /\ Unmark(p) \/ Lose(p)
          /\ unheard' = unheard \cup {k} /\ UNCHANGED told

\* A pass is cut off; nothing raises out of a report, so then the process died.
CutShort(p) ==
    /\ CutOff(p)
    /\ \/ Lose(p) \/ Restart(p)
       \/ runner_pc[p] # "halted" /\ UNCHANGED alertVars
    /\ halting' = [halting EXCEPT ![p] = Nothing]
    /\ unheard' = unheard \cup ({halting[p]} \ {Nothing})
    /\ UNCHANGED told

\* The cooldown of a watcher's alert is over.
Forgotten(k) == CooldownEnds(k) /\ UNCHANGED <<runnerVars, halting, told, unheard>>

-----------------------------------------------------------------------------
Works(p) == GoOn(p) \/ Count(p) \/ Report(p) \/ Answered(p)

HaltsNext ==
    \/ Meanwhile
    \/ \E p \in Runners : Works(p) \/ Swallow(p) \/ CutShort(p)
    \/ \E k \in Watchers : Forgotten(k)

HaltsSpec == HaltsInit /\ [][HaltsNext]_haltVars

-----------------------------------------------------------------------------
\* runner.py: a watcher that is no longer run is a silent stop unless said.
\* Whoever counts, reports, sends and dies in whatever order, a halted watcher
\* has been emailed about, is about to be, or its latest report has failed.
HaltsAreTold ==
    \A k \in Watchers :
        Halted(k) => k \in told \cup unheard \/ \E p \in Runners : halting[p] = k
=============================================================================
