-------------------------------- MODULE Usage --------------------------------
(***************************************************************************)
(* usage.py: the evidence that an owner has used the system, four days a   *)
(* week for sixty days on end.  Every request records the day, once a      *)
(* process; the milestone board counts runs of whole weeks in the days of  *)
(* a trailing window.  One user of one company.                            *)
(***************************************************************************)
EXTENDS Integers, FiniteSets, FiniteSetsExt

CONSTANTS
    ApiProcesses,
    WEEK_DAYS,      \* days in a week
    min_days,
    window_days,
    RUN_DAYS,       \* the 60 of meets_60_days
    LastDate        \* bound: days, from 0, a Monday

ASSUME UsageAssumption ==
    /\ WEEK_DAYS \in Nat \ {0} /\ min_days \in 1..WEEK_DAYS
    /\ window_days \in Nat /\ RUN_DAYS \in Nat \ {0} /\ LastDate \in Nat

VARIABLES
    date_now,
    usage_events,   \* the days recorded
    _seen,          \* the processes that remember having recorded this day
    visited         \* the days with a request while the table took writes (history)

usageVars == <<date_now, usage_events, _seen, visited>>

UsageTypeOK ==
    /\ date_now \in 0..LastDate
    /\ usage_events \subseteq 0..date_now /\ visited \subseteq 0..date_now
    /\ _seen \subseteq ApiProcesses

UsageInit == date_now = 0 /\ usage_events = {} /\ _seen = {} /\ visited = {}

-----------------------------------------------------------------------------
(* record *)

Visit(p) ==
    /\ visited' = visited \cup {date_now}
    /\ IF p \in _seen
       THEN UNCHANGED <<usage_events, _seen>>
       ELSE usage_events' = usage_events \cup {date_now} /\ _seen' = _seen \cup {p}
    /\ UNCHANGED date_now

\* Slip: the day is remembered before it is committed.
VisitUnrecorded_seen(p) ==
    /\ p \notin _seen
    /\ _seen' = _seen \cup {p}
    /\ UNCHANGED <<date_now, usage_events, visited>>

\* The statement fails: a warning, and the request is served all the same.
VisitUnrecorded(p) == p \notin _seen /\ UNCHANGED usageVars

\* The process is restarted, or its memory is full and cleared.
Forgets(p) ==
    /\ p \in _seen /\ _seen' = _seen \ {p}
    /\ UNCHANGED <<date_now, usage_events, visited>>

Tomorrow ==
    /\ date_now < LastDate /\ date_now' = date_now + 1 /\ _seen' = {}
    /\ UNCHANGED <<usage_events, visited>>

-----------------------------------------------------------------------------
(* stats *)

Week(d)         == d \div WEEK_DAYS
since           == date_now - window_days
active_days     == {d \in usage_events : d >= since}
Qualifies(w)    == Cardinality({d \in active_days : Week(d) = w}) >= min_days

\* The weeks since the first active day, this one excepted.
complete ==
    IF active_days = {} THEN {} ELSE Week(Min(active_days))..Week(date_now) - 1

\* A loop over them, counting up and starting again.
Counter ==
    LET cur[w \in Int] == IF w \notin complete \/ ~Qualifies(w) THEN 0 ELSE cur[w - 1] + 1
    IN  cur

best_run_weeks    == Max({Counter[w] : w \in complete} \cup {0})
current_run_weeks == Counter[Week(date_now) - 1]
meets_60_days     == best_run_weeks * WEEK_DAYS >= RUN_DAYS

-----------------------------------------------------------------------------
UsageNext ==
    \/ \E p \in ApiProcesses : Visit(p) \/ VisitUnrecorded(p) \/ Forgets(p)
    \/ Tomorrow

UsageSpec == UsageInit /\ [][UsageNext]_usageVars

-----------------------------------------------------------------------------
(* Properties. *)

\* The rule as usage.py states it: a run is a sequence of consecutive complete
\* weeks, each with so many of its days active.  It may be empty.
Runs == {r \in {v..w : v \in 0..Week(LastDate), w \in -1..Week(LastDate)} :
            \A w \in r : w < Week(date_now) /\ Qualifies(w)}

\* A day on which the user came and the table took writes is on record, whatever
\* failed before and whichever process was asked; and the target is met when a run
\* is long enough, by the stated rule.
EveryDayCounts ==
    /\ usage_events = visited
    /\ best_run_weeks = Max({Cardinality(r) : r \in Runs})
    /\ meets_60_days <=> \E r \in Runs : Cardinality(r) * WEEK_DAYS >= RUN_DAYS

\* From one day to the next of a week the run of the weeks before it stands,
\* unless it goes back to the week in which the window begins, which loses its
\* days one by one.
RunOutlastsTheDay ==
    (date_now' = date_now + 1 /\ Week(date_now') = Week(date_now)) =>
        \/ current_run_weeks' = current_run_weeks
        \/ Week(date_now) - current_run_weeks = Week(since)

\* usage.py calls itself evidence: every day counts, runs are what it says, and
\* the current, partial week never breaks a run until it ends.
UsageIsEvidence == [][EveryDayCounts' /\ RunOutlastsTheDay]_usageVars
=============================================================================
