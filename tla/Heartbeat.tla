------------------------------ MODULE Heartbeat ------------------------------
(***************************************************************************)
(* health.py: the worker proves that it is alive by a row it rewrites      *)
(* every minute; the API, a process of its own, judges by the row whether  *)
(* the worker is down, and says so.  A developer's laptop that runs the    *)
(* scheduler in its API beats into the same table.  Time is counted in     *)
(* units of BEAT_SECONDS, and a process that is up does what is due before *)
(* the unit is over.                                                       *)
(***************************************************************************)
EXTENDS Integers, FiniteSets, FiniteSetsExt

CONSTANTS
    Production,        \* the worker
    Laptop,            \* the API of a developer, RUN_SCHEDULER=1
    Never,
    STALE,             \* HEARTBEAT_STALE_MINUTES
    EVERY,             \* every_seconds of the watchdog
    PRUNE_AFTER,       \* PRUNE_AFTER_DAYS
    LastUnit           \* bound: time

Schedulers == {Production, Laptop}

ASSUME HeartbeatAssumption ==
    /\ Production # Laptop /\ Never \notin Int
    /\ STALE \in Nat \ {0} /\ EVERY \in Nat \ {0} /\ PRUNE_AFTER \in Nat /\ STALE < PRUNE_AFTER
    /\ LastUnit \in Nat

VARIABLES
    clock,
    up,            \* the schedulers that run
    last_beat_at,  \* worker_heartbeats: when each last beat, or Never if there is no row
    beaten,        \* those that beat in this unit
    checker_since, \* since when the API runs, or Never
    next_check,    \* when its watchdog wakes
    stale_alert,   \* when the worker was last said to be down, or Never
    truly          \* when each last beat, whatever became of the row (history)

beatVars == <<clock, up, last_beat_at, beaten, checker_since, next_check, stale_alert, truly>>

HeartbeatTypeOK ==
    /\ clock \in 0..LastUnit
    /\ up \subseteq Schedulers /\ beaten \subseteq Schedulers
    /\ last_beat_at \in [Schedulers -> 0..LastUnit \cup {Never}]
    /\ checker_since \in 0..LastUnit \cup {Never}
    /\ next_check \in Nat
    /\ stale_alert \in 0..LastUnit \cup {Never}
    /\ truly \in [Schedulers -> 0..LastUnit \cup {Never}]

HeartbeatInit ==
    /\ clock = 0 /\ up = {} /\ beaten = {}
    /\ last_beat_at = [w \in Schedulers |-> Never]
    /\ checker_since = Never /\ next_check = 0
    /\ stale_alert = Never /\ truly = last_beat_at

-----------------------------------------------------------------------------
(* Pure. *)

heartbeat_state(beat) ==
    CASE beat = Never -> "never"
      [] beat # Never /\ clock - beat <= STALE -> "alive"
      [] OTHER -> "stale"

stale_alert_due(state, uptime) == state = "stale" \/ (state = "never" /\ uptime > STALE)

Beats == {w \in Schedulers : last_beat_at[w] # Never}

\* Slip: the row that beat first is taken.
pick_heartbeat_oldest == IF Beats = {} THEN Never ELSE Min({last_beat_at[w] : w \in Beats})

\* A row of the worker wins, however old: among the twenty latest rows, which two
\* schedulers do not fill.
pick_heartbeat ==
    IF Production \in Beats THEN last_beat_at[Production]
    ELSE IF Laptop \in Beats THEN last_beat_at[Laptop] ELSE Never

worker_state == heartbeat_state(pick_heartbeat)

-----------------------------------------------------------------------------
(* The schedulers. *)

Start(w) ==
    /\ w \notin up
    /\ up' = up \cup {w} /\ beaten' = beaten \ {w}
    /\ UNCHANGED <<clock, last_beat_at, checker_since, next_check, stale_alert, truly>>

\* It crashes, or hangs with every thread.
Stop(w) ==
    /\ w \in up
    /\ up' = up \ {w} /\ beaten' = beaten \ {w}
    /\ UNCHANGED <<clock, last_beat_at, checker_since, next_check, stale_alert, truly>>

\* beat: the row of this one, and rows as old as that are deleted.
Beat(w) ==
    /\ w \in up \ beaten
    /\ last_beat_at' = [v \in Schedulers |->
           IF v = w THEN clock
           ELSE IF v \in Beats /\ clock - last_beat_at[v] > PRUNE_AFTER THEN Never
           ELSE last_beat_at[v]]
    /\ beaten' = beaten \cup {w} /\ truly' = [truly EXCEPT ![w] = clock]
    /\ UNCHANGED <<clock, up, checker_since, next_check, stale_alert>>

-----------------------------------------------------------------------------
(* The API. *)

\* lifespan starts the watchdog, which begins by waiting.
StartApi ==
    /\ checker_since = Never
    /\ checker_since' = clock /\ next_check' = clock + STALE
    /\ UNCHANGED <<clock, up, last_beat_at, beaten, stale_alert, truly>>

StopApi ==
    /\ checker_since # Never /\ checker_since' = Never
    /\ UNCHANGED <<clock, up, last_beat_at, beaten, next_check, stale_alert, truly>>

\* check_worker_stale, where the database answers; one that cannot connect is
\* left to the next round.  What becomes of the alert is in Alerts.
Checked ==
    stale_alert' = IF stale_alert_due(worker_state, clock - checker_since)
                   THEN clock ELSE stale_alert

Watchdog ==
    /\ checker_since # Never /\ clock >= next_check
    /\ Checked /\ next_check' = clock + EVERY
    /\ UNCHANGED <<clock, up, last_beat_at, beaten, checker_since, truly>>

\* The health panel is read, and checks in the background.
ReadPanel ==
    /\ checker_since # Never /\ Checked
    /\ UNCHANGED <<clock, up, last_beat_at, beaten, checker_since, next_check, truly>>

\* A unit is over when all who are up have beaten and the watchdog has looked.
Wait ==
    /\ clock < LastUnit /\ up \subseteq beaten
    /\ checker_since # Never => clock < next_check
    /\ clock' = clock + 1 /\ beaten' = {}
    /\ UNCHANGED <<up, last_beat_at, checker_since, next_check, stale_alert, truly>>

HeartbeatNext ==
    \/ \E w \in Schedulers : Start(w) \/ Stop(w) \/ Beat(w)
    \/ StartApi \/ StopApi \/ Watchdog \/ ReadPanel \/ Wait

HeartbeatSpec == HeartbeatInit /\ [][HeartbeatNext]_beatVars

-----------------------------------------------------------------------------
(* Properties. *)

\* health.py: silence is the worker's only failure mode.  When the API has been
\* up, and the worker silent, for longer than the stale window and a round of the
\* watchdog, it was said to be down: for as long as its row is kept, and if it
\* never beat, unless a laptop did.
DeadWorkerIsNoticed ==
    LET last == truly[Production]
        long(since) == clock - since > STALE + EVERY
    IN  /\ checker_since # Never /\ long(checker_since)
        /\ IF last = Never THEN truly[Laptop] = Never
                           ELSE long(last) /\ clock - last <= PRUNE_AFTER
        => /\ stale_alert # Never /\ stale_alert >= checker_since
           /\ last # Never => stale_alert > last

\* A worker that has beaten since it started, and beats every minute, is never
\* said to be down, whoever else beats or stops.
NoFalseAlarm ==
    [][stale_alert' # stale_alert =>
          ~(Production \in up /\ last_beat_at[Production] # Never
              /\ last_beat_at[Production] >= clock - 1)]_beatVars

\* The watchdog neither misses a dead worker nor reports a live one.
WatchdogIsRight == []DeadWorkerIsNoticed /\ NoFalseAlarm
=============================================================================
