----------------------------- MODULE LadderDays -----------------------------
(***************************************************************************)
(* The policy over days: one customer nobody hears from, put in every      *)
(* situation below, waits day after day while the question "may we chase?" *)
(* is asked.                                                               *)
(***************************************************************************)
EXTENDS Ladder

CONSTANTS
    LateBy,         \* how late the balance is on day 0
    ChasesSent,     \* reminders before it
    Horizon         \* bound: days waited, past every promise, pause and cooldown below

ASSUME LadderDaysAssumption ==
    /\ LateBy \subseteq Nat /\ ChasesSent \subseteq Nat
    /\ Horizon \in Nat /\ Horizon > 5 /\ Horizon > 4 + PromiseGraceDays
    /\ Horizon >= FromDays[1] /\ \A l \in Levels : Horizon >= CooldownDays[l]

VARIABLES
    today,      \* days since the customer was put in this situation
    case        \* the situation; late is the days overdue on day 0

ladderVars == <<today, case>>

State == [rung : Rungs, chases_sent : ChasesSent, last_chased : {NULL, 0},
          paused_until : {NULL, 5}, disputed : BOOLEAN]

Case == [late : LateBy, owed : {MinAmount - 1, MinAmount},
         st : State, promised_on : {NULL, 0, 4}]

LadderInit == today = 0 /\ case \in Case

NextDay == today < Horizon /\ today' = today + 1 /\ UNCHANGED case

LadderSpec == LadderInit /\ [][NextDay]_ladderVars

Late == case.late + today
Rung == rung_for(Late, case.st.chases_sent, case.st.rung)
Decided == decide(Late, case.owed, case.st, case.promised_on, today)

-----------------------------------------------------------------------------
\* What rung_for claims, against a definition that does not compute it: the
\* rung is the firmest one that is at most one step above the customer's and
\* that lateness and silence together justify.
Justified(l) ==
    /\ Late >= FromDays[1]
    /\ l <= case.st.rung + 1
    /\ \/ Late >= FromDays[l]
       \/ \E m \in 1..l : Late >= FromDays[m]
                          /\ case.st.chases_sent >= (l - m) * IgnoredChasesToEscalate

RungIsTheFirmestJustified ==
    /\ Rung > 0 => Justified(Rung)
    /\ \A l \in Levels : Justified(l) => l <= Rung

\* Nobody falls off the ladder: promises lapse, pauses end and cooldowns run,
\* so an undisputed balance worth chasing is chased before the horizon, whatever
\* the situation it starts from, and never again inside the cooldown.
EveryRefusalLapses ==
    LET asked_on(d) == decide(case.late + d, case.owed, case.st, case.promised_on, d) IN
    /\ (today = Horizon /\ ~case.st.disputed /\ case.owed >= MinAmount)
          => \E d \in 0..today : asked_on(d).allowed
    /\ (Decided.allowed /\ case.st.last_chased # NULL)
          => today >= CooldownDays[Decided.rung]

\* collections.py: the rung is never firmer nor milder than lateness and silence
\* justify, and no refusal lasts for ever.
LadderIsFair == RungIsTheFirmestJustified /\ EveryRefusalLapses
=============================================================================
