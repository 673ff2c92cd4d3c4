------------------------------- MODULE Ladder -------------------------------
(***************************************************************************)
(* The collections policy of vinayak/collections.py: which rung of the     *)
(* reminder ladder a balance has earned, and whether a customer may be     *)
(* chased today.  Pure, like the code it models: dates are day numbers,    *)
(* amounts are whole units, a missing value is NULL.                       *)
(***************************************************************************)
EXTENDS Integers

CONSTANTS
    FromDays,                  \* days overdue at which each rung begins
    CooldownDays,              \* days a rung waits after the previous chase
    IgnoredChasesToEscalate,   \* unanswered reminders worth one rung
    PromiseGraceDays,          \* grace after the promised day
    MinAmount,                 \* the smallest balance worth chasing
    NULL                       \* SQL NULL / Python None

MaxRung == 4                   \* LADDER has four rungs
Levels  == 1..MaxRung
Rungs   == 0..MaxRung          \* 0 is "never chased"

\* What LADDER and the module constants promise of the values above.
ASSUME LadderAssumption ==
    /\ FromDays \in [Levels -> Nat]
    /\ CooldownDays \in [Levels -> Nat]
    /\ \A l, m \in Levels : l < m => FromDays[l] < FromDays[m]
    /\ FromDays[1] > 0
    /\ IgnoredChasesToEscalate \in Nat \ {0}
    /\ PromiseGraceDays \in Nat
    /\ MinAmount \in Nat \ {0}
    /\ NULL \notin Int

Smaller(a, b) == IF a < b THEN a ELSE b
Larger(a, b)  == IF a > b THEN a ELSE b

\* The highest rung whose first day has been reached; 0 when none has.
Earned(days_overdue) ==
    CHOOSE l \in Rungs :
        /\ l > 0 => days_overdue >= FromDays[l]
        /\ \A m \in Levels : m > l => days_overdue < FromDays[m]

\* Slip: the climb is not limited to one step.
rung_for_jumps(days_overdue, chases_sent, current_rung) ==
    IF Earned(days_overdue) = 0 THEN 0
    ELSE Smaller(MaxRung, Earned(days_overdue)
                            + chases_sent \div IgnoredChasesToEscalate)

\* Lateness earns a rung, every so many unanswered reminders one more, and a
\* customer climbs one rung at a time.
rung_for(days_overdue, chases_sent, current_rung) ==
    IF Earned(days_overdue) = 0 THEN 0
    ELSE Smaller(Smaller(MaxRung, Earned(days_overdue)
                                    + chases_sent \div IgnoredChasesToEscalate),
                 current_rung + 1)

\* A promise protects its customer through the last day of grace.
Promised(promised_on, today) ==
    promised_on # NULL /\ today <= promised_on + PromiseGraceDays

Paused(st, today) == st.paused_until # NULL /\ today <= st.paused_until

\* Everything a person or a customer said that forbids a reminder today.
Held(st, promised_on, today) ==
    st.disputed \/ Promised(promised_on, today) \/ Paused(st, today)

\* The rung's cooldown has run since the last reminder that went out.
Cooled(st, level, today) ==
    st.last_chased = NULL \/ today - st.last_chased >= CooldownDays[level]

\* May this customer be chased today, and how firmly?  A refusal for the
\* cooldown still names the rung.
decide(days_overdue, outstanding, st, promised_on, today) ==
    LET level == rung_for(days_overdue, st.chases_sent, st.rung) IN
    IF Held(st, promised_on, today) \/ outstanding < MinAmount \/ level = 0
    THEN [allowed |-> FALSE, rung |-> 0]
    ELSE [allowed |-> Cooled(st, level, today), rung |-> level]
=============================================================================
