--------------------------- MODULE LadderTheorems ---------------------------
(* What the ladder's operators return, for every schedule of rungs. *)
EXTENDS Ladder, TLAPS

\* A rung is always found: the first day of one of them is the last one reached.
LEMMA EarnedExists ==
    ASSUME NEW d \in Int
    PROVE  /\ Earned(d) \in Rungs
           /\ Earned(d) > 0 => d >= FromDays[Earned(d)]
           /\ \A m \in Levels : m > Earned(d) => d < FromDays[m]
<1> DEFINE P(l) == /\ l > 0 => d >= FromDays[l]
                   /\ \A m \in Levels : m > l => d < FromDays[m]
<1>1. \E l \in Rungs : P(l)
  <2>0. FromDays \in [1..4 -> Nat] /\ \A l, m \in 1..4 : l < m => FromDays[l] < FromDays[m]
    BY LadderAssumption DEF LadderAssumption, Levels, MaxRung
  <2>1. CASE d >= FromDays[4]
    BY <2>1, P(4) DEF Rungs, Levels, MaxRung
  <2>2. CASE d < FromDays[4] /\ d >= FromDays[3]
    BY <2>2, P(3) DEF Rungs, Levels, MaxRung
  <2>3. CASE d < FromDays[3] /\ d >= FromDays[2]
    BY <2>0, <2>3, P(2) DEF Rungs, Levels, MaxRung
  <2>4. CASE d < FromDays[2] /\ d >= FromDays[1]
    BY <2>0, <2>4, P(1) DEF Rungs, Levels, MaxRung
  <2>5. CASE d < FromDays[1]
    BY <2>0, <2>5, P(0) DEF Rungs, Levels, MaxRung
  <2> QED BY <2>0, <2>1, <2>2, <2>3, <2>4, <2>5
<1>2. Earned(d) \in Rungs /\ P(Earned(d))
  <2>1. Earned(d) = CHOOSE l \in Rungs : P(l)
    BY DEF Earned
  <2> QED BY <1>1, <2>1
<1> QED BY <1>2

\* rung_for stays on the ladder, climbs at most one step, and answers 0 to a
\* balance that is not late enough for the first rung.
THEOREM RungForClimbsOneStep ==
    ASSUME NEW d \in Int, NEW n \in Nat, NEW r \in Rungs
    PROVE  /\ rung_for(d, n, r) \in Rungs
           /\ rung_for(d, n, r) <= r + 1
           /\ d < FromDays[1] => rung_for(d, n, r) = 0
<1>1. Earned(d) \in 0..4 /\ (Earned(d) > 0 => d >= FromDays[Earned(d)])
  BY EarnedExists DEF Rungs, MaxRung
<1>2. n \div IgnoredChasesToEscalate \in Nat
  BY LadderAssumption DEF LadderAssumption
<1>3. d < FromDays[1] => Earned(d) = 0
  <2> SUFFICES ASSUME d < FromDays[1], Earned(d) > 0 PROVE FALSE
    BY <1>1
  <2>1. FromDays \in [1..4 -> Nat] /\ \A l, m \in 1..4 : l < m => FromDays[l] < FromDays[m]
    BY LadderAssumption DEF LadderAssumption, Levels, MaxRung
  <2>2. FromDays[1] <= FromDays[Earned(d)]
    BY <1>1, <2>1
  <2> QED BY <1>1, <2>1, <2>2
<1>4. rung_for(d, n, r) \in Rungs /\ rung_for(d, n, r) <= r + 1
  BY <1>1, <1>2 DEF rung_for, Smaller, Rungs, MaxRung
<1> QED BY <1>3, <1>4 DEF rung_for

\* decide allows a reminder only to a customer nobody spoke for, whose last
\* reminder lies back at least the cooldown of the rung it names, at a rung of
\* the ladder at most one step above their own.
THEOREM DecideRespectsHolds ==
    ASSUME NEW d \in Int, NEW owed \in Nat, NEW st, NEW p, NEW t,
           st.rung \in Rungs, st.chases_sent \in Nat,
           decide(d, owed, st, p, t).allowed
    PROVE  /\ ~Held(st, p, t)
           /\ Cooled(st, decide(d, owed, st, p, t).rung, t)
           /\ owed >= MinAmount
           /\ decide(d, owed, st, p, t).rung \in Levels
           /\ decide(d, owed, st, p, t).rung <= st.rung + 1
<1> DEFINE level == rung_for(d, st.chases_sent, st.rung)
<1>1. level \in Rungs /\ level <= st.rung + 1
  BY RungForClimbsOneStep
<1>2. ~(Held(st, p, t) \/ owed < MinAmount \/ level = 0)
  BY DEF decide
<1>3. decide(d, owed, st, p, t).rung = level /\ Cooled(st, level, t)
  BY <1>2 DEF decide
<1>4. MinAmount \in Nat
  BY LadderAssumption DEF LadderAssumption
<1> QED BY <1>1, <1>2, <1>3, <1>4 DEF Rungs, Levels, MaxRung
=============================================================================
