--------------------------- MODULE OfficeTheorems ---------------------------
(***************************************************************************)
(* The parts of the back office that share no state, each proved on its    *)
(* own: the ladder over days, the full sync, the access tokens, the        *)
(* experiments log, the credit flags, the heartbeat, the morning brief and *)
(* the days of use; what is sent, remembered and answered is proved in     *)
(* MessagesTheorems and AlertsTheorems.  In the end they are put together: *)
(* a behaviour of the office is one of each of its parts, so what was      *)
(* proved of a part on its own holds in the office.                        *)
(***************************************************************************)
EXTENDS MCOffice, LadderTheorems, AlertsTheorems, MessagesTheorems,
        FiniteSetTheorems, NaturalsInduction, WellFoundedInduction, TLAPS

-----------------------------------------------------------------------------
(* LadderDays: the policy, for every schedule of rungs.                    *)

\* What so many unanswered reminders are worth, without a division.
LEMMA StepsWorth ==
    ASSUME NEW n \in Nat, NEW k \in Nat \ {0}, NEW j \in 0..MaxRung
    PROVE  n \div k \in Nat /\ (n \div k >= j <=> n >= j * k)
<1>1. n = k * (n \div k) + (n % k) /\ n % k \in 0..k - 1 /\ n \div k \in Nat
  OBVIOUS
<1> DEFINE q == n \div k
           r == n % k
<1>2. n = k * q + r /\ r \in 0..k - 1 /\ q \in Nat
  BY <1>1
<1> HIDE DEF q, r
<1>3. q >= j <=> n >= j * k
  <2>1. ASSUME q >= j PROVE n >= j * k
    <3>1. k * q >= k * j
      BY <1>2, <2>1 DEF MaxRung
    <3>2. QED
      BY <1>2, <3>1 DEF MaxRung
  <2>2. ASSUME q < j PROVE n < j * k
    <3>1. k * (q + 1) <= k * j
      BY <1>2, <2>2 DEF MaxRung
    <3>2. k * (q + 1) = k * q + k
      BY <1>2
    <3>3. QED
      BY <1>2, <3>1, <3>2 DEF MaxRung
  <2>3. QED
    BY <1>2, <2>1, <2>2 DEF MaxRung
<1>4. QED
  BY <1>2, <1>3 DEF q

LadderInv == case \in Case /\ today \in 0..Horizon

\* The parts of a situation.
LEMMA SituationIs ==
    ASSUME LadderInv
    PROVE  /\ case.late \in Nat /\ case.owed \in {MinAmount - 1, MinAmount}
           /\ case.promised_on \in {NULL, 0, 4}
           /\ case.st.rung \in Rungs /\ case.st.chases_sent \in Nat
           /\ case.st.last_chased \in {NULL, 0} /\ case.st.paused_until \in {NULL, 5}
           /\ case.st.disputed \in BOOLEAN
           /\ today \in 0..Horizon /\ Horizon \in Nat
<1>1. /\ case.late \in LateBy /\ case.owed \in {MinAmount - 1, MinAmount}
      /\ case.st \in State /\ case.promised_on \in {NULL, 0, 4}
  BY DEF LadderInv, Case
<1>2. /\ case.st.rung \in Rungs /\ case.st.chases_sent \in ChasesSent
      /\ case.st.last_chased \in {NULL, 0} /\ case.st.paused_until \in {NULL, 5}
      /\ case.st.disputed \in BOOLEAN
  BY <1>1 DEF State
<1>3. QED
  BY <1>1, <1>2, LadderDaysAssumption DEF LadderInv

\* What is asked of a situation on a day.
LEMMA FirmestJustified ==
    ASSUME LadderInv
    PROVE  RungIsTheFirmestJustified
<1> DEFINE E == Earned(Late)
           K == IgnoredChasesToEscalate
           n == case.st.chases_sent
           q == n \div K
           r == case.st.rung
<1>1. /\ Late \in Int /\ n \in Nat /\ r \in 0..4 /\ K \in Nat \ {0}
      /\ FromDays \in [1..4 -> Nat] /\ \A l, m \in 1..4 : l < m => FromDays[l] < FromDays[m]
  BY LadderAssumption, SituationIs DEF Late, Rungs, Levels, MaxRung
<1>2. E \in 0..4 /\ (E > 0 => Late >= FromDays[E]) /\ \A m \in 1..4 : m > E => Late < FromDays[m]
  BY <1>1, EarnedExists DEF Rungs, Levels, MaxRung
<1>3. q \in Nat /\ \A j \in 0..4 : q >= j <=> n >= j * K
  BY <1>1, StepsWorth DEF MaxRung
<1>4. Rung = IF E = 0 THEN 0 ELSE Smaller(Smaller(4, E + q), r + 1)
  BY DEF Rung, rung_for, MaxRung
<1>5. \A l : Justified(l) <=> /\ Late >= FromDays[1] /\ l <= r + 1
                              /\ \/ Late >= FromDays[l]
                                 \/ \E m \in 1..l : Late >= FromDays[m] /\ n >= (l - m) * K
  BY DEF Justified
<1> HIDE DEF E, K, n, q, r
<1>6. Rung \in 0..4 /\ Rung <= r + 1 /\ (E > 0 => Rung > 0) /\ (Rung > 0 => E > 0)
      /\ (E > 0 => Rung <= E + q /\ (Rung = 4 \/ Rung = E + q \/ Rung = r + 1))
  BY <1>1, <1>2, <1>3, <1>4 DEF Smaller
<1>7. ASSUME Rung > 0 PROVE Justified(Rung)
  <2>1. E \in 1..4 /\ Late >= FromDays[E] /\ Late >= FromDays[1]
    BY <1>1, <1>2, <1>6, <1>7
  <2>2. CASE Rung <= E
    <3>1. FromDays[Rung] <= FromDays[E]
      BY <1>1, <1>6, <1>7, <2>1, <2>2
    <3>2. Late >= FromDays[Rung]
      BY <1>1, <1>6, <1>7, <2>1, <3>1
    <3>3. QED
      BY <1>5, <1>6, <2>1, <3>2
  <2>3. CASE Rung > E
    <3>1. E \in 1..Rung /\ Rung - E \in 0..4 /\ q >= Rung - E
      BY <1>3, <1>6, <2>1, <2>3
    <3>2. n >= (Rung - E) * K
      BY <1>3, <3>1
    <3>3. QED
      BY <1>5, <1>6, <2>1, <3>1, <3>2
  <2>4. QED
    BY <1>2, <1>6, <2>2, <2>3
<1>8. ASSUME NEW l \in Levels, Justified(l) PROVE l <= Rung
  <2>1. l \in 1..4 /\ l <= r + 1 /\ Late >= FromDays[1]
    BY <1>5, <1>8 DEF Levels, MaxRung
  <2>2. E > 0
    BY <1>1, <1>2, <2>1
  <2>3. l <= E + q
    <3>1. CASE Late >= FromDays[l]
      <4>1. l <= E
        BY <1>1, <1>2, <2>1, <3>1
      <4>2. QED
        BY <1>2, <1>3, <2>1, <4>1
    <3>2. CASE \E m \in 1..l : Late >= FromDays[m] /\ n >= (l - m) * K
      <4>1. PICK m \in 1..l : Late >= FromDays[m] /\ n >= (l - m) * K
        BY <3>2
      <4>2. m \in 1..4 /\ m <= E /\ l - m \in 0..4
        BY <1>1, <1>2, <2>1, <4>1
      <4>3. q >= l - m
        BY <1>3, <4>1, <4>2
      <4>4. QED
        BY <1>2, <1>3, <2>1, <4>2, <4>3
    <3>3. QED
      BY <1>5, <1>8, <3>1, <3>2
  <2>4. QED
    BY <1>1, <1>2, <1>3, <1>4, <2>1, <2>2, <2>3 DEF Smaller
<1>9. QED
  BY <1>7, <1>8 DEF RungIsTheFirmestJustified

\* On the last day nothing that was said still holds, and the cooldown has run.
LEMMA RefusalsLapse ==
    ASSUME LadderInv
    PROVE  EveryRefusalLapses
<1> DEFINE h == Horizon
           level(d) == rung_for(case.late + d, case.st.chases_sent, case.st.rung)
           on(d) == decide(case.late + d, case.owed, case.st, case.promised_on, d)
<1>1. /\ case.late \in Nat /\ case.st.chases_sent \in Nat /\ case.st.rung \in Rungs
      /\ case.promised_on \in {NULL, 0, 4} /\ case.st.paused_until \in {NULL, 5}
      /\ case.st.last_chased \in {NULL, 0} /\ case.st.disputed \in BOOLEAN
      /\ today \in 0..h /\ h \in Nat /\ h > 5 /\ h > 4 + PromiseGraceDays /\ h >= FromDays[1]
      /\ \A l \in Levels : h >= CooldownDays[l]
      /\ PromiseGraceDays \in Nat /\ FromDays[1] \in Nat /\ MinAmount \in Nat \ {0}
      /\ case.owed \in {MinAmount - 1, MinAmount} /\ NULL \notin Int
      /\ \A l \in Levels : CooldownDays[l] \in Nat
  BY LadderAssumption, LadderDaysAssumption, SituationIs DEF Levels, MaxRung
<1>2. ASSUME NEW d \in Nat PROVE level(d) \in Rungs
  <2>1. case.late + d \in Int
    BY <1>1
  <2>2. case.st.chases_sent \in Nat /\ case.st.rung \in Rungs
    BY <1>1
  <2>3. rung_for(case.late + d, case.st.chases_sent, case.st.rung) \in Rungs
    <3> HIDE DEF level
    <3> DEFINE late == case.late + d
               chased == case.st.chases_sent
               stands == case.st.rung
    <3>1. late \in Int /\ chased \in Nat /\ stands \in Rungs
      BY <2>1, <2>2
    <3> HIDE DEF late, chased, stands
    <3>2. rung_for(late, chased, stands) \in Rungs
      BY <3>1, RungForClimbsOneStep
    <3>3. QED
      BY <3>2 DEF late, chased, stands
  <2>4. QED
    BY <2>3
<1>3. ASSUME today = h, ~case.st.disputed, case.owed >= MinAmount
      PROVE  \E d \in 0..today : on(d).allowed
  <2>1. ~Held(case.st, case.promised_on, h)
    BY <1>1, <1>3 DEF Held, Promised, Paused
  <2>2. level(h) \in Levels
    <3>1. Earned(case.late + h) \in Rungs \ {0}
      <4>1. case.late + h \in Int /\ case.late + h >= FromDays[1]
        BY <1>1
      <4>2. QED
        BY <4>1, <1>1, EarnedExists DEF Rungs, Levels, MaxRung
    <3>2. case.st.chases_sent \div IgnoredChasesToEscalate \in Nat
      BY <1>1, LadderAssumption
    <3>3. QED
      BY <1>1, <3>1, <3>2 DEF rung_for, Smaller, Rungs, Levels, MaxRung
  <2>3. Cooled(case.st, level(h), h)
    BY <1>1, <2>2 DEF Cooled
  <2>4. on(h) = [allowed |-> Cooled(case.st, level(h), h), rung |-> level(h)]
    BY <1>1, <1>3, <2>1, <2>2 DEF decide, Levels
  <2>5. on(h).allowed
    BY <2>3, <2>4
  <2>6. QED
    BY <1>1, <1>3, <2>5
<1>4. ASSUME Decided.allowed, case.st.last_chased # NULL
      PROVE  today >= CooldownDays[Decided.rung]
  <2>1. Decided = on(today)
    BY DEF Decided, Late
  <2>2. Decided = [allowed |-> Cooled(case.st, level(today), today), rung |-> level(today)]
        /\ level(today) # 0
    BY <1>4, <2>1 DEF decide
  <2>3. Cooled(case.st, level(today), today) /\ Decided.rung = level(today)
    BY <1>4, <2>2
  <2>4. level(today) \in Levels
    BY <1>1, <1>2, <2>2 DEF Rungs, Levels, MaxRung
  <2>5. QED
    BY <1>1, <1>4, <2>3, <2>4 DEF Cooled
<1>5. QED
  BY <1>3, <1>4 DEF EveryRefusalLapses

\* collections.py, of any schedule of rungs and cooldowns: the rung is neither
\* firmer nor milder than lateness and silence justify, and once every promise,
\* pause and cooldown has run a balance worth chasing has been chased.
THEOREM TheLadderIsAlwaysFair == LadderSpec => []LadderIsFair
<1>1. LadderInit => LadderInv
  BY LadderDaysAssumption DEF LadderInit, LadderInv
<1>2. LadderInv /\ [NextDay]_ladderVars => LadderInv'
  BY LadderDaysAssumption DEF LadderInv, NextDay, ladderVars
<1>3. LadderInv => LadderIsFair
  BY FirmestJustified, RefusalsLapse DEF LadderIsFair
<1>4. QED
  BY <1>1, <1>2, <1>3, PTL DEF LadderSpec

-----------------------------------------------------------------------------
(* The parts with processes of their own.                                  *)

\* A set in which all are equal has one element at most.
LEMMA AllEqual ==
    ASSUME NEW S, \A x, y \in S : x = y
    PROVE  Cardinality(S) <= 1
<1>1. CASE S = {}
  BY <1>1, FS_EmptySet
<1>2. CASE S # {}
  <2>1. PICK x \in S : TRUE
    BY <1>2
  <2>2. S = {x}
    BY <2>1
  <2>3. QED
    BY <2>2, FS_Singleton
<1>3. QED
  BY <1>1, <1>2

-----------------------------------------------------------------------------
(* FullSync: one request at a time is past its look.                       *)

CallerTyped == caller \in [Callers -> Places] /\ overlapped \in BOOLEAN

\* Those who found nothing running, and those whose sync is under way.
PastTheLook == {c \in Callers : caller[c] = "checked" \/ Syncing(c)}

OneIsPast ==
    ~overlapped =>
        /\ \A c, d \in PastTheLook : c = d
        /\ sync_running <=> \E c \in Callers : Syncing(c)

FullSyncInv == CallerTyped /\ OneIsPast

LEMMA FullSyncAtFirst == FullSyncInit => FullSyncInv
BY DEF FullSyncInit, FullSyncInv, CallerTyped, OneIsPast, PastTheLook, Syncing, Places

\* A request that goes from one place to another where both are past the look,
\* or neither is.
LEMMA PlaceChangesLittle ==
    ASSUME FullSyncInv, NEW c \in Callers, NEW place \in Places, Step(c, place),
           Syncing(c) <=> place \in {"syncing", "waiting", "rebuild"},
           place = "checked" <=> caller[c] = "checked",
           UNCHANGED <<sync_running, overlapped>>
    PROVE  FullSyncInv'
<1>1. caller' = [caller EXCEPT ![c] = place]
  BY DEF Step
<1>2. \A d \in Callers : Syncing(d)' <=> Syncing(d)
  BY <1>1 DEF FullSyncInv, CallerTyped, Syncing
<1>3. PastTheLook' = PastTheLook
  BY <1>1, <1>2 DEF FullSyncInv, CallerTyped, PastTheLook
<1>4. CallerTyped'
  BY <1>1 DEF FullSyncInv, CallerTyped
<1>5. QED
  BY <1>2, <1>3, <1>4 DEF FullSyncInv, OneIsPast

LEMMA FullSyncStays == FullSyncInv /\ [FullSyncNext]_fullSyncVars => FullSyncInv'
<1> SUFFICES ASSUME FullSyncInv, [FullSyncNext]_fullSyncVars PROVE FullSyncInv'
  OBVIOUS
<1> USE DEF FullSyncInv, CallerTyped
<1>0. ASSUME UNCHANGED <<sync_running, caller, overlapped>>
      PROVE  FullSyncInv'
  BY <1>0 DEF OneIsPast, PastTheLook, Syncing
<1>1. ASSUME NEW c \in Callers, Check(c)
      PROVE  FullSyncInv'
  <2>1. CASE sync_running
    <3>1. Step(c, "refused") /\ caller[c] = "out" /\ UNCHANGED <<sync_running, overlapped>>
      BY <1>1, <2>1 DEF Check, OneIsPast
    <3>2. ~Syncing(c) /\ "refused" \in Places
      BY <3>1 DEF Syncing, Places
    <3>3. QED
      BY <3>1, <3>2, PlaceChangesLittle
  <2>2. CASE ~sync_running
    <3>1. /\ caller[c] = "out" /\ caller' = [caller EXCEPT ![c] = "checked"] /\ ~sync_running'
          /\ overlapped' \in BOOLEAN
          /\ ~overlapped' => ~overlapped /\ \A d \in Callers : caller[d] # "checked"
      BY <1>1, <2>2 DEF Check, Step
    <3>2. CallerTyped'
      BY <3>1 DEF Places
    <3>3. ~overlapped' => \A d \in Callers : ~Syncing(d) /\ caller[d] # "checked"
      BY <2>2, <3>1 DEF OneIsPast
    <3>4. ~overlapped' => \A d \in Callers : ~Syncing(d)' /\ (d # c => caller'[d] # "checked")
      BY <3>1, <3>3 DEF Syncing
    <3>5. QED
      BY <3>1, <3>2, <3>4 DEF OneIsPast, PastTheLook
  <2>3. QED
    BY <2>1, <2>2
<1>2. ASSUME NEW c \in Callers, Unconnected(c)
      PROVE  FullSyncInv'
  BY <1>2 DEF Unconnected, Step, OneIsPast, PastTheLook, Syncing, Places
<1>3. ASSUME NEW c \in Callers, StartThread(c)
      PROVE  FullSyncInv'
  BY <1>3 DEF StartThread, Step, OneIsPast, PastTheLook, Syncing, Places
<1>4. ASSUME NEW c \in Callers, StartReport(c) \/ Joined(c) \/ TimedOut(c)
      PROVE  FullSyncInv'
  <2>1. /\ caller[c] \in {"syncing", "waiting"} /\ UNCHANGED <<sync_running, overlapped>>
        /\ Step(c, "waiting") \/ Step(c, "rebuild") \/ Step(c, "syncing")
    BY <1>4 DEF StartReport, Joined, TimedOut, Ends
  <2>2. QED
    BY <2>1, PlaceChangesLittle DEF Syncing, Places
<1>5. ASSUME NEW c \in Callers, FinishSync(c) \/ AbortSync(c)
      PROVE  FullSyncInv'
  BY <1>5 DEF FinishSync, AbortSync, Step, OneIsPast, PastTheLook, Syncing, Places
<1>6. ASSUME NEW c \in Callers, BeginSync(c)
      PROVE  FullSyncInv'
  BY <1>0, <1>6 DEF BeginSync
<1>7. ASSUME NEW w \in workers, WorkerEnds(w)
      PROVE  FullSyncInv'
  BY <1>0, <1>7 DEF WorkerEnds
<1>8. CASE UNCHANGED fullSyncVars
  BY <1>0, <1>8 DEF fullSyncVars
<1>9. QED
  BY <1>1, <1>2, <1>3, <1>4, <1>5, <1>6, <1>7, <1>8 DEF FullSyncNext

\* Where each request is, and which report its sync is at.
FullSyncTyped ==
    /\ FullSyncTypeOK
    /\ \A c \in Callers : /\ caller[c] = "waiting" => report[c] \in Reports
                          /\ caller[c] \in {"out", "checked"} => report[c] = 0

\* What is completed was completed by the one sync.
ProgressIsOwn ==
    ~overlapped => \A c \in Callers : Syncing(c) /\ ~Started(c) => completed = report[c] - 1

LEMMA FullSyncTypedStays ==
    ASSUME FullSyncTyped, [FullSyncNext]_fullSyncVars, Len(Plan) \in Nat
    PROVE  FullSyncTyped'
<1> USE DEF FullSyncTyped, FullSyncTypeOK, Reports, Places
<1>1. ASSUME NEW c \in Callers, Check(c) PROVE FullSyncTyped'
  BY <1>1 DEF Check, Step
<1>2. ASSUME NEW c \in Callers, Unconnected(c) PROVE FullSyncTyped'
  BY <1>2 DEF Unconnected, Step
<1>3. ASSUME NEW c \in Callers, StartThread(c) PROVE FullSyncTyped'
  BY <1>3 DEF StartThread, Step
<1>4. ASSUME NEW c \in Callers, BeginSync(c) PROVE FullSyncTyped'
  BY <1>4 DEF BeginSync, Started
<1>5. ASSUME NEW c \in Callers, StartReport(c) PROVE FullSyncTyped'
  BY <1>5 DEF StartReport, Step
<1>6. ASSUME NEW c \in Callers, Joined(c) \/ TimedOut(c) PROVE FullSyncTyped'
  <2>1. PICK s \in {"success", "failed", "timed_out"} : Ends(c, s)
    BY <1>6 DEF Joined, TimedOut
  <2>2. caller[c] = "waiting" /\ report[c] \in 1..Len(Plan)
    BY <1>6 DEF Joined, TimedOut
  <2>3. QED
    BY <2>1, <2>2 DEF Ends, Step
<1>7. ASSUME NEW c \in Callers, FinishSync(c) \/ AbortSync(c) PROVE FullSyncTyped'
  BY <1>7 DEF FinishSync, AbortSync, Step
<1>8. ASSUME NEW w \in workers, WorkerEnds(w) PROVE FullSyncTyped'
  BY <1>8 DEF WorkerEnds
<1>9. CASE UNCHANGED fullSyncVars
  BY <1>9 DEF fullSyncVars
<1>10. QED
  BY <1>1, <1>2, <1>3, <1>4, <1>5, <1>6, <1>7, <1>8, <1>9 DEF FullSyncNext

\* A sync that is alone counts its own reports only.
LEMMA ProgressStays ==
    ASSUME FullSyncTyped, FullSyncInv, ProgressIsOwn, [FullSyncNext]_fullSyncVars
    PROVE  ProgressIsOwn'
<1> USE DEF FullSyncTyped, FullSyncTypeOK, ProgressIsOwn, Syncing, Started
<1>1. ~overlapped => \A c, d \in Callers : Syncing(c) /\ Syncing(d) => c = d
  BY DEF FullSyncInv, OneIsPast, PastTheLook
<1>2. ASSUME NEW c \in Callers, Check(c) PROVE ProgressIsOwn'
  BY <1>2 DEF Check, Step
<1>3. ASSUME NEW c \in Callers, Unconnected(c) PROVE ProgressIsOwn'
  BY <1>3 DEF Unconnected, Step
<1>4. ASSUME NEW c \in Callers, StartThread(c) PROVE ProgressIsOwn'
  BY <1>4 DEF StartThread, Step
<1>5. ASSUME NEW c \in Callers, BeginSync(c) PROVE ProgressIsOwn'
  BY <1>1, <1>5 DEF BeginSync
<1>6. ASSUME NEW c \in Callers, StartReport(c) PROVE ProgressIsOwn'
  BY <1>6 DEF StartReport, Step, Reports
<1>7. ASSUME NEW c \in Callers, Joined(c) \/ TimedOut(c) PROVE ProgressIsOwn'
  <2>1. PICK s \in {"success", "failed", "timed_out"} : Ends(c, s)
    BY <1>7 DEF Joined, TimedOut
  <2>2. caller[c] = "waiting" /\ report[c] \in Nat /\ report[c] # 0
    BY <1>7 DEF Joined, TimedOut, Reports
  <2>3. QED
    BY <1>1, <2>1, <2>2 DEF Ends, Step
<1>8. ASSUME NEW c \in Callers, FinishSync(c) \/ AbortSync(c) PROVE ProgressIsOwn'
  BY <1>8 DEF FinishSync, AbortSync, Step
<1>9. ASSUME NEW w \in workers, WorkerEnds(w) PROVE ProgressIsOwn'
  BY <1>9 DEF WorkerEnds
<1>10. CASE UNCHANGED fullSyncVars
  BY <1>10 DEF fullSyncVars
<1>11. QED
  BY <1>2, <1>3, <1>4, <1>5, <1>6, <1>7, <1>8, <1>9, <1>10 DEF FullSyncNext

\* The state of a sync keeps its type, through overlaps and reports given up.
THEOREM FullSyncIsTyped == FullSyncSpec => []FullSyncTyped
<1>1. Len(Plan) \in Nat
  BY FullSyncAssumption
<1>2. FullSyncInit => FullSyncTyped
  <2>1. SUFFICES ASSUME FullSyncInit PROVE FullSyncTyped
    OBVIOUS
  <2>2. /\ caller \in [Callers -> Places] /\ \A c \in Callers : caller[c] = "out"
        /\ report \in [Callers -> 0..Len(Plan) + 1] /\ \A c \in Callers : report[c] = 0
    BY <1>1, <2>1 DEF FullSyncInit, Places
  <2>3. workers \subseteq Callers \X Reports /\ completed \in Nat
    BY <2>1 DEF FullSyncInit
  <2>4. QED
    BY <2>1, <2>2, <2>3 DEF FullSyncInit, FullSyncTyped, FullSyncTypeOK
<1>3. FullSyncTyped /\ [FullSyncNext]_fullSyncVars => FullSyncTyped'
  BY <1>1, FullSyncTypedStays
<1>4. QED
  BY <1>2, <1>3, PTL DEF FullSyncSpec


\* Unless two requests both look before either has set the flag, one full sync
\* runs at a time, and the shared state says "running" just while it does.
THEOREM OneFullSyncAlways == FullSyncSpec => []OneFullSync
<1>1. FullSyncInv /\ ProgressIsOwn => OneFullSync
  <2>1. SUFFICES ASSUME FullSyncInv, ~overlapped
                 PROVE  Cardinality({c \in Callers : Syncing(c)}) <= 1
    BY DEF FullSyncInv, OneIsPast, OneFullSync, ProgressIsOwn
  <2>2. \A c, d \in {c \in Callers : Syncing(c)} : c = d
    BY <2>1 DEF FullSyncInv, OneIsPast, PastTheLook
  <2>3. QED
    BY <2>2, AllEqual
<1>2. FullSyncInit => ProgressIsOwn
  BY DEF FullSyncInit, ProgressIsOwn, Syncing
<1>3. FullSyncTyped /\ FullSyncInv /\ ProgressIsOwn /\ [FullSyncNext]_fullSyncVars => ProgressIsOwn'
  BY ProgressStays
<1>4. QED
  BY <1>1, <1>2, <1>3, FullSyncAtFirst, FullSyncStays, FullSyncIsTyped, PTL DEF FullSyncSpec

-----------------------------------------------------------------------------
(* Tokens: what may still be exchanged is owed to a cause.                 *)

\* Threads made to renew, and whether the cache has nothing to offer: each
\* of them may lead to an exchange.
Forced == {t \in Threads : request[t].forced}
Stale  == IF IsAccessValid THEN 0 ELSE 1

ExchangesAreOwed == issued + Cardinality(Forced) + Stale <= 1 + causes

TokensInv == TokensTypeOK /\ ExchangesAreOwed

LEMMA ForcedIsFinite == IsFiniteSet(Forced) /\ Cardinality(Forced) \in Nat
BY TokensAssumption, FS_Subset, FS_CardinalityType DEF Forced

\* A thread that goes on: the others stay as they are.
LEMMA GoingOn ==
    ASSUME TokensTypeOK, NEW t \in Threads, NEW fields \in Request, GoOn(t, fields)
    PROVE  /\ request' \in [Threads -> Request]
           /\ Cardinality(Forced) \in Nat /\ Cardinality(Forced') \in Nat
           /\ Cardinality(Forced') <= Cardinality(Forced) + (IF fields.forced THEN 1 ELSE 0)
           /\ ~fields.forced /\ request[t].forced => Cardinality(Forced') = Cardinality(Forced) - 1
<1>1. /\ request' \in [Threads -> Request]
      /\ Forced' = IF fields.forced THEN Forced \cup {t} ELSE Forced \ {t}
  BY DEF TokensTypeOK, GoOn, Forced, Request
<1>2. t \in Forced <=> request[t].forced
  BY DEF Forced
<1>3. /\ Cardinality(Forced) \in Nat
      /\ Cardinality(Forced \cup {t}) \in Nat /\ Cardinality(Forced \ {t}) \in Nat
      /\ Cardinality(Forced \cup {t}) = IF t \in Forced THEN Cardinality(Forced)
                                        ELSE Cardinality(Forced) + 1
      /\ Cardinality(Forced \ {t}) = IF t \in Forced THEN Cardinality(Forced) - 1
                                     ELSE Cardinality(Forced)
  BY ForcedIsFinite, FS_AddElement, FS_RemoveElement, FS_CardinalityType
<1>4. CASE fields.forced
  BY <1>1, <1>3, <1>4
<1>5. CASE ~fields.forced
  BY <1>1, <1>2, <1>3, <1>5
<1>6. QED
  BY <1>4, <1>5

\* The next attempt is made without force.
LEMMA AgainFits ==
    ASSUME TokensTypeOK, NEW t \in Threads, Again(t)
    PROVE  \E fields \in Request : GoOn(t, fields) /\ ~fields.forced
<1> DEFINE n == request[t].attempt + 1
<1>1. Quiet \in Request /\ ~Quiet.forced
  BY TokensAssumption DEF Quiet, Request
<1>2. CASE n < max_retries[provider]
  <2>1. n \in Nat
    BY DEF TokensTypeOK, Request
  <2>2. [Quiet EXCEPT !.at = Entry, !.attempt = n] \in Request
    <3>1. Entry \in {"look", "wait"}
      BY DEF Entry
    <3>2. QED
      BY <1>1, <2>1, <3>1 DEF Request
  <2>3. ~[Quiet EXCEPT !.at = Entry, !.attempt = n].forced
    BY DEF Quiet
  <2>4. QED
    BY <1>2, <2>2, <2>3 DEF Again
<1>3. CASE ~(n < max_retries[provider])
  BY <1>1, <1>3 DEF Again
<1>4. QED
  BY <1>2, <1>3

LEMMA AnswerFits ==
    ASSUME TokensTypeOK, NEW t \in Threads, NEW token \in 0..MaxTokens, Answer(t, token)
    PROVE  \E fields \in Request : GoOn(t, fields) /\ ~fields.forced
<1>1. CASE request[t].forced
  BY <1>1, AgainFits DEF Answer
<1>2. CASE ~request[t].forced
  <2>1. request[t] \in Request
    BY DEF TokensTypeOK
  <2>2. LET fields == [request[t] EXCEPT !.at = "send", !.token = token]
        IN  fields \in Request /\ ~fields.forced
    BY <1>2, <2>1 DEF Request
  <2>3. QED
    BY <1>2, <2>2 DEF Answer
<1>3. QED
  BY <1>1, <1>2

LEMMA TokensAtFirst == TokensInit => TokensInv
<1> SUFFICES ASSUME TokensInit PROVE TokensInv
  OBVIOUS
<1>1. Quiet \in Request
  BY TokensAssumption DEF Quiet, Request
<1>2. TokensTypeOK
  <2>1. 0 \in 0..MaxTokens /\ 0 \in 0..0 /\ 0 \in 0..MaxCauses
    BY TokensAssumption
  <2>2. QED
    BY <1>1, <2>1 DEF TokensInit, TokensTypeOK
<1>3. Forced = {} /\ Stale = 1
  BY DEF TokensInit, Forced, Quiet, Stale, IsAccessValid
<1>4. QED
  BY <1>2, <1>3, FS_EmptySet DEF TokensInit, TokensInv, ExchangesAreOwed

\* A thread goes on, and nothing is exchanged or comes to have a cause.
LEMMA UnforcedKeeps ==
    ASSUME TokensInv, NEW t \in Threads, NEW fields \in Request, GoOn(t, fields),
           fields.forced => request[t].forced, login_lock' \in Threads \cup {Nobody},
           UNCHANGED <<provider, issued, accepted, cached, fresh, causes>>
    PROVE  TokensInv'
<1>1. /\ request' \in [Threads -> Request]
      /\ Cardinality(Forced) \in Nat /\ Cardinality(Forced') \in Nat
  BY GoingOn DEF TokensInv
<1>2. Cardinality(Forced') <= Cardinality(Forced)
  <2>1. CASE fields.forced
    <3>1. Forced' = Forced
      BY <2>1 DEF TokensInv, TokensTypeOK, GoOn, Forced
    <3>2. QED
      BY <1>1, <3>1
  <2>2. CASE ~fields.forced
    BY <1>1, <2>2, GoingOn DEF TokensInv
  <2>3. QED
    BY <2>1, <2>2
<1>3. TokensTypeOK'
  BY <1>1 DEF TokensInv, TokensTypeOK
<1>4. Stale' = Stale /\ Stale \in {0, 1}
  BY DEF Stale, IsAccessValid
<1>5. issued \in Nat /\ causes \in Nat
  BY TokensAssumption DEF TokensInv, TokensTypeOK
<1>6. ExchangesAreOwed'
  BY <1>1, <1>2, <1>4, <1>5 DEF TokensInv, ExchangesAreOwed
<1>7. QED
  BY <1>3, <1>6 DEF TokensInv

LEMMA TokensStay == TokensInv /\ [TokensNext]_tokenVars => TokensInv'
<1> SUFFICES ASSUME TokensInv, [TokensNext]_tokenVars PROVE TokensInv'
  OBVIOUS
<1>1. /\ TokensTypeOK /\ issued \in Nat /\ issued <= MaxTokens /\ causes \in Nat
      /\ cached \in 0..MaxTokens /\ Stale \in {0, 1} /\ Stale' \in {0, 1}
      /\ Quiet \in Request /\ ~Quiet.forced /\ Cardinality(Forced) \in Nat
  BY TokensAssumption, ForcedIsFinite DEF TokensInv, TokensTypeOK, Stale, Quiet, Request
<1>2. ASSUME NEW t \in Threads, Ask(t)
      PROVE  TokensInv'
  <2>1. LET fields == [Quiet EXCEPT !.at = Entry] IN fields \in Request /\ ~fields.forced
    BY <1>1 DEF Quiet, Request, Entry
  <2>2. QED
    BY <1>1, <1>2, <2>1, UnforcedKeeps DEF Ask, TokensTypeOK
<1>3. ASSUME NEW t \in Threads, Look(t)
      PROVE  TokensInv'
  <2>1. request[t] \in Request
    BY <1>1 DEF TokensTypeOK
  <2>2. LET fields == [request[t] EXCEPT !.at = "wait"]
        IN  fields \in Request /\ (fields.forced => request[t].forced)
    BY <2>1 DEF Request
  <2>3. \E fields \in Request : GoOn(t, fields) /\ (fields.forced => request[t].forced)
    BY <1>1, <1>3, <2>2, AnswerFits DEF Look
  <2>4. QED
    BY <1>1, <1>3, <2>3, UnforcedKeeps DEF Look, TokensTypeOK
<1>4. ASSUME NEW t \in Threads, Acquire(t)
      PROVE  TokensInv'
  <2>1. request[t] \in Request
    BY <1>1 DEF TokensTypeOK
  <2>2. LET fields == [request[t] EXCEPT !.at = "locked"]
        IN  fields \in Request /\ (fields.forced => request[t].forced)
    BY <2>1 DEF Request
  <2>3. QED
    BY <1>1, <1>4, <2>2, UnforcedKeeps DEF Acquire
<1>5. ASSUME NEW t \in Threads, ReuseToken(t) \/ ExchangeFails(t) \/ Answered(t) \/ Disturbed(t)
      PROVE  TokensInv'
  <2>1. \E fields \in Request : GoOn(t, fields) /\ ~fields.forced
    BY <1>1, <1>5, AnswerFits, AgainFits DEF ReuseToken, ExchangeFails, Answered, Disturbed
  <2>2. QED
    BY <1>1, <1>5, <2>1, UnforcedKeeps
    DEF ReuseToken, ExchangeFails, Answered, Disturbed, TokensTypeOK
<1>6. ASSUME NEW t \in Threads, Exchange(t)
      PROVE  TokensInv'
  <2>1. /\ issued' = issued + 1 /\ issued' \in 0..MaxTokens /\ cached' = issued'
        /\ fresh' = TRUE /\ accepted' = TRUE /\ login_lock' = Nobody
        /\ UNCHANGED <<provider, causes>> /\ Answer(t, issued')
    BY <1>1, <1>6, TokensAssumption DEF Exchange
  <2>2. PICK fields \in Request : GoOn(t, fields) /\ ~fields.forced
    BY <1>1, <2>1, AnswerFits
  <2>3. /\ request' \in [Threads -> Request] /\ Cardinality(Forced') \in Nat
        /\ Cardinality(Forced') <= Cardinality(Forced)
        /\ request[t].forced => Cardinality(Forced') = Cardinality(Forced) - 1
    BY <1>1, <2>2, GoingOn
  <2>4. Stale' = 0
    BY <1>1, <2>1 DEF Stale, IsAccessValid
  <2>5. request[t].forced \/ Stale = 1
    BY <1>6 DEF Exchange, Reuses, Stale
  <2>6. ExchangesAreOwed'
    BY <1>1, <2>1, <2>3, <2>4, <2>5 DEF TokensInv, ExchangesAreOwed
  <2>7. TokensTypeOK'
    BY <1>1, <2>1, <2>3 DEF TokensTypeOK
  <2>8. QED
    BY <2>6, <2>7 DEF TokensInv
<1>7. ASSUME NEW t \in Threads, Refused_tranzact(t) \/ Test(t)
      PROVE  TokensInv'
  <2>1. /\ causes' = causes + 1 /\ causes' \in 0..MaxCauses
        /\ UNCHANGED <<provider, issued, accepted, cached, fresh, login_lock>>
    BY <1>1, <1>7, TokensAssumption DEF Refused_tranzact, Test, Cause
  <2>2. \E fields \in Request : GoOn(t, fields)
    <3>1. /\ request[t] \in Request /\ Entry \in {"look", "wait"}
          /\ max_retries[provider] \in Nat
      BY <1>1, TokensAssumption DEF TokensTypeOK, Entry
    <3>2. [request[t] EXCEPT !.at = Entry, !.forced = TRUE] \in Request
      BY <3>1 DEF Request
    <3>3. [Quiet EXCEPT !.at = Entry, !.forced = TRUE, !.attempt = max_retries[provider]]
             \in Request
      BY <1>1, <3>1 DEF Request
    <3>4. QED
      BY <1>7, <3>2, <3>3 DEF Refused_tranzact, Test
  <2>3. /\ request' \in [Threads -> Request] /\ Cardinality(Forced') \in Nat
        /\ Cardinality(Forced') <= Cardinality(Forced) + 1
    BY <1>1, <2>2, GoingOn
  <2>4. Stale' = Stale
    BY <2>1 DEF Stale, IsAccessValid
  <2>5. ExchangesAreOwed' /\ TokensTypeOK'
    BY <1>1, <2>1, <2>3, <2>4 DEF TokensInv, ExchangesAreOwed, TokensTypeOK
  <2>6. QED
    BY <2>5 DEF TokensInv
<1>8. ASSUME NEW t \in Threads, Refused_zoho(t)
      PROVE  TokensInv'
  <2>1. /\ causes' = causes + 1 /\ causes' \in 0..MaxCauses /\ fresh' = FALSE
        /\ UNCHANGED <<provider, issued, accepted, cached, login_lock>>
    BY <1>1, <1>8, TokensAssumption DEF Refused_zoho, Cause
  <2>2. PICK fields \in Request : GoOn(t, fields) /\ ~fields.forced
    BY <1>1, <1>8, AgainFits DEF Refused_zoho
  <2>3. /\ request' \in [Threads -> Request] /\ Cardinality(Forced') \in Nat
        /\ Cardinality(Forced') <= Cardinality(Forced)
    BY <1>1, <2>2, GoingOn
  <2>4. ExchangesAreOwed'
    BY <1>1, <2>1, <2>3 DEF TokensInv, ExchangesAreOwed
  <2>5. TokensTypeOK'
    BY <1>1, <2>1, <2>3 DEF TokensTypeOK
  <2>6. QED
    BY <2>4, <2>5 DEF TokensInv
<1>9. CASE NearExpiry
  <2>1. /\ causes' = causes + 1 /\ causes' \in 0..MaxCauses /\ fresh' = FALSE
        /\ UNCHANGED <<provider, issued, accepted, cached, login_lock, request>>
    BY <1>1, <1>9, TokensAssumption DEF NearExpiry, Cause
  <2>2. Forced' = Forced
    BY <2>1 DEF Forced
  <2>3. ExchangesAreOwed'
    BY <1>1, <2>1, <2>2 DEF TokensInv, ExchangesAreOwed
  <2>4. TokensTypeOK'
    BY <1>1, <2>1 DEF TokensTypeOK
  <2>5. QED
    BY <2>3, <2>4 DEF TokensInv
<1>10. CASE Revoke \/ UNCHANGED tokenVars
  <2>1. /\ UNCHANGED <<provider, issued, cached, fresh, login_lock, request, causes>>
        /\ accepted' \in BOOLEAN
    BY <1>1, <1>10 DEF Revoke, tokenVars, TokensTypeOK
  <2>2. Forced' = Forced /\ Stale' = Stale
    BY <2>1 DEF Forced, Stale, IsAccessValid
  <2>3. QED
    BY <2>1, <2>2 DEF TokensInv, ExchangesAreOwed, TokensTypeOK
<1>11. QED
  BY <1>2, <1>3, <1>4, <1>5, <1>6, <1>7, <1>8, <1>9, <1>10 DEF TokensNext, Proceed

\* However many threads find the cache stale at once, and whatever fails in
\* between, tokens are exchanged no more often than there was a cause to.
THEOREM ExchangesHaveCauses == TokensSpec => []OneExchangeForAll
<1>1. TokensInv => OneExchangeForAll
  <2>1. SUFFICES ASSUME TokensInv PROVE issued <= 1 + causes
    BY DEF OneExchangeForAll
  <2>2. Stale \in {0, 1} /\ issued \in Nat /\ causes \in Nat
    BY <2>1, TokensAssumption DEF Stale, TokensInv, TokensTypeOK
  <2>3. QED
    BY <2>1, <2>2, ForcedIsFinite DEF TokensInv, ExchangesAreOwed
<1>2. QED
  BY <1>1, TokensAtFirst, TokensStay, PTL DEF TokensSpec

-----------------------------------------------------------------------------
(* Experiments: who has which row in hand, and what the others look like.  *)

Handed(s) == strategist[s].at \in {"stamp", "discard"}

\* The index holds; a row still to be named is there to stay; one that is
\* listed is there, and in nobody's hand but a person's.
RowsAreSound ==
    /\ Admits(experiments)
    /\ \A i \in naming : i \in Rows /\ experiments[i].about = NoKey
    /\ \A i \in listed : i \in Rows /\ (i \in InHand => i \in seized)

\* What a strategist has in hand is its own, has no key yet, and is a proposal
\* unless a person has taken it up.
HandsAreSound ==
    /\ \A s \in Strategists :
          /\ strategist[s].at # "idle" => strategist[s].key \in Keys
          /\ ~Handed(s) => strategist[s].id = 0
          /\ Handed(s) =>
                LET i == strategist[s].id IN
                /\ i \in Rows
                /\ experiments[i].about = strategist[s].key /\ experiments[i].key = NoKey
                /\ experiments[i].status = "proposed" \/ i \in seized
    /\ \A s, t \in Strategists :
          Handed(s) /\ Handed(t) /\ strategist[s].id = strategist[t].id => s = t

\* Any other suggestion carries its key.
OthersAreStamped == expFaults = 0 =>
    \A i \in Rows \ (InHand \cup seized) :
        experiments[i].about # NoKey => experiments[i].key = experiments[i].about

ExpInv == ExperimentsTypeOK /\ RowsAreSound /\ HandsAreSound /\ OthersAreStamped

LEMMA ExperimentsAtFirst == ExperimentsInit => ExpInv
<1>1. SUFFICES ASSUME ExperimentsInit PROVE ExpInv
  OBVIOUS
<1>2. ExperimentsTypeOK
  BY <1>1, ExperimentsAssumption
  DEF ExperimentsInit, ExperimentsTypeOK, Resting, Filing
<1>3. \A s \in Strategists : ~Handed(s) /\ strategist[s] = Resting
  BY <1>1 DEF ExperimentsInit, Resting, Handed
<1>4. Rows = {} /\ RowsAreSound
  BY <1>1 DEF ExperimentsInit, Rows, RowsAreSound, Admits
<1>5. HandsAreSound
  BY <1>3 DEF HandsAreSound, Resting
<1>6. QED
  BY <1>2, <1>4, <1>5 DEF ExpInv, OthersAreStamped

\* A row that is no more open than it was disturbs no index.
LEMMA NoWiderIsAdmitted ==
    ASSUME ExpInv, NEW i \in Rows, NEW row \in Row, row.key = experiments[i].key,
           row.status \in Open => experiments[i].status \in Open
    PROVE  Admits([experiments EXCEPT ![i] = row])
<1>1. i \in Experiment_ids /\ experiments[i] # NoRow
  BY DEF Rows
<1>2. \A j \in Experiment_ids : [experiments EXCEPT ![i] = row][j] =
        IF j = i THEN row ELSE experiments[j]
  BY <1>1 DEF ExpInv, ExperimentsTypeOK
<1>3. Admits(experiments)
  BY DEF ExpInv, RowsAreSound
<1>4. QED
  BY <1>1, <1>2, <1>3 DEF Admits

\* One row rewritten, with what it is about and its key left as they were.
LEMMA OneRowRewritten ==
    ASSUME ExpInv, NEW i \in Rows, NEW row \in Row,
           experiments' = [experiments EXCEPT ![i] = row], Admits(experiments'),
           row.key = experiments[i].key, row.about = experiments[i].about,
           \A s \in Strategists : Handed(s) /\ strategist[s].id = i =>
                (row.status = "proposed" \/ i \in seized'),
           seized \subseteq seized', seized' \subseteq Experiment_ids,
           naming' \subseteq naming, listed' \subseteq listed,
           closing_pc' \in {"idle", "start", "due", "close"},
           UNCHANGED <<strategist, expFaults>>
    PROVE  ExpInv'
<1>1. i \in Experiment_ids /\ row # NoRow
  BY ExperimentsAssumption DEF Rows
<1>2. /\ \A j \in Experiment_ids : experiments'[j] = IF j = i THEN row ELSE experiments[j]
      /\ Rows' = Rows /\ InHand' = InHand
      /\ \A s \in Strategists : Handed(s)' <=> Handed(s)
  BY <1>1 DEF ExpInv, ExperimentsTypeOK, Rows, InHand, Handed
<1>3. ExperimentsTypeOK'
  BY <1>1 DEF ExpInv, ExperimentsTypeOK
<1>4. RowsAreSound'
  BY <1>2 DEF ExpInv, RowsAreSound
<1>5. HandsAreSound'
  BY <1>2 DEF ExpInv, HandsAreSound, Rows
<1>6. OthersAreStamped'
  BY <1>2 DEF ExpInv, OthersAreStamped, Rows
<1>7. QED
  BY <1>3, <1>4, <1>5, <1>6 DEF ExpInv

\* A row that a strategist has in hand says what it is about.
LEMMA InHandIsAbout ==
    ASSUME ExpInv, NEW s \in Strategists, Handed(s)
    PROVE  /\ strategist[s].id \in Rows /\ strategist[s].key \in Keys
           /\ experiments[strategist[s].id].about = strategist[s].key
           /\ experiments[strategist[s].id].about # NoKey
           /\ experiments[strategist[s].id].key = NoKey
BY ExperimentsAssumption DEF ExpInv, HandsAreSound, Handed

\* A row in hand is in the hand of a strategist that has one.
LEMMA InHandIsHanded ==
    ASSUME ExpInv, NEW i \in Rows, i \in InHand
    PROVE  \E s \in Strategists : Handed(s) /\ strategist[s].id = i
BY ExperimentsAssumption DEF ExpInv, HandsAreSound, InHand, Rows

LEMMA PeopleKeepExpInv ==
    ASSUME ExpInv, NEW i \in Experiment_ids,
           \/ CreateByHand(i) \/ NameMetric(i)
           \/ \E s \in STATUSES : PatchStatus(i, s)
    PROVE  ExpInv'
<1>1. CASE CreateByHand(i)
  <2> DEFINE row == [status |-> "accepted", measured |-> FALSE, key |-> NoKey, about |-> NoKey]
  <2>1. /\ experiments' = [experiments EXCEPT ![i] = row]
        /\ naming' \in {naming, naming \cup {i}}
    BY <1>1 DEF CreateByHand, Blank
  <2>2. row \in Row /\ row # NoRow /\ row.key = NoKey /\ row.about = NoKey /\ row.status = "accepted"
    <3>1. row \in Row
      BY DEF Row, STATUSES
    <3>2. row # NoRow
      BY <3>1, ExperimentsAssumption
    <3>3. QED
      BY <3>1, <3>2
  <2> HIDE DEF row
  <2>3. i \notin Rows /\ UNCHANGED <<strategist, closing_pc, listed, seized, expFaults>>
    BY <1>1 DEF CreateByHand, Fresh
  <2>4. /\ \A j \in Experiment_ids : experiments'[j] = IF j = i THEN row ELSE experiments[j]
        /\ Rows' = Rows \cup {i} /\ InHand' = InHand
        /\ \A s \in Strategists : Handed(s)' <=> Handed(s)
    BY <2>1, <2>2, <2>3 DEF ExpInv, ExperimentsTypeOK, Rows, InHand, Handed, row
  <2>5. ExperimentsTypeOK'
    BY <2>1, <2>2, <2>3 DEF ExpInv, ExperimentsTypeOK, row
  <2>6. Admits(experiments')
    BY <2>2, <2>4 DEF ExpInv, RowsAreSound, Admits
  <2>7. RowsAreSound'
    BY <2>1, <2>2, <2>3, <2>4, <2>6 DEF ExpInv, RowsAreSound, Rows
  <2>8. HandsAreSound'
    BY <2>3, <2>4 DEF ExpInv, HandsAreSound, Rows
  <2>9. OthersAreStamped'
    BY <2>2, <2>3, <2>4 DEF ExpInv, OthersAreStamped, Rows
  <2>10. QED
    BY <2>5, <2>7, <2>8, <2>9 DEF ExpInv
<1>2. CASE NameMetric(i)
  <2> DEFINE row == [experiments[i] EXCEPT !.measured = TRUE]
  <2>1. i \in Rows /\ i \in naming /\ experiments[i] \in Row
    BY <1>2 DEF NameMetric, ExpInv, RowsAreSound, Rows, ExperimentsTypeOK
  <2>2. /\ row \in Row /\ row.key = experiments[i].key /\ row.about = experiments[i].about
        /\ row.status = experiments[i].status
    BY <2>1 DEF Row
  <2> HIDE DEF row
  <2>3. /\ experiments' = [experiments EXCEPT ![i] = row] /\ naming' \subseteq naming
        /\ UNCHANGED <<strategist, closing_pc, listed, seized, expFaults>>
    BY <1>2 DEF NameMetric, row
  <2>4. \A s \in Strategists : ~(Handed(s) /\ strategist[s].id = i)
    BY <2>1, InHandIsAbout DEF ExpInv, RowsAreSound
  <2>5. QED
    BY <2>1, <2>2, <2>3, <2>4, NoWiderIsAdmitted, OneRowRewritten DEF ExpInv, ExperimentsTypeOK
<1>3. ASSUME NEW now \in STATUSES, PatchStatus(i, now) PROVE ExpInv'
  <2> DEFINE row == [experiments[i] EXCEPT !.status = now]
  <2>1. i \in Rows /\ experiments[i] \in Row
    BY <1>3 DEF PatchStatus, ExpInv, Rows, ExperimentsTypeOK
  <2>2. row \in Row /\ row.key = experiments[i].key /\ row.about = experiments[i].about
    BY <2>1 DEF Row
  <2>3. /\ experiments' = [experiments EXCEPT ![i] = row] /\ Admits(experiments')
        /\ seized' = IF experiments[i].about # NoKey /\ experiments[i].key = NoKey
                     THEN seized \cup {i} ELSE seized
        /\ UNCHANGED <<naming, strategist, closing_pc, listed, expFaults>>
    BY <1>3 DEF PatchStatus
  <2> HIDE DEF row
  <2>4. \A s \in Strategists : Handed(s) /\ strategist[s].id = i => i \in seized'
    BY <2>3, InHandIsAbout
  <2>5. seized \subseteq seized' /\ seized' \subseteq Experiment_ids
    BY <2>3 DEF ExpInv, ExperimentsTypeOK
  <2>6. QED
    BY <2>1, <2>2, <2>3, <2>4, <2>5, OneRowRewritten DEF ExpInv, ExperimentsTypeOK
<1>4. QED
  BY <1>1, <1>2, <1>3

\* Nothing happens to the rows, and whoever moves has none in hand.
LEMMA ConsiderKeepsExpInv ==
    ASSUME ExpInv, NEW s \in Strategists, NEW k \in Keys, Consider(s, k)
    PROVE  ExpInv'
<1>1. /\ strategist[s].at = "idle"
      /\ strategist' = [strategist EXCEPT ![s] = [at |-> "create", key |-> k, id |-> 0]]
      /\ UNCHANGED <<experiments, naming, closing_pc, listed, seized, expFaults>>
  BY DEF Consider, Filing_on
<1>2. /\ \A t \in Strategists : Handed(t)' <=> Handed(t)
      /\ ~Handed(s)
  BY <1>1 DEF ExpInv, ExperimentsTypeOK, Handed
<1>3. strategist[s].id = 0
  BY <1>2 DEF ExpInv, HandsAreSound
<1>4. InHand' = InHand /\ Rows' = Rows
  BY <1>1, <1>3 DEF ExpInv, ExperimentsTypeOK, InHand, Rows
<1>5. ExperimentsTypeOK'
  BY <1>1 DEF ExpInv, ExperimentsTypeOK, Filing
<1>6. RowsAreSound'
  BY <1>1, <1>4 DEF ExpInv, RowsAreSound, Admits
<1>7. HandsAreSound'
  BY <1>1, <1>2, <1>4 DEF ExpInv, ExperimentsTypeOK, HandsAreSound
<1>8. OthersAreStamped'
  BY <1>1, <1>4 DEF ExpInv, OthersAreStamped
<1>9. QED
  BY <1>5, <1>6, <1>7, <1>8 DEF ExpInv

LEMMA CreateSuggestionKeepsExpInv ==
    ASSUME ExpInv, NEW s \in Strategists, CreateSuggestion(s)
    PROVE  ExpInv'
<1> DEFINE k == strategist[s].key
           row == [Blank("proposed") EXCEPT !.about = k]
<1>1. PICK i \in Experiment_ids :
        /\ i \notin Rows /\ strategist[s].at = "create"
        /\ experiments' = [experiments EXCEPT ![i] = row]
        /\ strategist' = [strategist EXCEPT ![s] = [at |-> "stamp", key |-> k, id |-> i]]
        /\ UNCHANGED <<naming, closing_pc, listed, seized, expFaults>>
  BY DEF CreateSuggestion, Filing_on, Fresh
<1>2. k \in Keys
  BY <1>1 DEF ExpInv, HandsAreSound
<1>3. row \in Row /\ row # NoRow /\ row.key = NoKey /\ row.about = k /\ row.status = "proposed"
  BY <1>2, ExperimentsAssumption DEF Blank, Row, STATUSES
<1> HIDE DEF row
<1>4. /\ \A j \in Experiment_ids : experiments'[j] = IF j = i THEN row ELSE experiments[j]
      /\ Rows' = Rows \cup {i}
  BY <1>1, <1>3 DEF ExpInv, ExperimentsTypeOK, Rows
<1>5. ~Handed(s) /\ strategist[s].id = 0
  BY <1>1 DEF ExpInv, HandsAreSound, Handed
<1>6. \A t \in Strategists : strategist'[t] = IF t = s THEN [at |-> "stamp", key |-> k, id |-> i]
                                              ELSE strategist[t]
  BY <1>1 DEF ExpInv, ExperimentsTypeOK
<1>7. /\ Handed(s)' /\ \A t \in Strategists \ {s} : Handed(t)' <=> Handed(t)
      /\ i \in InHand' /\ InHand \ {0} \subseteq InHand' /\ InHand' \subseteq InHand \cup {i}
  BY <1>5, <1>6 DEF InHand, Handed
<1>8. ExperimentsTypeOK'
  BY <1>1, <1>2, <1>3 DEF ExpInv, ExperimentsTypeOK, Filing
<1>9. RowsAreSound'
  <2>1. Admits(experiments')
    BY <1>3, <1>4 DEF ExpInv, RowsAreSound, Admits
  <2>2. QED
    BY <1>1, <1>4, <1>7, <2>1 DEF ExpInv, RowsAreSound, Rows
<1>10. HandsAreSound'
  BY <1>1, <1>2, <1>3, <1>4, <1>6, <1>7 DEF ExpInv, HandsAreSound, Rows
<1>11. OthersAreStamped'
  <2>1. 0 \notin Rows
    BY ExperimentsAssumption DEF Rows
  <2>2. QED
    BY <1>1, <1>4, <1>7, <2>1 DEF ExpInv, OthersAreStamped, Rows
<1>12. QED
  BY <1>8, <1>9, <1>10, <1>11 DEF ExpInv

LEMMA StampKeepsExpInv ==
    ASSUME ExpInv, NEW s \in Strategists, Stamp(s)
    PROVE  ExpInv'
<1> DEFINE f == strategist[s]
           i == f.id
           row == [experiments[i] EXCEPT !.key = f.key, !.measured = TRUE]
           stamped == [experiments EXCEPT ![i].key = f.key, ![i].measured = TRUE]
<1>1. f.at = "stamp" /\ Handed(s)
  BY DEF Stamp, Handed
<1>2. /\ i \in Rows /\ f.key \in Keys /\ f \in Filing /\ experiments[i] \in Row
      /\ experiments[i].about = f.key
  BY <1>1, InHandIsAbout DEF ExpInv, ExperimentsTypeOK, Rows
<1>3. /\ row \in Row /\ row.key = f.key /\ row.about = f.key
      /\ row.status = experiments[i].status
  BY <1>2 DEF Row
<1>4. stamped = [experiments EXCEPT ![i] = row]
  BY <1>2 DEF ExpInv, ExperimentsTypeOK
<1>5. UNCHANGED <<naming, closing_pc, listed, seized, expFaults>>
  BY DEF Stamp
<1> HIDE DEF row
<1>6. CASE Admits(stamped)
  <2>1. experiments' = [experiments EXCEPT ![i] = row] /\ Admits(experiments')
    BY <1>4, <1>6 DEF Stamp
  <2>2. strategist' = [strategist EXCEPT ![s] = Resting]
    BY <1>6 DEF Stamp, Filing_on
  <2> HIDE DEF stamped
  <2>3. row # NoRow /\ i \in Experiment_ids
    BY <1>2, <1>3, ExperimentsAssumption DEF Rows
  <2>4. /\ \A j \in Experiment_ids : experiments'[j] = IF j = i THEN row ELSE experiments[j]
        /\ Rows' = Rows
    BY <1>2, <2>1, <2>3 DEF ExpInv, ExperimentsTypeOK, Rows
  <2>5. \A t \in Strategists : strategist'[t] = IF t = s THEN Resting ELSE strategist[t]
    BY <2>2 DEF ExpInv, ExperimentsTypeOK
  <2>6. /\ ~Handed(s)' /\ \A t \in Strategists \ {s} : Handed(t)' <=> Handed(t)
        /\ InHand \ {i} \subseteq InHand' /\ InHand' \subseteq InHand \cup {0}
    BY <2>5 DEF InHand, Handed, Resting
  <2>7. ExperimentsTypeOK'
    BY <1>3, <1>5, <2>1, <2>2 DEF ExpInv, ExperimentsTypeOK, Filing, Resting
  <2>8. RowsAreSound'
    <3>1. 0 \notin Rows
      BY ExperimentsAssumption DEF Rows
    <3>2. QED
      BY <1>2, <1>3, <1>5, <2>1, <2>4, <2>6, <3>1 DEF ExpInv, RowsAreSound
  <2>9. HandsAreSound'
    <3>1. \A t \in Strategists \ {s} : Handed(t) => strategist[t].id # i
      BY <1>1 DEF ExpInv, HandsAreSound
    <3>2. QED
      BY <1>5, <2>4, <2>5, <2>6, <3>1 DEF ExpInv, HandsAreSound, Rows, Resting
  <2>10. OthersAreStamped'
    BY <1>3, <1>5, <2>4, <2>6 DEF ExpInv, OthersAreStamped, Rows
  <2>11. QED
    BY <2>7, <2>8, <2>9, <2>10 DEF ExpInv
<1>7. CASE ~Admits(stamped)
  <2>1. experiments' = experiments
    BY <1>7 DEF Stamp
  <2>2. strategist' = [strategist EXCEPT ![s] = [f EXCEPT !.at = "discard"]]
    BY <1>7 DEF Stamp, Filing_on
  <2> HIDE DEF stamped
  <2>3. \A t \in Strategists : strategist'[t] = IF t = s THEN [f EXCEPT !.at = "discard"]
                                                ELSE strategist[t]
    BY <2>2 DEF ExpInv, ExperimentsTypeOK
  <2>4. [f EXCEPT !.at = "discard"] \in Filing
    BY <1>2 DEF Filing
  <2>5. /\ \A t \in Strategists : Handed(t)' <=> Handed(t)
        /\ \A t \in Strategists :
              strategist'[t].id = strategist[t].id /\ strategist'[t].key = strategist[t].key
    BY <1>1, <1>2, <2>3 DEF Handed, Filing
  <2>6. Rows' = Rows /\ InHand' = InHand
    BY <2>1, <2>5 DEF Rows, InHand
  <2>7. ExperimentsTypeOK'
    BY <1>5, <2>1, <2>2, <2>4 DEF ExpInv, ExperimentsTypeOK
  <2>8. HandsAreSound'
    BY <1>1, <1>2, <1>5, <2>1, <2>3, <2>5, <2>6 DEF ExpInv, HandsAreSound
  <2>9. RowsAreSound' /\ OthersAreStamped'
    BY <1>5, <2>1, <2>6 DEF ExpInv, RowsAreSound, OthersAreStamped, Admits
  <2>10. QED
    BY <2>7, <2>8, <2>9 DEF ExpInv
<1>8. QED
  BY <1>6, <1>7

LEMMA DiscardKeepsExpInv ==
    ASSUME ExpInv, NEW s \in Strategists, Discard(s)
    PROVE  ExpInv'
<1> DEFINE i == strategist[s].id
<1>1. strategist[s].at = "discard" /\ Handed(s)
  BY DEF Discard, Handed
<1>2. i \in Rows /\ experiments[i].about # NoKey
  BY <1>1, InHandIsAbout
<1>3. strategist' = [strategist EXCEPT ![s] = Resting]
  BY DEF Discard, Filing_on
<1>4. UNCHANGED <<naming, closing_pc, seized, expFaults>>
  BY DEF Discard
<1>5. \A t \in Strategists : strategist'[t] = IF t = s THEN Resting ELSE strategist[t]
  BY <1>3 DEF ExpInv, ExperimentsTypeOK
<1>6. /\ ~Handed(s)' /\ \A t \in Strategists \ {s} : Handed(t)' <=> Handed(t)
      /\ InHand \ {i} \subseteq InHand' /\ InHand' \subseteq InHand \cup {0}
  BY <1>5 DEF InHand, Handed, Resting
<1>7. \A t \in Strategists \ {s} : Handed(t) => strategist[t].id # i
  BY <1>1 DEF ExpInv, HandsAreSound
<1>8. CASE i \in In("proposed")
  <2>1. experiments' = [experiments EXCEPT ![i] = NoRow] /\ listed' = listed \ {i}
    BY <1>8 DEF Discard
  <2>2. experiments[i].status = "proposed" /\ i \in Experiment_ids
    BY <1>2, <1>8 DEF In, Rows
  <2>3. /\ \A j \in Experiment_ids : experiments'[j] = IF j = i THEN NoRow ELSE experiments[j]
        /\ Rows' = Rows \ {i}
    BY <2>1, <2>2 DEF ExpInv, ExperimentsTypeOK, Rows
  <2>4. i \notin naming
    BY <1>2, <2>2 DEF ExpInv, RowsAreSound
  <2>5. ExperimentsTypeOK'
    BY <1>3, <1>4, <2>1, <2>2 DEF ExpInv, ExperimentsTypeOK, Filing, Resting
  <2>6. RowsAreSound'
    <3>1. Admits(experiments')
      BY <2>3 DEF ExpInv, RowsAreSound, Admits
    <3>2. QED
      BY <1>4, <1>6, <2>1, <2>3, <2>4, <3>1, ExperimentsAssumption
      DEF ExpInv, RowsAreSound, Rows
  <2>7. HandsAreSound'
    BY <1>4, <1>5, <1>6, <1>7, <2>3 DEF ExpInv, HandsAreSound, Rows, Resting
  <2>8. OthersAreStamped'
    BY <1>4, <1>6, <2>3 DEF ExpInv, OthersAreStamped, Rows
  <2>9. QED
    BY <2>5, <2>6, <2>7, <2>8 DEF ExpInv
<1>9. CASE i \notin In("proposed")
  <2>1. experiments' = experiments /\ listed' = listed /\ Rows' = Rows
    BY <1>9 DEF Discard, Rows
  <2>2. i \in seized
    BY <1>1, <1>2, <1>9 DEF ExpInv, HandsAreSound, In
  <2>3. ExperimentsTypeOK'
    BY <1>3, <1>4, <2>1 DEF ExpInv, ExperimentsTypeOK, Filing, Resting
  <2>4. RowsAreSound'
    BY <1>4, <1>6, <2>1, ExperimentsAssumption DEF ExpInv, RowsAreSound, Admits, Rows
  <2>5. HandsAreSound'
    BY <1>4, <1>5, <1>6, <2>1 DEF ExpInv, HandsAreSound, Resting
  <2>6. OthersAreStamped'
    BY <1>4, <1>6, <2>1, <2>2 DEF ExpInv, OthersAreStamped
  <2>7. QED
    BY <2>3, <2>4, <2>5, <2>6 DEF ExpInv
<1>10. QED
  BY <1>8, <1>9

\* The watcher that starts what was accepted and closes what is due.
LEMMA ClosingKeepsExpInv ==
    ASSUME ExpInv, Close_and_start
    PROVE  ExpInv'
<1>1. CASE ListAccepted \/ ListDue \/ EndClosing
  <2>1. /\ UNCHANGED <<experiments, naming, strategist, seized, expFaults>>
        /\ closing_pc' \in {"idle", "start", "due", "close"}
        /\ Rows' = Rows /\ InHand' = InHand
    BY <1>1 DEF ListAccepted, ListDue, EndClosing, Rows, InHand
  <2>2. \A i \in listed' : i \in Rows /\ (i \in InHand => i \in seized)
    <3>1. \A i \in listed' : i \in Rows /\ (i \in listed \/ experiments[i].status # "proposed")
      BY <1>1 DEF ListAccepted, ListDue, EndClosing, In, MayBeDue, ExpInv, RowsAreSound
    <3>2. \A i \in Rows : i \in InHand => i \in seized \/ experiments[i].status = "proposed"
      BY InHandIsHanded DEF ExpInv, HandsAreSound
    <3>3. QED
      BY <3>1, <3>2 DEF ExpInv, RowsAreSound
  <2>3. ExperimentsTypeOK'
    BY <2>1, <2>2 DEF ExpInv, ExperimentsTypeOK, Rows
  <2>4. RowsAreSound'
    BY <2>1, <2>2 DEF ExpInv, RowsAreSound, Admits
  <2>5. HandsAreSound' /\ OthersAreStamped'
    BY <2>1 DEF ExpInv, HandsAreSound, OthersAreStamped, Handed
  <2>6. QED
    BY <2>3, <2>4, <2>5 DEF ExpInv
<1>2. ASSUME NEW i \in Experiment_ids, StartOne(i) PROVE ExpInv'
  <2> DEFINE started == [experiments EXCEPT ![i].status = "running"]
             row == [experiments[i] EXCEPT !.status = "running"]
  <2>1. /\ i \in listed /\ i \in Rows /\ experiments[i] \in Row
        /\ i \in InHand => i \in seized
        /\ UNCHANGED <<naming, strategist, seized, expFaults>>
    BY <1>2 DEF StartOne, ExpInv, RowsAreSound, Rows, ExperimentsTypeOK
  <2>2. /\ row \in Row /\ row.key = experiments[i].key /\ row.about = experiments[i].about
        /\ row.status = "running"
    BY <2>1 DEF Row, STATUSES
  <2>3. started = [experiments EXCEPT ![i] = row]
    BY <2>1 DEF ExpInv, ExperimentsTypeOK
  <2> HIDE DEF row
  <2>4. CASE Admits(started)
    <3>1. /\ experiments' = [experiments EXCEPT ![i] = row] /\ Admits(experiments')
          /\ listed' \subseteq listed /\ closing_pc' = closing_pc
      BY <1>2, <2>3, <2>4 DEF StartOne
    <3>2. \A s \in Strategists : Handed(s) /\ strategist[s].id = i => i \in seized'
      BY <2>1 DEF InHand
    <3> HIDE DEF started
    <3>3. QED
      BY <2>1, <2>2, <3>1, <3>2, OneRowRewritten DEF ExpInv, ExperimentsTypeOK
  <2>5. CASE ~Admits(started)
    <3>1. experiments' = experiments /\ listed' = {} /\ closing_pc' = "idle"
      BY <1>2, <2>5 DEF StartOne
    <3> HIDE DEF started
    <3>2. Rows' = Rows /\ InHand' = InHand
      BY <2>1, <3>1 DEF Rows, InHand
    <3>3. ExperimentsTypeOK' /\ RowsAreSound'
      BY <2>1, <3>1, <3>2 DEF ExpInv, ExperimentsTypeOK, RowsAreSound, Admits
    <3>4. HandsAreSound' /\ OthersAreStamped'
      BY <2>1, <3>1, <3>2 DEF ExpInv, HandsAreSound, OthersAreStamped, Handed
    <3>5. QED
      BY <3>3, <3>4 DEF ExpInv
  <2>6. QED
    BY <2>4, <2>5
<1>3. ASSUME NEW i \in Experiment_ids, CloseOne(i) PROVE ExpInv'
  <2> DEFINE row == [experiments[i] EXCEPT !.status = "closed"]
  <2>1. /\ i \in Rows /\ experiments[i] \in Row /\ (i \in InHand => i \in seized)
        /\ UNCHANGED <<naming, strategist, closing_pc, seized, expFaults>>
        /\ listed' \subseteq listed
    BY <1>3 DEF CloseOne, ExpInv, RowsAreSound, Rows, ExperimentsTypeOK
  <2>2. /\ row \in Row /\ row.key = experiments[i].key /\ row.about = experiments[i].about
        /\ row.status = "closed"
    BY <2>1 DEF Row, STATUSES
  <2> HIDE DEF row
  <2>3. experiments' = [experiments EXCEPT ![i] = row]
    BY <1>3 DEF CloseOne, row
  <2>4. \A s \in Strategists : Handed(s) /\ strategist[s].id = i => i \in seized'
    BY <2>1 DEF InHand
  <2>5. row.status \notin Open
    BY <2>2 DEF Open
  <2>6. QED
    BY <2>1, <2>2, <2>3, <2>4, <2>5, NoWiderIsAdmitted, OneRowRewritten
    DEF ExpInv, ExperimentsTypeOK
<1>4. QED
  BY <1>1, <1>2, <1>3 DEF Close_and_start

\* Whoever is cut off leaves its row as it is.
LEMMA CutsKeepExpInv ==
    ASSUME ExpInv, CutClosing \/ \E s \in Strategists : CutFiling(s)
    PROVE  ExpInv'
<1>1. expFaults' \in 0..MaxExpFaults /\ expFaults' # 0
  BY ExperimentsAssumption DEF CutClosing, CutFiling, ExpInv, ExperimentsTypeOK
<1>2. OthersAreStamped'
  BY <1>1 DEF OthersAreStamped
<1>3. CASE CutClosing
  <2>1. /\ UNCHANGED <<experiments, naming, strategist, seized>>
        /\ closing_pc' = "idle" /\ listed' = {} /\ Rows' = Rows
    BY <1>3 DEF CutClosing, Rows
  <2>2. ExperimentsTypeOK' /\ RowsAreSound'
    BY <1>1, <2>1 DEF ExpInv, ExperimentsTypeOK, RowsAreSound, Admits
  <2>3. HandsAreSound'
    BY <2>1 DEF ExpInv, HandsAreSound, Handed
  <2>4. QED
    BY <1>2, <2>2, <2>3 DEF ExpInv
<1>4. ASSUME NEW s \in Strategists, CutFiling(s) PROVE ExpInv'
  <2>1. /\ UNCHANGED <<experiments, naming, closing_pc, listed, seized>> /\ Rows' = Rows
        /\ strategist' = [strategist EXCEPT ![s] = Resting]
    BY <1>4 DEF CutFiling, Filing_on, Rows
  <2>2. \A t \in Strategists : strategist'[t] = IF t = s THEN Resting ELSE strategist[t]
    BY <2>1 DEF ExpInv, ExperimentsTypeOK
  <2>3. ExperimentsTypeOK' /\ RowsAreSound'
    <3>1. InHand' \subseteq InHand \cup {0} /\ 0 \notin Rows
      BY <2>2, ExperimentsAssumption DEF InHand, Resting, Rows
    <3>2. ExperimentsTypeOK'
      BY <1>1, <2>1 DEF ExpInv, ExperimentsTypeOK, Filing, Resting
    <3>3. RowsAreSound'
      BY <2>1, <3>1 DEF ExpInv, RowsAreSound, Admits
    <3>4. QED
      BY <3>2, <3>3
  <2>4. HandsAreSound'
    BY <2>1, <2>2 DEF ExpInv, HandsAreSound, Handed, Resting
  <2>5. QED
    BY <1>2, <2>3, <2>4 DEF ExpInv
<1>5. QED
  BY <1>3, <1>4

LEMMA ExpInvStays == ExpInv /\ [ExperimentsNext]_expVars => ExpInv'
<1>1. SUFFICES ASSUME ExpInv, [ExperimentsNext]_expVars PROVE ExpInv'
  OBVIOUS
<1>2. CASE UNCHANGED expVars
  <2>1. Rows' = Rows /\ InHand' = InHand
    BY <1>2 DEF expVars, Rows, InHand
  <2>2. ExperimentsTypeOK' /\ RowsAreSound'
    BY <1>1, <1>2, <2>1 DEF expVars, ExpInv, ExperimentsTypeOK, RowsAreSound, Admits
  <2>3. HandsAreSound' /\ OthersAreStamped'
    BY <1>1, <1>2, <2>1 DEF expVars, ExpInv, HandsAreSound, OthersAreStamped, Handed
  <2>4. QED
    BY <2>2, <2>3 DEF ExpInv
<1>3. QED
  BY <1>1, <1>2, ClosingKeepsExpInv, ConsiderKeepsExpInv, CreateSuggestionKeepsExpInv,
     StampKeepsExpInv, DiscardKeepsExpInv, CutsKeepExpInv, PeopleKeepExpInv
  DEF ExperimentsNext

\* strategy.py: nothing is suggested twice while an earlier version of it is
\* open.  Any number of processes may file at once: what has left their hands
\* carries its key, and the index allows one open row to a key.
THEOREM NothingIsSuggestedTwice == ExperimentsSpec => []SuggestedOnce
<1>1. ExpInv => SuggestedOnce
  <2>1. SUFFICES ASSUME ExpInv, expFaults = 0, NEW k \in Keys
                 PROVE  Cardinality({i \in Rows \ (InHand \cup seized) :
                            experiments[i].about = k /\ experiments[i].status \in Open}) <= 1
    BY DEF SuggestedOnce
  <2> DEFINE Twice == {i \in Rows \ (InHand \cup seized) :
                            experiments[i].about = k /\ experiments[i].status \in Open}
  <2>2. \A i \in Twice : /\ i \in Experiment_ids /\ experiments[i] # NoRow
                         /\ experiments[i].key = k /\ k # NoKey
                         /\ experiments[i].status \in Open
    BY <2>1, ExperimentsAssumption DEF ExpInv, OthersAreStamped, Rows
  <2>3. \A i, j \in Twice : i = j
    BY <2>1, <2>2 DEF ExpInv, RowsAreSound, Admits
  <2>4. QED
    BY <2>3, AllEqual
<1>2. QED
  BY <1>1, ExperimentsAtFirst, ExpInvStays, PTL DEF ExperimentsSpec

-----------------------------------------------------------------------------
(* CreditFlags: how far the flags agree with what the pass has read.       *)

GraveEnough(c, level) == Live(c) /\ (level = "hold" => HoldLive(c))

\* What a pass may clear was live when it began, and is not overridden unless a
\* person has acted since; what it clears deserves no flag.
OnlyTheClearableGo ==
    /\ \A c \in before : Overridden(c) => c \in stirred
    /\ passing = "idle" => stirred = FlagCustomers
    /\ passing = "clear" => todo_flags \subseteq Clearable

\* A customer nobody has acted on is still to be dealt with or as the pass found.
DealtWith == passing \in {"raise", "clear"} =>
    \A c \in FlagCustomers \ stirred :
        LET level == Assess(ledger[c]) IN
        \/ Overridden(c)
        \/ level = "none" /\ (Live(c) => c \in IF passing = "raise" THEN before ELSE todo_flags)
        \/ level # "none" /\ (GraveEnough(c, level) \/ (passing = "raise" /\ c \in todo_flags))

FlagsInv == FlagsTypeOK /\ OnlyTheClearableGo /\ DealtWith

LEMMA AssessSays ==
    ASSUME NEW p
    PROVE  /\ Assess(p) \in {"none", "watch", "hold"}
           /\ Assess(p) # "none" => p.owes
BY DEF Assess

\* The end of a transaction changes what a flag was told, and nothing else.
LEMMA ToldIsAsideOnly ==
    ASSUME FlagsTypeOK, NEW c \in FlagCustomers
    PROVE  /\ Told(c) \in Flag \cup {NoFlag}
           /\ Told(c) = NoFlag <=> ~Live(c)
           /\ Live(c) => /\ Told(c).level = flag[c].level
                         /\ Told(c).overridden = flag[c].overridden
                         /\ [Told(c) EXCEPT !.told = "none"] = [flag[c] EXCEPT !.told = "none"]
<1> DEFINE es == {e \in emitted : e.customer = c}
           level == (CHOOSE e \in es : TRUE).level
<1>1. flag[c] \in Flag \cup {NoFlag}
  BY DEF FlagsTypeOK
<1>2. CASE es = {} \/ ~Live(c)
  BY <1>1, <1>2, CreditFlagsAssumption DEF Told, Live
<1>3. CASE es # {} /\ Live(c)
  <2>1. level \in FlagLevels
    BY <1>3 DEF FlagsTypeOK, Event
  <2>2. Told(c) = [flag[c] EXCEPT !.told = level]
    BY <1>3 DEF Told
  <2> HIDE DEF level
  <2>3. flag[c] \in Flag
    BY <1>1, <1>3 DEF Live
  <2>4. /\ Told(c) \in Flag /\ Told(c).level = flag[c].level
        /\ Told(c).overridden = flag[c].overridden
        /\ [Told(c) EXCEPT !.told = "none"] = [flag[c] EXCEPT !.told = "none"]
    BY <2>1, <2>2, <2>3 DEF Flag
  <2>5. QED
    BY <1>3, <2>4, CreditFlagsAssumption
<1>4. QED
  BY <1>2, <1>3

LEMMA FlagsAtFirst == FlagsInit => FlagsInv
<1>1. SUFFICES ASSUME FlagsInit PROVE FlagsInv
  OBVIOUS
<1>2. FlagsTypeOK
  BY <1>1, CreditFlagsAssumption DEF FlagsInit, FlagsTypeOK
<1>3. QED
  BY <1>1, <1>2 DEF FlagsInit, FlagsInv, OnlyTheClearableGo, DealtWith

\* A person's word is remembered until the pass is over.
LEMMA PeopleKeepFlagsInv ==
    ASSUME FlagsInv, NEW c \in FlagCustomers, PersonClears(c) \/ Override(c)
    PROVE  FlagsInv'
<1>1. /\ \A d \in FlagCustomers \ {c} : flag'[d] = flag[d]
      /\ stirred' = stirred \cup {c}
      /\ UNCHANGED <<passing, ledger, before, todo_flags, changed, emitted, flagFaults>>
  BY DEF PersonClears, Override, pass, FlagsInv, FlagsTypeOK
<1>2. FlagsTypeOK'
  <2>1. flag' \in [FlagCustomers -> Flag \cup {NoFlag}]
    <3>1. CASE PersonClears(c)
      BY <3>1 DEF PersonClears, FlagsInv, FlagsTypeOK
    <3>2. CASE Override(c)
      <4>1. flag[c] \in Flag /\ flag' = [flag EXCEPT ![c] = [flag[c] EXCEPT !.overridden = TRUE]]
        BY <3>2 DEF Override, Live, FlagsInv, FlagsTypeOK
      <4>2. [flag[c] EXCEPT !.overridden = TRUE] \in Flag
        BY <4>1 DEF Flag
      <4>3. QED
        BY <4>1, <4>2 DEF FlagsInv, FlagsTypeOK
    <3>3. QED
      BY <3>1, <3>2
  <2>2. QED
    BY <1>1, <2>1 DEF FlagsInv, FlagsTypeOK
<1>3. OnlyTheClearableGo'
  BY <1>1 DEF FlagsInv, OnlyTheClearableGo, Overridden, Live, Clearable, FlagsTypeOK
<1>4. DealtWith'
  BY <1>1 DEF FlagsInv, DealtWith, Overridden, Live, HoldLive, GraveEnough
<1>5. QED
  BY <1>2, <1>3, <1>4 DEF FlagsInv

LEMMA BeginPassKeepsFlagsInv == FlagsInv /\ BeginPass => FlagsInv'
<1>1. SUFFICES ASSUME FlagsInv, BeginPass PROVE FlagsInv'
  OBVIOUS
<1>2. /\ passing' = "raise" /\ ledger' \in [FlagCustomers -> Positions]
      /\ before' = {c \in FlagCustomers : Live(c) /\ ~Overridden(c)}
      /\ todo_flags' = {c \in FlagCustomers : ledger'[c].owes}
      /\ changed' = {} /\ stirred' = {}
      /\ UNCHANGED <<flag, emitted, flagFaults>>
  BY <1>1 DEF BeginPass
<1>3. FlagsTypeOK'
  BY <1>1, <1>2 DEF FlagsInv, FlagsTypeOK
<1>4. OnlyTheClearableGo'
  BY <1>2 DEF OnlyTheClearableGo, Overridden, Live
<1>5. \A c \in FlagCustomers : Assess(ledger'[c]) # "none" => c \in todo_flags'
  BY <1>2, AssessSays
<1>6. DealtWith'
  BY <1>2, <1>5 DEF DealtWith, Overridden, Live
<1>7. QED
  BY <1>3, <1>4, <1>6 DEF FlagsInv

LEMMA RaiseFlagKeepsFlagsInv ==
    ASSUME FlagsInv, NEW c \in FlagCustomers, RaiseFlag(c)
    PROVE  FlagsInv'
<1> DEFINE level == Assess(ledger[c])
<1>1. /\ passing = "raise" /\ c \in todo_flags /\ todo_flags' = todo_flags \ {c}
      /\ UNCHANGED <<passing, ledger, before, emitted, stirred, flagFaults>>
  BY DEF RaiseFlag
<1>2. level \in {"none", "watch", "hold"}
  BY AssessSays
<1>3. CASE Raisable(c, level)
  <2>1. /\ flag' = [flag EXCEPT ![c] = Raised(c, level)]
        /\ changed' = changed \cup {[customer |-> c, level |-> level]}
    BY <1>3 DEF RaiseFlag
  <2>2. level \in FlagLevels
    BY <1>2, <1>3 DEF Raisable, FlagLevels
  <2> HIDE DEF level
  <2>3. /\ Raised(c, level) \in Flag /\ Raised(c, level).level = level
        /\ Raised(c, level).overridden = FALSE
    BY <2>2 DEF Raised, Flag, Live, FlagsInv, FlagsTypeOK
  <2>4. \A d \in FlagCustomers : flag'[d] = IF d = c THEN Raised(c, level) ELSE flag[d]
    BY <2>1 DEF FlagsInv, FlagsTypeOK
  <2>5. FlagsTypeOK'
    BY <1>1, <2>1, <2>2, <2>3 DEF FlagsInv, FlagsTypeOK, Event
  <2>6. OnlyTheClearableGo'
    BY <1>1, <2>3, <2>4 DEF FlagsInv, OnlyTheClearableGo, Overridden, Live, FlagsTypeOK
  <2>7. GraveEnough(c, level)'
    BY <1>1, <2>3, <2>4, CreditFlagsAssumption DEF GraveEnough, Live, HoldLive, level
  <2>8. level # "none"
    BY <1>3 DEF Raisable
  <2>9. DealtWith'
    BY <1>1, <2>4, <2>7, <2>8 DEF FlagsInv, DealtWith, Overridden, Live, HoldLive, GraveEnough, level
  <2>10. QED
    BY <2>5, <2>6, <2>9 DEF FlagsInv
<1>4. CASE ~Raisable(c, level)
  <2>1. UNCHANGED <<flag, changed>>
    BY <1>4 DEF RaiseFlag
  <2>2. \/ level = "none" \/ Overridden(c) \/ GraveEnough(c, level)
    BY <1>2, <1>4 DEF Raisable, Overridden, GraveEnough, HoldLive, FlagsInv, FlagsTypeOK, Flag,
                      FlagLevels, Live
  <2>3. FlagsTypeOK'
    BY <1>1, <2>1 DEF FlagsInv, FlagsTypeOK
  <2>4. OnlyTheClearableGo'
    BY <1>1, <2>1 DEF FlagsInv, OnlyTheClearableGo, Overridden, Live
  <2>5. DealtWith'
    BY <1>1, <2>1, <2>2 DEF FlagsInv, DealtWith, Overridden, Live, HoldLive, GraveEnough
  <2>6. QED
    BY <2>3, <2>4, <2>5 DEF FlagsInv
<1>5. QED
  BY <1>3, <1>4

LEMMA AskAboutKeepsFlagsInv == FlagsInv /\ AskAbout => FlagsInv'
<1>1. SUFFICES ASSUME FlagsInv, AskAbout PROVE FlagsInv'
  OBVIOUS
<1>2. /\ passing = "raise" /\ todo_flags = {} /\ passing' = "clear" /\ changed' = {}
      /\ todo_flags' = Clearable
      /\ UNCHANGED <<flag, ledger, before, stirred, flagFaults>>
  BY <1>1 DEF AskAbout
<1>3. emitted' \subseteq changed
  BY <1>1 DEF AskAbout, AskSets, News
<1>4. FlagsTypeOK'
  BY <1>1, <1>2, <1>3 DEF FlagsInv, FlagsTypeOK, Clearable
<1>5. OnlyTheClearableGo'
  BY <1>1, <1>2 DEF FlagsInv, OnlyTheClearableGo, Overridden, Live, Clearable
<1>6. DealtWith'
  BY <1>1, <1>2 DEF FlagsInv, DealtWith, Overridden, Live, HoldLive, GraveEnough, Clearable
<1>7. QED
  BY <1>4, <1>5, <1>6 DEF FlagsInv

LEMMA AgentClearsKeepsFlagsInv ==
    ASSUME FlagsInv, NEW c \in FlagCustomers, AgentClears(c)
    PROVE  FlagsInv'
<1>1. /\ passing = "clear" /\ c \in todo_flags /\ todo_flags' = todo_flags \ {c}
      /\ emitted' = {}
      /\ flag' = [d \in FlagCustomers |-> IF d = c THEN NoFlag ELSE Told(d)]
      /\ UNCHANGED <<passing, ledger, before, changed, stirred, flagFaults>>
  BY DEF AgentClears
<1>2. \A d \in FlagCustomers \ {c} :
        /\ Live(d)' <=> Live(d)
        /\ Overridden(d)' <=> Overridden(d)
        /\ HoldLive(d)' <=> HoldLive(d)
  BY <1>1, ToldIsAsideOnly DEF FlagsInv, Live, Overridden, HoldLive
<1>3. ~Live(c)' /\ ~Overridden(c)' /\ Assess(ledger[c]) = "none"
  BY <1>1 DEF Live, Overridden, FlagsInv, OnlyTheClearableGo, Clearable
<1>4. FlagsTypeOK'
  BY <1>1, ToldIsAsideOnly DEF FlagsInv, FlagsTypeOK
<1>5. OnlyTheClearableGo'
  BY <1>1, <1>2, <1>3 DEF FlagsInv, OnlyTheClearableGo, Clearable, FlagsTypeOK
<1>6. DealtWith'
  BY <1>1, <1>2, <1>3 DEF FlagsInv, DealtWith, GraveEnough
<1>7. QED
  BY <1>4, <1>5, <1>6 DEF FlagsInv

LEMMA EndOrCutKeepsFlagsInv == FlagsInv /\ (EndPass \/ CutPass) => FlagsInv'
<1>1. SUFFICES ASSUME FlagsInv, EndPass \/ CutPass PROVE FlagsInv'
  OBVIOUS
<1>2. /\ passing' = "idle" /\ before' = {} /\ stirred' = FlagCustomers /\ emitted' = {}
      /\ ledger' = [c \in FlagCustomers |-> Calm] /\ changed' \subseteq changed
      /\ todo_flags' = {} /\ flagFaults' \in 0..MaxFlagFaults
  BY <1>1, CreditFlagsAssumption DEF EndPass, CutPass, Forget_pass, FlagsInv, FlagsTypeOK
<1>3. flag' \in [FlagCustomers -> Flag \cup {NoFlag}]
  BY <1>1, ToldIsAsideOnly DEF EndPass, CutPass, FlagsInv, FlagsTypeOK
<1>4. FlagsTypeOK'
  BY <1>1, <1>2, <1>3, CreditFlagsAssumption DEF FlagsInv, FlagsTypeOK
<1>5. QED
  BY <1>2, <1>4 DEF FlagsInv, OnlyTheClearableGo, DealtWith

LEMMA FlagsInvStays == FlagsInv /\ [FlagsNext]_flagVars => FlagsInv'
<1>1. SUFFICES ASSUME FlagsInv, [FlagsNext]_flagVars PROVE FlagsInv'
  OBVIOUS
<1>2. CASE UNCHANGED flagVars
  <2>1. UNCHANGED <<flag, passing, ledger, before, todo_flags, changed, emitted, stirred, flagFaults>>
    BY <1>2 DEF flagVars, pass
  <2>2. FlagsTypeOK'
    BY <1>1, <2>1 DEF FlagsInv, FlagsTypeOK
  <2>3. OnlyTheClearableGo' /\ DealtWith'
    BY <1>1, <2>1 DEF FlagsInv, OnlyTheClearableGo, DealtWith, Overridden, Live, HoldLive,
                      GraveEnough, Clearable
  <2>4. QED
    BY <2>2, <2>3 DEF FlagsInv
<1>3. QED
  BY <1>1, <1>2, PeopleKeepFlagsInv, BeginPassKeepsFlagsInv, RaiseFlagKeepsFlagsInv,
     AskAboutKeepsFlagsInv, AgentClearsKeepsFlagsInv, EndOrCutKeepsFlagsInv
  DEF FlagsNext, Detect

\* What ends well has set every flag the pass found a reason for.
LEMMA EndMatches ==
    ASSUME FlagsInv, [FlagsNext]_flagVars,
           passing = "clear", passing' = "idle", flagFaults' = flagFaults,
           NEW c \in FlagCustomers \ stirred
    PROVE  \/ Overridden(c)'
           \/ CASE Assess(ledger[c]) = "hold"  -> HoldLive(c)'
                [] Assess(ledger[c]) = "watch" -> Live(c)'
                [] OTHER                       -> ~Live(c)'
<1>1. EndPass
  <2>1. ~CutPass
    BY CreditFlagsAssumption DEF CutPass, FlagsInv, FlagsTypeOK
  <2>2. QED
    BY <2>1 DEF FlagsNext, Detect, flagVars, pass, BeginPass, AskAbout, RaiseFlag, AgentClears,
                PersonClears, Override
<1>2. todo_flags = {} /\ flag' = [d \in FlagCustomers |-> Told(d)]
  BY <1>1 DEF EndPass
<1>3. /\ Live(c)' <=> Live(c)
      /\ Overridden(c)' <=> Overridden(c)
      /\ HoldLive(c)' <=> HoldLive(c)
  BY <1>2, ToldIsAsideOnly DEF FlagsInv, Live, Overridden, HoldLive
<1>4. \/ Overridden(c)
      \/ Assess(ledger[c]) = "none" /\ ~Live(c)
      \/ Assess(ledger[c]) # "none" /\ GraveEnough(c, Assess(ledger[c]))
  BY <1>2 DEF FlagsInv, DealtWith
<1>5. Assess(ledger[c]) \in {"none", "watch", "hold"}
  BY AssessSays
<1>6. QED
  BY <1>3, <1>4, <1>5 DEF GraveEnough

\* A step leaves an overridden flag, or a person has had a word.
LEMMA StepsLeaveOverrides ==
    ASSUME FlagsInv, [FlagsNext]_flagVars, NEW c \in FlagCustomers,
           Overridden(c), flag'[c] # flag[c]
    PROVE  \/ stirred' # stirred
           \/ c \in stirred
           \/ Live(c)' /\ [flag[c] EXCEPT !.told = "none"] = [flag'[c] EXCEPT !.told = "none"]
<1>1. CASE \E d \in FlagCustomers : PersonClears(d) \/ Override(d)
  BY <1>1 DEF PersonClears, Override, FlagsInv, FlagsTypeOK
<1>2. CASE EndPass \/ \E d \in FlagCustomers : AgentClears(d)
  <2>1. ASSUME NEW d \in FlagCustomers, AgentClears(d), c = d PROVE c \in stirred
    BY <2>1 DEF AgentClears, FlagsInv, OnlyTheClearableGo, Clearable
  <2>2. c \in stirred \/ flag'[c] = Told(c)
    BY <1>2, <2>1 DEF EndPass, AgentClears
  <2>3. QED
    BY <2>2, ToldIsAsideOnly DEF FlagsInv, Live, Overridden
<1>3. ASSUME NEW d \in FlagCustomers, RaiseFlag(d) PROVE FALSE
  <2>1. d = c /\ Raisable(d, Assess(ledger[d]))
    BY <1>3 DEF RaiseFlag, FlagsInv, FlagsTypeOK
  <2>2. QED
    BY <2>1 DEF Raisable, Overridden
<1>4. QED
  BY <1>1, <1>2, <1>3 DEF FlagsNext, Detect, BeginPass, AskAbout, CutPass, flagVars

LEMMA StepsDowngradeNothing ==
    ASSUME FlagsInv, [FlagsNext]_flagVars, NEW c \in FlagCustomers, HoldLive(c)
    PROVE  HoldLive(c)' \/ ~Live(c)'
<1>1. flag[c] \in Flag /\ flag[c].level = "hold"
  BY DEF HoldLive, Live, FlagsInv, FlagsTypeOK
<1>2. CASE \E d \in FlagCustomers : PersonClears(d) \/ Override(d)
  BY <1>1, <1>2 DEF PersonClears, Override, FlagsInv, FlagsTypeOK, HoldLive, Live, Flag
<1>3. CASE EndPass \/ \E d \in FlagCustomers : AgentClears(d)
  <2>1. flag'[c] = NoFlag \/ flag'[c] = Told(c)
    BY <1>3 DEF EndPass, AgentClears
  <2>2. QED
    BY <2>1, ToldIsAsideOnly DEF FlagsInv, Live, HoldLive
<1>4. ASSUME NEW d \in FlagCustomers, RaiseFlag(d) PROVE HoldLive(c)'
  <2>1. flag'[c] = flag[c]
    BY <1>4 DEF RaiseFlag, Raisable, FlagsInv, FlagsTypeOK, HoldLive, Live
  <2>2. QED
    BY <2>1 DEF HoldLive, Live
<1>5. CASE UNCHANGED flag
  BY <1>5 DEF HoldLive, Live
<1>6. QED
  BY <1>2, <1>3, <1>4, <1>5 DEF FlagsNext, Detect, BeginPass, AskAbout, CutPass, flagVars

\* flags.py and decisions.md: when a pass ends the flags are complete by what it
\* read, however many customers, whatever people did meanwhile and wherever
\* earlier passes were cut off; an override stands; a hold never turns into a watch.
THEOREM FlagsAreAlwaysKept == FlagsSpec => FlagsAreKept
<1>1. FlagsInv /\ [FlagsNext]_flagVars =>
        [(passing = "clear" /\ passing' = "idle" /\ flagFaults' = flagFaults) =>
          \A c \in FlagCustomers \ stirred :
              \/ Overridden(c)'
              \/ CASE Assess(ledger[c]) = "hold"  -> HoldLive(c)'
                   [] Assess(ledger[c]) = "watch" -> Live(c)'
                   [] OTHER                       -> ~Live(c)']_flagVars
  BY EndMatches
<1>2. FlagsInv /\ [FlagsNext]_flagVars =>
        [\A c \in FlagCustomers :
          (Overridden(c) /\ flag'[c] # flag[c]) =>
              \/ stirred' # stirred
              \/ c \in stirred
              \/ Live(c)' /\ [flag[c] EXCEPT !.told = "none"] = [flag'[c] EXCEPT !.told = "none"]
        ]_flagVars
  BY StepsLeaveOverrides
<1>3. FlagsInv /\ [FlagsNext]_flagVars =>
        [\A c \in FlagCustomers : HoldLive(c) => (HoldLive(c)' \/ ~Live(c)')]_flagVars
  BY StepsDowngradeNothing
<1>4. FlagsSpec => FlagsMatchTheLedger
  BY <1>1, FlagsAtFirst, FlagsInvStays, PTL DEF FlagsSpec, FlagsMatchTheLedger
<1>5. FlagsSpec => OverridesStand
  BY <1>2, FlagsAtFirst, FlagsInvStays, PTL DEF FlagsSpec, OverridesStand
<1>6. FlagsSpec => NoQuietDowngrade
  BY <1>3, FlagsAtFirst, FlagsInvStays, PTL DEF FlagsSpec, NoQuietDowngrade
<1>7. QED
  BY <1>4, <1>5, <1>6 DEF FlagsAreKept

-----------------------------------------------------------------------------
(* Heartbeat: what the rows and the last round of the watchdog amount to.  *)

\* A row says when its scheduler beat last, and is there while it is young.
RowsAreBeats ==
    \A w \in Schedulers :
        /\ truly[w] # Never => truly[w] <= clock
        /\ last_beat_at[w] # Never => last_beat_at[w] = truly[w]
        /\ (truly[w] # Never /\ clock - truly[w] <= PRUNE_AFTER) => last_beat_at[w] = truly[w]

\* The watchdog looked one round before it wakes next, and told what it saw.
LastLook == next_check - EVERY

ToldAtLastLook ==
    \/ next_check = checker_since + STALE
    \/ /\ LastLook >= checker_since + STALE /\ LastLook <= clock
       /\ \/ /\ truly[Production] # Never
             /\ LastLook - truly[Production] > STALE
             /\ LastLook - truly[Production] <= PRUNE_AFTER
          \/ /\ truly[Production] = Never /\ truly[Laptop] = Never
             /\ LastLook - checker_since > STALE
          => stale_alert # Never /\ stale_alert >= LastLook

WatchdogIsPunctual == checker_since # Never => clock <= next_check /\ ToldAtLastLook

BeatInv == HeartbeatTypeOK /\ RowsAreBeats /\ WatchdogIsPunctual

LEMMA BeatAtFirst == HeartbeatInit => BeatInv
BY HeartbeatAssumption
DEF HeartbeatInit, BeatInv, HeartbeatTypeOK, RowsAreBeats, WatchdogIsPunctual, Schedulers

\* A look on time raises the alert, if there is a young row that has gone stale,
\* or no beat at all.
LEMMA LookTells ==
    ASSUME BeatInv, Checked, checker_since # Never,
           \/ /\ truly[Production] # Never
              /\ clock - truly[Production] > STALE
              /\ clock - truly[Production] <= PRUNE_AFTER
           \/ /\ truly[Production] = Never /\ truly[Laptop] = Never
              /\ clock - checker_since > STALE
    PROVE  stale_alert' = clock
<1>1. CASE truly[Production] # Never
  <2>1. last_beat_at[Production] = truly[Production] /\ truly[Production] \in Int
    BY <1>1, HeartbeatAssumption DEF BeatInv, RowsAreBeats, Schedulers, HeartbeatTypeOK
  <2>2. pick_heartbeat = truly[Production]
    BY <1>1, <2>1 DEF pick_heartbeat, Beats, Schedulers
  <2>3. worker_state = "stale"
    BY <1>1, <2>1, <2>2, HeartbeatAssumption DEF worker_state, heartbeat_state, BeatInv, HeartbeatTypeOK
  <2>4. QED
    BY <2>3 DEF Checked, stale_alert_due
<1>2. CASE truly[Production] = Never
  <2>1. \A w \in Schedulers : last_beat_at[w] = Never
    BY <1>2 DEF BeatInv, RowsAreBeats, Schedulers
  <2>2. pick_heartbeat = Never
    BY <2>1 DEF pick_heartbeat, Beats
  <2>3. worker_state = "never"
    BY <2>2 DEF worker_state, heartbeat_state
  <2>4. QED
    BY <1>2, <2>3 DEF Checked, stale_alert_due
<1>3. QED
  BY <1>1, <1>2

\* An alert is raised now, or stands.
LEMMA ChecksAreTyped ==
    ASSUME BeatInv, Checked
    PROVE  stale_alert' \in {stale_alert, clock} /\ stale_alert' \in 0..LastUnit \cup {Never}
BY DEF Checked, BeatInv, HeartbeatTypeOK

LEMMA SchedulersKeepBeatInv ==
    ASSUME BeatInv, NEW w \in Schedulers, Start(w) \/ Stop(w) \/ Beat(w)
    PROVE  BeatInv'
<1>1. CASE Start(w) \/ Stop(w)
  <2>1. /\ UNCHANGED <<clock, last_beat_at, checker_since, next_check, stale_alert, truly>>
        /\ up' \subseteq Schedulers /\ beaten' \subseteq Schedulers
    BY <1>1 DEF Start, Stop, BeatInv, HeartbeatTypeOK
  <2>2. QED
    BY <2>1 DEF BeatInv, HeartbeatTypeOK, RowsAreBeats, WatchdogIsPunctual, ToldAtLastLook, LastLook
<1>2. CASE Beat(w)
  <2>1. /\ truly' = [truly EXCEPT ![w] = clock] /\ beaten' = beaten \cup {w}
        /\ UNCHANGED <<clock, up, checker_since, next_check, stale_alert>>
        /\ last_beat_at' = [v \in Schedulers |->
              IF v = w THEN clock
              ELSE IF v \in Beats /\ clock - last_beat_at[v] > PRUNE_AFTER THEN Never
              ELSE last_beat_at[v]]
    BY <1>2 DEF Beat
  <2>2. clock \in 0..LastUnit /\ clock # Never
    BY HeartbeatAssumption DEF BeatInv, HeartbeatTypeOK
  <2>3. HeartbeatTypeOK'
    BY <2>1, <2>2 DEF BeatInv, HeartbeatTypeOK
  <2>4. RowsAreBeats'
    <3>1. SUFFICES ASSUME NEW v \in Schedulers
                   PROVE  /\ truly'[v] # Never => truly'[v] <= clock
                          /\ last_beat_at'[v] # Never => last_beat_at'[v] = truly'[v]
                          /\ (truly'[v] # Never /\ clock - truly'[v] <= PRUNE_AFTER)
                                => last_beat_at'[v] = truly'[v]
      BY <2>1 DEF RowsAreBeats
    <3>2. CASE v = w
      BY <2>1, <2>2, <3>2 DEF BeatInv, HeartbeatTypeOK
    <3>3. CASE v # w
      <4>1. truly'[v] = truly[v]
        BY <2>1, <3>3 DEF BeatInv, HeartbeatTypeOK
      <4>2. last_beat_at'[v] = IF last_beat_at[v] # Never /\ clock - last_beat_at[v] > PRUNE_AFTER
                               THEN Never ELSE last_beat_at[v]
        BY <2>1, <3>3 DEF Beats
      <4>3. last_beat_at[v] \in 0..LastUnit \cup {Never} /\ truly[v] \in 0..LastUnit \cup {Never}
        BY DEF BeatInv, HeartbeatTypeOK
      <4>4. QED
        BY <2>2, <4>1, <4>2, <4>3, HeartbeatAssumption DEF BeatInv, RowsAreBeats
    <3>4. QED
      BY <3>2, <3>3
  <2>5. WatchdogIsPunctual'
    <3>1. SUFFICES ASSUME checker_since # Never PROVE clock <= next_check /\ ToldAtLastLook'
      BY <2>1 DEF WatchdogIsPunctual
    <3>2. ToldAtLastLook /\ clock <= next_check
      BY <3>1 DEF BeatInv, WatchdogIsPunctual
    <3>3. /\ truly'[Production] = IF w = Production THEN clock ELSE truly[Production]
          /\ truly'[Laptop] = IF w = Laptop THEN clock ELSE truly[Laptop]
      BY <2>1, HeartbeatAssumption DEF BeatInv, HeartbeatTypeOK, Schedulers
    <3>4. w \in {Production, Laptop} /\ LastLook \in Int
      BY HeartbeatAssumption DEF Schedulers, LastLook, BeatInv, HeartbeatTypeOK
    <3>5. CASE next_check = checker_since + STALE
      BY <2>1, <3>2, <3>5 DEF ToldAtLastLook
    <3>6. CASE next_check # checker_since + STALE
      <4>1. LastLook' = LastLook /\ LastLook >= checker_since + STALE /\ LastLook <= clock
        BY <2>1, <3>2, <3>6 DEF ToldAtLastLook, LastLook
      <4>2. ~(clock # Never /\ LastLook - clock > STALE)
        BY <2>2, <3>4, <4>1, HeartbeatAssumption
      <4>3. QED
        BY <2>1, <2>2, <3>2, <3>3, <3>4, <3>6, <4>1, <4>2 DEF ToldAtLastLook
    <3>7. QED
      BY <3>2, <3>5, <3>6
  <2>6. QED
    BY <2>3, <2>4, <2>5 DEF BeatInv
<1>3. QED
  BY <1>1, <1>2

LEMMA ApiKeepsBeatInv ==
    ASSUME BeatInv, StartApi \/ StopApi \/ Watchdog \/ ReadPanel
    PROVE  BeatInv'
<1>1. UNCHANGED <<clock, up, last_beat_at, beaten, truly>>
  BY DEF StartApi, StopApi, Watchdog, ReadPanel
<1>2. RowsAreBeats'
  BY <1>1 DEF BeatInv, RowsAreBeats
<1>3. clock \in Int /\ next_check \in Int /\ stale_alert \in Int \cup {Never}
  BY DEF BeatInv, HeartbeatTypeOK
<1>4. CASE StartApi \/ StopApi
  <2>1. /\ checker_since' \in 0..LastUnit \cup {Never} /\ next_check' \in Nat
        /\ checker_since' # Never =>
              next_check' = checker_since' + STALE /\ clock <= next_check'
        /\ stale_alert' = stale_alert
    BY <1>4, HeartbeatAssumption DEF StartApi, StopApi, BeatInv, HeartbeatTypeOK
  <2>2. HeartbeatTypeOK'
    BY <1>1, <2>1 DEF BeatInv, HeartbeatTypeOK
  <2>3. WatchdogIsPunctual'
    BY <1>1, <2>1 DEF WatchdogIsPunctual, ToldAtLastLook
  <2>4. QED
    BY <1>2, <2>2, <2>3 DEF BeatInv
<1>5. CASE Watchdog
  <2>1. /\ checker_since # Never /\ clock >= next_check /\ Checked
        /\ next_check' = clock + EVERY /\ checker_since' = checker_since
    BY <1>5 DEF Watchdog
  <2>2. HeartbeatTypeOK'
    BY <1>1, <2>1, ChecksAreTyped, HeartbeatAssumption DEF BeatInv, HeartbeatTypeOK
  <2>3. checker_since \in Int /\ clock <= next_check /\ ToldAtLastLook
    BY <2>1 DEF BeatInv, HeartbeatTypeOK, WatchdogIsPunctual
  <2>4. LastLook' = clock /\ clock # Never
    BY <1>3, <2>1, HeartbeatAssumption DEF LastLook
  <2>5. clock >= checker_since + STALE
    BY <1>3, <2>1, <2>3, HeartbeatAssumption DEF ToldAtLastLook, LastLook
  <2>6. ToldAtLastLook'
    BY <1>1, <1>3, <2>1, <2>4, <2>5, LookTells DEF ToldAtLastLook
  <2>7. WatchdogIsPunctual'
    BY <1>1, <1>3, <2>1, <2>6, HeartbeatAssumption DEF WatchdogIsPunctual
  <2>8. QED
    BY <1>2, <2>2, <2>7 DEF BeatInv
<1>6. CASE ReadPanel
  <2>1. /\ checker_since # Never /\ Checked
        /\ next_check' = next_check /\ checker_since' = checker_since
    BY <1>6 DEF ReadPanel
  <2>2. HeartbeatTypeOK'
    BY <1>1, <2>1, ChecksAreTyped DEF BeatInv, HeartbeatTypeOK
  <2>3. clock <= next_check /\ ToldAtLastLook
    BY <2>1 DEF BeatInv, WatchdogIsPunctual
  <2>4. LastLook' = LastLook /\ LastLook \in Int /\ clock # Never
    BY <1>3, <2>1, HeartbeatAssumption DEF LastLook
  <2>5. stale_alert' = stale_alert \/ stale_alert' = clock
    BY <2>1, ChecksAreTyped
  <2>6. ToldAtLastLook'
    BY <1>1, <1>3, <2>1, <2>3, <2>4, <2>5 DEF ToldAtLastLook
  <2>7. QED
    BY <1>1, <1>2, <2>1, <2>2, <2>3, <2>6 DEF BeatInv, WatchdogIsPunctual
<1>7. QED
  BY <1>4, <1>5, <1>6

LEMMA WaitKeepsBeatInv == BeatInv /\ Wait => BeatInv'
<1>1. SUFFICES ASSUME BeatInv, Wait PROVE BeatInv'
  OBVIOUS
<1>2. /\ clock' = clock + 1 /\ beaten' = {} /\ clock < LastUnit
      /\ checker_since # Never => clock < next_check
      /\ UNCHANGED <<up, last_beat_at, checker_since, next_check, stale_alert, truly>>
  BY <1>1 DEF Wait
<1>3. HeartbeatTypeOK'
  BY <1>1, <1>2, HeartbeatAssumption DEF BeatInv, HeartbeatTypeOK
<1>4. clock \in Int /\ next_check \in Int
  BY <1>1 DEF BeatInv, HeartbeatTypeOK
<1>5. RowsAreBeats'
  <2>1. \A w \in Schedulers : truly[w] \in 0..LastUnit \cup {Never}
    BY <1>1 DEF BeatInv, HeartbeatTypeOK
  <2>2. QED
    BY <1>1, <1>2, <1>4, <2>1, HeartbeatAssumption DEF BeatInv, RowsAreBeats
<1>6. WatchdogIsPunctual'
  <2>1. SUFFICES ASSUME checker_since # Never PROVE clock' <= next_check /\ ToldAtLastLook'
    BY <1>2 DEF WatchdogIsPunctual
  <2>2. LastLook' = LastLook /\ LastLook \in Int /\ ToldAtLastLook
    BY <1>1, <1>2, <1>4, <2>1, HeartbeatAssumption DEF LastLook, BeatInv, WatchdogIsPunctual
  <2>3. QED
    BY <1>2, <1>4, <2>1, <2>2 DEF ToldAtLastLook
<1>7. QED
  BY <1>3, <1>5, <1>6 DEF BeatInv

LEMMA BeatInvStays == BeatInv /\ [HeartbeatNext]_beatVars => BeatInv'
<1>1. SUFFICES ASSUME BeatInv, [HeartbeatNext]_beatVars PROVE BeatInv'
  OBVIOUS
<1>2. CASE UNCHANGED beatVars
  BY <1>1, <1>2 DEF beatVars, BeatInv, HeartbeatTypeOK, RowsAreBeats, WatchdogIsPunctual,
                    ToldAtLastLook, LastLook
<1>3. QED
  BY <1>1, <1>2, SchedulersKeepBeatInv, ApiKeepsBeatInv, WaitKeepsBeatInv DEF HeartbeatNext

LEMMA SilenceWasSeen == BeatInv => DeadWorkerIsNoticed
<1> DEFINE last == truly[Production]
<1>1. SUFFICES ASSUME BeatInv, checker_since # Never, clock - checker_since > STALE + EVERY,
                      IF last = Never THEN truly[Laptop] = Never
                      ELSE clock - last > STALE + EVERY /\ clock - last <= PRUNE_AFTER
               PROVE  /\ stale_alert # Never /\ stale_alert >= checker_since
                      /\ last # Never => stale_alert > last
  BY DEF DeadWorkerIsNoticed
<1>2. /\ clock \in Int /\ next_check \in Int /\ checker_since \in Int
      /\ last \in Int \cup {Never} /\ stale_alert \in Int \cup {Never}
      /\ clock <= next_check /\ ToldAtLastLook
  BY <1>1 DEF BeatInv, HeartbeatTypeOK, WatchdogIsPunctual, Schedulers
<1> HIDE DEF last
<1>3. LastLook \in Int /\ LastLook >= clock - EVERY /\ LastLook - checker_since > STALE
  BY <1>1, <1>2, HeartbeatAssumption DEF LastLook
<1>4. next_check # checker_since + STALE
  BY <1>1, <1>2, <1>3, HeartbeatAssumption
<1>5. /\ LastLook <= clock
      /\ \/ last # Never /\ LastLook - last > STALE /\ LastLook - last <= PRUNE_AFTER
         \/ last = Never /\ truly[Laptop] = Never /\ LastLook - checker_since > STALE
         => stale_alert # Never /\ stale_alert >= LastLook
  BY <1>2, <1>4 DEF ToldAtLastLook, last
<1>6. CASE last = Never
  BY <1>1, <1>2, <1>3, <1>5, <1>6, HeartbeatAssumption
<1>7. CASE last # Never
  <2>1. last \in Int /\ LastLook - last > STALE /\ LastLook - last <= PRUNE_AFTER
    BY <1>1, <1>2, <1>3, <1>5, <1>7, HeartbeatAssumption
  <2>2. QED
    BY <1>2, <1>3, <1>5, <2>1, <1>7, HeartbeatAssumption
<1>8. QED
  BY <1>6, <1>7

LEMMA TheLivingAreLeftAlone ==
    ASSUME BeatInv, [HeartbeatNext]_beatVars, stale_alert' # stale_alert
    PROVE  ~(Production \in up /\ last_beat_at[Production] # Never
              /\ last_beat_at[Production] >= clock - 1)
<1>1. SUFFICES ASSUME last_beat_at[Production] # Never,
                      last_beat_at[Production] >= clock - 1
               PROVE  FALSE
  OBVIOUS
<1>2. Checked
  BY DEF HeartbeatNext, beatVars, Start, Stop, Beat, StartApi, StopApi, Watchdog, ReadPanel, Wait
<1>3. pick_heartbeat = last_beat_at[Production] /\ last_beat_at[Production] \in Int /\ clock \in Int
  BY <1>1, HeartbeatAssumption DEF pick_heartbeat, Beats, Schedulers, BeatInv, HeartbeatTypeOK
<1>4. worker_state = "alive"
  BY <1>1, <1>3, HeartbeatAssumption DEF worker_state, heartbeat_state
<1>5. QED
  BY <1>2, <1>4 DEF Checked, stale_alert_due

\* health.py: silence is the worker's only failure mode.  Whatever stops, starts
\* and beats meanwhile, a watchdog that has run long enough has told of a worker
\* silent for long, and no look ever reports one that beat a minute ago.
THEOREM WatchdogIsAlwaysRight == HeartbeatSpec => WatchdogIsRight
<1>1. BeatInv /\ [HeartbeatNext]_beatVars =>
        [stale_alert' # stale_alert =>
          ~(Production \in up /\ last_beat_at[Production] # Never
              /\ last_beat_at[Production] >= clock - 1)]_beatVars
  BY TheLivingAreLeftAlone
<1>2. HeartbeatSpec => []DeadWorkerIsNoticed
  BY BeatAtFirst, BeatInvStays, SilenceWasSeen, PTL DEF HeartbeatSpec
<1>3. HeartbeatSpec => NoFalseAlarm
  BY <1>1, BeatAtFirst, BeatInvStays, PTL DEF HeartbeatSpec, NoFalseAlarm
<1>4. QED
  BY <1>2, <1>3 DEF WatchdogIsRight

-----------------------------------------------------------------------------
(* Brief: whose failure it was, and what the log may say.                  *)

AtWork == at \in {"data", "cards", "experiments", "recipients", "send", "log"}

BriefTyped ==
    /\ morning \in BriefDays
    /\ AtWork \/ at \in {"idle", "next", "alerts"}
    /\ left \subseteq Workspaces /\ readers \subseteq Readers
    /\ aborted \in BOOLEAN /\ told \in BOOLEAN
    /\ AtWork => serving \in Workspaces
    /\ at = "log" => addressed \in Readers
    /\ result \in [Workspaces -> {"none", "sent", "unsent", "error"}]
    /\ deliveries \subseteq Mailed /\ arrived \subseteq Mailed
    /\ briefFaults \in 0..MaxBriefFaults

\* Something of the workspace's own went wrong, or the connection did.
Excused == Here \in hurt \/ morning \in lost

\* A transaction stays aborted within the workspace whose query failed.
AbortsAreOwn ==
    aborted => at = "idle" \/ (at \in {"cards", "experiments"} /\ Excused)

\* Between a mail and its row: it arrived, or something went wrong.
MailsAreAccounted ==
    /\ deliveries \subseteq arrived
    /\ at = "log" => IF told THEN Mail(addressed) \in arrived ELSE Here \in hurt
    /\ \A r \in arrived \ deliveries :
          Failures(r.of, r.on) \/ r.on \in died \cup lost \/ (at = "log" /\ r = Mail(addressed))

BriefInv == /\ BriefTyped /\ AbortsAreOwn /\ NoOneElsesFailure /\ MailsAreAccounted
            /\ SilenceIsAlerted

LEMMA BriefAtFirst == BriefInit => BriefInv
<1>1. SUFFICES ASSUME BriefInit PROVE BriefInv
  OBVIOUS
<1>2. BriefTyped
  <2>1. /\ at = "idle" /\ morning \in BriefDays /\ left = {} /\ readers = {} /\ deliveries = {}
        /\ arrived = {} /\ aborted = FALSE /\ told = FALSE /\ briefFaults = 0
        /\ result \in [Workspaces -> {"none", "sent", "unsent", "error"}]
    BY <1>1 DEF BriefInit
  <2>2. ~AtWork /\ at # "log"
    BY <2>1 DEF AtWork
  <2>3. briefFaults \in 0..MaxBriefFaults
    BY <2>1, BriefAssumption
  <2>4. QED
    BY <2>1, <2>2, <2>3 DEF BriefTyped
<1>3. QED
  BY <1>1, <1>2
  DEF BriefInit, BriefInv, AbortsAreOwn, NoOneElsesFailure, MailsAreAccounted, SilenceIsAlerted

LEMMA FaultsAreTyped ==
    ASSUME BriefInv, Fine \/ Fault
    PROVE  briefFaults' \in 0..MaxBriefFaults /\ hurt \subseteq hurt' /\ (Fault => Here \in hurt')
BY BriefAssumption DEF Fine, Fault, BriefInv, BriefTyped

\* Whatever fails, there is an excuse for.
LEMMA FailuresAreExcused ==
    ASSUME BriefInv, at # "idle", Fails
    PROVE  (Fine \/ Fault) /\ (Here \in hurt' \/ morning \in lost)
<1>1. Fine \/ Fault
  BY DEF Fails
<1>2. CASE Broken
  BY <1>1, <1>2, FaultsAreTyped DEF Broken, BriefInv, AbortsAreOwn, Excused
<1>3. CASE ~Broken
  BY <1>3, FaultsAreTyped DEF Fails
<1>4. QED
  BY <1>1, <1>2, <1>3

\* A step on the way through one workspace, before anything is sent or after.
LEMMA WorkKeepsBriefInv ==
    ASSUME BriefInv, at # "idle", at # "log",
           \/ at' \in {"cards", "experiments", "recipients", "send"} /\ AtWork /\ serving' = serving
           \/ at' = "next" /\ AtWork /\ serving' = serving
           \/ at' = "data" /\ serving' \in Workspaces
           \/ at' = "alerts",
           readers' \subseteq Readers, left' \subseteq left, aborted' \in BOOLEAN,
           aborted' => at' \in {"cards", "experiments"} /\ (Here' \in hurt' \/ morning \in lost),
           Fine \/ Fault,
           \/ result' = result
           \/ /\ result' = [result EXCEPT ![serving] = "error"]
              /\ serving \in Workspaces /\ (Here \in hurt' \/ morning \in lost),
           UNCHANGED <<briefed, morning, addressed, told, deliveries, arrived, died, lost, alerted>>
    PROVE  BriefInv'
<1>1. briefFaults' \in 0..MaxBriefFaults /\ hurt \subseteq hurt'
  BY FaultsAreTyped
<1>2. BriefTyped'
  BY <1>1 DEF BriefInv, BriefTyped, AtWork
<1>3. AbortsAreOwn'
  BY DEF AbortsAreOwn, Excused
<1>4. NoOneElsesFailure'
  BY <1>1 DEF BriefInv, BriefTyped, NoOneElsesFailure, Failures, Here
<1>5. MailsAreAccounted'
  BY <1>1 DEF BriefInv, MailsAreAccounted, Failures
<1>6. SilenceIsAlerted'
  BY DEF SilenceIsAlerted
<1>7. QED
  BY <1>2, <1>3, <1>4, <1>5, <1>6 DEF BriefInv

LEMMA StartJobKeepsBriefInv ==
    ASSUME BriefInv, NEW d \in BriefDays, StartJob(d)
    PROVE  BriefInv'
<1>1. /\ at = "idle" /\ morning' = d /\ at' = "next" /\ left' = Workspaces /\ aborted' = FALSE
      /\ result' = [c \in Workspaces |-> "none"]
      /\ UNCHANGED <<serving, turn, evidence, hurt, died, lost, alerted, briefFaults>>
  BY DEF StartJob
<1>2. UNCHANGED <<readers, addressed, told, deliveries, arrived>>
  BY <1>1 DEF turn, evidence
<1>3. BriefTyped'
  BY <1>1, <1>2 DEF BriefInv, BriefTyped, AtWork
<1>4. AbortsAreOwn' /\ NoOneElsesFailure' /\ SilenceIsAlerted'
  BY <1>1 DEF AbortsAreOwn, NoOneElsesFailure, SilenceIsAlerted
<1>5. MailsAreAccounted'
  BY <1>1, <1>2 DEF BriefInv, MailsAreAccounted, Failures
<1>6. QED
  BY <1>3, <1>4, <1>5 DEF BriefInv

LEMMA OneWorkspaceKeepsBriefInv ==
    ASSUME BriefInv,
           \/ NextWorkspace \/ HasData \/ ReadExperiments \/ BriefRecipients \/ Served
           \/ \E k \in Cards : BuildCard(k)
    PROVE  BriefInv'
<1>1. CASE NextWorkspace
  <2>1. /\ at = "next"
        /\ \/ at' = "data" /\ serving' \in left /\ left' \subseteq left
           \/ at' = "alerts" /\ left' = left
        /\ readers' = {} /\ Fine /\ aborted' = aborted /\ result' = result
        /\ UNCHANGED <<briefed, morning, addressed, told, deliveries, arrived, died, lost, alerted>>
    BY <1>1 DEF NextWorkspace, evidence, Fine
  <2>2. aborted' = FALSE
    BY <2>1 DEF BriefInv, BriefTyped, AbortsAreOwn
  <2>3. serving' \in Workspaces \/ at' = "alerts"
    BY <2>1 DEF BriefInv, BriefTyped
  <2>4. QED
    BY <2>1, <2>2, <2>3, WorkKeepsBriefInv
<1>2. CASE HasData
  <2>1. /\ at = "data" /\ AtWork /\ serving \in Workspaces /\ ~aborted
    BY <1>2 DEF HasData, AtWork, BriefInv, BriefTyped, AbortsAreOwn
  <2>2. UNCHANGED <<briefed, morning, left, serving, readers, addressed, told, deliveries,
                    arrived, died, lost, alerted>>
    BY <1>2 DEF HasData, turn, evidence
  <2>3. \/ Fine /\ at' = "cards" /\ UNCHANGED <<result, aborted>>
        \/ /\ Fails /\ at' = "next" /\ aborted' = FALSE
           /\ result' = [result EXCEPT ![serving] = "error"]
    BY <1>2, <2>1 DEF HasData, Works, GiveUp
  <2>4. readers' \subseteq Readers /\ left' = left /\ aborted' = FALSE
    BY <2>1, <2>2, <2>3 DEF BriefInv, BriefTyped
  <2>5. \/ result' = result
        \/ /\ result' = [result EXCEPT ![serving] = "error"]
           /\ Here \in hurt' \/ morning \in lost
    BY <2>1, <2>3, FailuresAreExcused
  <2>6. (Fine \/ Fault) /\ at' \in {"cards", "send", "next"}
    BY <2>1, <2>3, FailuresAreExcused
  <2>7. QED
    BY <2>1, <2>2, <2>4, <2>5, <2>6, WorkKeepsBriefInv
<1>3. CASE ReadExperiments
  <2>1. at = "experiments" /\ at' = "recipients" /\ AtWork /\ aborted' = FALSE
    BY <1>3 DEF ReadExperiments, AtWork, BriefInv, BriefTyped, Works, Broken
  <2>2. UNCHANGED <<briefed, morning, left, serving, readers, addressed, told, result, deliveries,
                    arrived, died, lost, alerted>>
    BY <1>3 DEF ReadExperiments, evidence
  <2>3. Fine \/ Fault
    BY <1>3 DEF ReadExperiments, Works, Fails
  <2>4. QED
    BY <2>1, <2>2, <2>3, WorkKeepsBriefInv DEF BriefInv, BriefTyped
<1>4. CASE BriefRecipients
  <2>1. at = "recipients" /\ AtWork /\ serving \in Workspaces /\ ~aborted
    BY <1>4 DEF BriefRecipients, AtWork, BriefInv, BriefTyped, AbortsAreOwn
  <2>2. UNCHANGED <<briefed, morning, left, serving, addressed, told, deliveries, arrived,
                    died, lost, alerted>>
    BY <1>4 DEF BriefRecipients, evidence
  <2>3. \/ Fine /\ at' = "send" /\ readers' = Readers /\ UNCHANGED <<result, aborted>>
        \/ /\ Fails /\ at' = "next" /\ aborted' = FALSE /\ readers' = readers
           /\ result' = [result EXCEPT ![serving] = "error"]
    BY <1>4, <2>1 DEF BriefRecipients, Works, GiveUp
  <2>4. readers' \subseteq Readers /\ left' = left /\ aborted' = FALSE
    BY <2>1, <2>2, <2>3 DEF BriefInv, BriefTyped
  <2>5. \/ result' = result
        \/ /\ result' = [result EXCEPT ![serving] = "error"]
           /\ Here \in hurt' \/ morning \in lost
    BY <2>1, <2>3, FailuresAreExcused
  <2>6. (Fine \/ Fault) /\ at' \in {"cards", "send", "next"}
    BY <2>1, <2>3, FailuresAreExcused
  <2>7. QED
    BY <2>1, <2>2, <2>4, <2>5, <2>6, WorkKeepsBriefInv
<1>5. CASE Served
  <2>1. /\ at = "send" /\ at' = "next" /\ AtWork /\ Fine
        /\ UNCHANGED <<briefed, morning, left, serving, aborted, readers, addressed, told, result,
                       deliveries, arrived, died, lost, alerted>>
    BY <1>5 DEF Served, turn, evidence, Fine, AtWork
  <2>2. ~aborted
    BY <2>1 DEF BriefInv, AbortsAreOwn
  <2>3. QED
    BY <2>1, <2>2, WorkKeepsBriefInv DEF BriefInv, BriefTyped
<1>6. ASSUME NEW k \in Cards, BuildCard(k) PROVE BriefInv'
  <2>1. at = "cards" /\ at' \in {"cards", "experiments"} /\ AtWork
    BY <1>6 DEF BuildCard, AtWork
  <2>2. UNCHANGED <<briefed, morning, left, serving, readers, addressed, told, result, deliveries,
                    arrived, died, lost, alerted>>
    BY <1>6 DEF BuildCard, evidence
  <2>3. /\ Fine \/ Fault
        /\ aborted' \in BOOLEAN
        /\ aborted' => Here \in hurt' \/ morning \in lost
    <3>1. CASE Works /\ UNCHANGED <<failed, faulty, aborted>>
      BY <3>1 DEF Works, Broken, BriefInv, BriefTyped
    <3>2. CASE Fails /\ aborted' = TRUE
      BY <2>1, <3>2, FailuresAreExcused
    <3>3. QED
      BY <1>6, <3>1, <3>2 DEF BuildCard
  <2>4. Here' = Here
    BY <2>2 DEF Here
  <2>5. QED
    BY <2>1, <2>2, <2>3, <2>4, WorkKeepsBriefInv DEF BriefInv, BriefTyped
<1>7. QED
  BY <1>1, <1>2, <1>3, <1>4, <1>5, <1>6

LEMMA SendBriefKeepsBriefInv ==
    ASSUME BriefInv, NEW to \in Readers, SendBrief(to)
    PROVE  BriefInv'
<1>1. /\ at = "send" /\ at' = "log" /\ AtWork /\ AtWork' /\ serving \in Workspaces
      /\ addressed' = to /\ readers' \subseteq readers
      /\ UNCHANGED <<briefed, morning, left, serving, aborted, deliveries, died, lost, alerted>>
  BY DEF SendBrief, AtWork, BriefInv, BriefTyped
<1>2. /\ ~aborted
      /\ Mail(addressed)' = Mail(to) /\ Here' = Here
      /\ Mail(to) \in Mailed
  BY <1>1 DEF BriefInv, BriefTyped, AbortsAreOwn, Mail, Mailed, Here
<1>3. \/ Fine /\ told' = TRUE /\ arrived' = arrived \cup {Mail(to)}
      \/ Fault /\ told' = FALSE /\ arrived' \in {arrived, arrived \cup {Mail(to)}}
  BY DEF SendBrief
<1>4. /\ briefFaults' \in 0..MaxBriefFaults /\ hurt \subseteq hurt'
      /\ told' \in BOOLEAN /\ (~told' => Here \in hurt')
      /\ arrived \subseteq arrived' /\ arrived' \subseteq arrived \cup {Mail(to)}
      /\ told' => Mail(to) \in arrived'
  BY <1>3, FaultsAreTyped
<1>5. result' = [result EXCEPT ![serving] = IF told' \/ result[serving] = "sent"
                                            THEN "sent" ELSE "unsent"]
  BY DEF SendBrief
<1>6. BriefTyped'
  BY <1>1, <1>2, <1>4, <1>5 DEF BriefInv, BriefTyped
<1>7. AbortsAreOwn' /\ SilenceIsAlerted'
  BY <1>1, <1>2 DEF AbortsAreOwn, SilenceIsAlerted
<1>8. NoOneElsesFailure'
  BY <1>1, <1>4, <1>5 DEF BriefInv, BriefTyped, NoOneElsesFailure, Failures, Here
<1>9. MailsAreAccounted'
  BY <1>1, <1>2, <1>4 DEF BriefInv, MailsAreAccounted, Failures
<1>10. QED
  BY <1>6, <1>7, <1>8, <1>9 DEF BriefInv

LEMMA LogDeliveryKeepsBriefInv == BriefInv /\ LogDelivery => BriefInv'
<1>1. SUFFICES ASSUME BriefInv, LogDelivery PROVE BriefInv'
  OBVIOUS
<1>2. /\ at = "log" /\ at' = "send" /\ aborted' = FALSE /\ told' = FALSE
      /\ UNCHANGED <<briefed, morning, left, serving, readers, addressed, result, arrived, died,
                     lost, alerted>>
  BY <1>1 DEF LogDelivery
<1>3. /\ ~aborted /\ addressed \in Readers /\ serving \in Workspaces /\ morning \in BriefDays
  BY <1>1, <1>2 DEF BriefInv, BriefTyped, AbortsAreOwn, AtWork
<1>4. \/ Fine /\ deliveries' = deliveries \cup Confirmed
      \/ Fails /\ deliveries' = deliveries
  BY <1>1, <1>3 DEF LogDelivery, Works
<1>5. briefFaults' \in 0..MaxBriefFaults /\ hurt \subseteq hurt'
  BY <1>1, <1>2, <1>4, FaultsAreTyped, FailuresAreExcused
<1>6. Confirmed \subseteq arrived
  BY <1>1, <1>2 DEF Confirmed, BriefInv, MailsAreAccounted
<1>7. /\ deliveries \subseteq deliveries' /\ deliveries' \subseteq arrived
      /\ Mail(addressed) \in deliveries' \/ Here \in hurt' \/ morning \in lost
  BY <1>1, <1>2, <1>4, <1>6, FaultsAreTyped, FailuresAreExcused DEF BriefInv, MailsAreAccounted, Confirmed, Fine
<1>8. BriefTyped'
  BY <1>1, <1>2, <1>3, <1>5, <1>7 DEF BriefInv, BriefTyped, AtWork
<1>9. AbortsAreOwn' /\ SilenceIsAlerted'
  BY <1>2 DEF AbortsAreOwn, SilenceIsAlerted
<1>10. NoOneElsesFailure'
  BY <1>1, <1>2, <1>5 DEF BriefInv, NoOneElsesFailure, Failures
<1>11. MailsAreAccounted'
  BY <1>1, <1>2, <1>5, <1>7 DEF BriefInv, MailsAreAccounted, Failures, Mail, Here
<1>12. QED
  BY <1>8, <1>9, <1>10, <1>11 DEF BriefInv

LEMMA EndJobKeepsBriefInv == BriefInv /\ (EndJob \/ WorkerDies) => BriefInv'
<1>1. SUFFICES ASSUME BriefInv, EndJob \/ WorkerDies PROVE BriefInv'
  OBVIOUS
<1>2. /\ at' = "idle" /\ died \subseteq died' /\ briefFaults' \in 0..MaxBriefFaults
      /\ UNCHANGED <<briefed, morning, left, aborted, readers, addressed, told, result, deliveries,
                     arrived, hurt, lost>>
  BY <1>1, BriefAssumption DEF EndJob, WorkerDies, turn, evidence, BriefInv, BriefTyped
<1>3. at = "log" => morning \in died'
  BY <1>1 DEF EndJob, WorkerDies
<1>4. BriefTyped'
  BY <1>1, <1>2 DEF BriefInv, BriefTyped, AtWork
<1>5. AbortsAreOwn'
  BY <1>2 DEF AbortsAreOwn
<1>6. NoOneElsesFailure'
  BY <1>1, <1>2 DEF BriefInv, NoOneElsesFailure, Failures
<1>7. MailsAreAccounted'
  BY <1>1, <1>2, <1>3 DEF BriefInv, MailsAreAccounted, Failures, Mail
<1>8. SilenceIsAlerted'
  BY <1>1, <1>2 DEF EndJob, WorkerDies, SilenceIsAlerted, Unreached
<1>9. QED
  BY <1>4, <1>5, <1>6, <1>7, <1>8 DEF BriefInv

LEMMA ConnectionLostKeepsBriefInv == BriefInv /\ ConnectionLost => BriefInv'
<1>1. SUFFICES ASSUME BriefInv, ConnectionLost PROVE BriefInv'
  OBVIOUS
<1>2. /\ lost \subseteq lost' /\ briefFaults' \in 0..MaxBriefFaults
      /\ UNCHANGED <<briefed, at, morning, left, serving, aborted, readers, addressed, told, result,
                     deliveries, arrived, hurt, died, alerted>>
  BY <1>1, BriefAssumption DEF ConnectionLost, turn, evidence, BriefInv, BriefTyped
<1>3. BriefTyped'
  BY <1>1, <1>2 DEF BriefInv, BriefTyped, AtWork
<1>4. AbortsAreOwn' /\ NoOneElsesFailure'
  BY <1>1, <1>2 DEF BriefInv, AbortsAreOwn, Excused, Here, NoOneElsesFailure, Failures
<1>5. MailsAreAccounted' /\ SilenceIsAlerted'
  BY <1>1, <1>2 DEF BriefInv, MailsAreAccounted, SilenceIsAlerted, Failures, Mail, Here
<1>6. QED
  BY <1>3, <1>4, <1>5 DEF BriefInv

LEMMA BriefInvStays == BriefInv /\ [BriefNext]_briefVars => BriefInv'
<1>1. SUFFICES ASSUME BriefInv, [BriefNext]_briefVars PROVE BriefInv'
  OBVIOUS
<1>2. CASE UNCHANGED briefVars
  <2>1. UNCHANGED <<briefed, at, morning, left, serving, aborted, readers, addressed, told, result,
                    deliveries, arrived, hurt, died, lost, alerted, briefFaults>>
    BY <1>2 DEF briefVars, turn, evidence
  <2>2. QED
    BY <1>1, <2>1 DEF BriefInv, BriefTyped, AtWork, AbortsAreOwn, Excused, Here, NoOneElsesFailure,
                      Failures, MailsAreAccounted, Mail, SilenceIsAlerted
<1>3. QED
  BY <1>1, <1>2, StartJobKeepsBriefInv, OneWorkspaceKeepsBriefInv, SendBriefKeepsBriefInv,
     LogDeliveryKeepsBriefInv, ConnectionLostKeepsBriefInv, EndJobKeepsBriefInv
  DEF BriefNext

\* What the milestone counts are rows of the log, and the rows are of mails that came.
LEMMA RecordsAreEarned == BriefInv => EvidenceIsTrue
<1>1. SUFFICES ASSUME BriefInv PROVE EvidenceIsTrue
  OBVIOUS
<1>2. ASSUME NEW c \in Workspaces, NEW to \in Readers, delivery_summary(c, to, morning).every,
             NEW d \in BriefDays, is_working_day(d), d < morning
      PROVE  [of |-> c, to |-> to, on |-> d] \in arrived
  <2>1. PICK r \in deliveries : r.of = c /\ r.to = to /\ r.on = d
    BY <1>2 DEF delivery_summary
  <2>2. r \in Mailed /\ r \in arrived
    BY <1>1, <2>1 DEF BriefInv, BriefTyped, MailsAreAccounted
  <2>3. r = [of |-> c, to |-> to, on |-> d]
    BY <2>1, <2>2 DEF Mailed
  <2>4. QED
    BY <2>2, <2>3
<1>3. QED
  BY <1>1, <1>2 DEF EvidenceIsTrue, BriefInv, MailsAreAccounted

LEMMA BriefTypesStay ==
    ASSUME BriefTypeOK, BriefInv, [BriefNext]_briefVars
    PROVE  BriefTypeOK'
<1> USE DEF BriefTypeOK
<1>1. BriefTyped /\ briefFaults \in 0..MaxBriefFaults
  BY DEF BriefInv
<1>2. BriefInv'
  BY BriefInvStays
<1>3. /\ morning' \in BriefDays /\ aborted' \in BOOLEAN /\ told' \in BOOLEAN
      /\ left' \subseteq Workspaces /\ readers' \subseteq Readers
      /\ result' \in [Workspaces -> {"none", "sent", "unsent", "error"}]
      /\ deliveries' \subseteq Mailed /\ arrived' \subseteq Mailed
      /\ briefFaults' \in 0..MaxBriefFaults
      /\ at' \in {"idle", "next", "data", "cards", "experiments", "recipients", "send", "log", "alerts"}
  BY <1>2 DEF BriefInv, BriefTyped, AtWork
<1>4. AtWork => Here \in Day
  BY <1>1 DEF BriefTyped, Here, Day
<1>5. ASSUME Works \/ Fails \/ Fine \/ Fault, AtWork PROVE hurt' \subseteq Day
  BY <1>4, <1>5 DEF Works, Fails, Fine, Fault
<1> DEFINE Others == /\ briefed' \subseteq BriefDays /\ serving' \in Workspaces \cup {NoWorkspace}
                     /\ said' \in BOOLEAN /\ faulty' \subseteq built' /\ failed' \subseteq built'
                     /\ built' \subseteq Cards /\ addressed' \in Readers \cup {AnyReader}
                     /\ hurt' \subseteq Day /\ died' \subseteq BriefDays /\ alerted' \subseteq Day
                     /\ lost' \subseteq BriefDays
<1>6. Others
  <2>1. ASSUME NEW d \in BriefDays, StartJob(d) PROVE Others
    BY <2>1 DEF StartJob, turn, cards
  <2>2. ASSUME NextWorkspace PROVE Others
    BY <2>2 DEF NextWorkspace
  <2>3. ASSUME HasData PROVE Others
    BY <1>5, <2>3 DEF HasData, AtWork, turn, cards
  <2>4. ASSUME NEW k \in Cards, BuildCard(k) PROVE Others
    BY <1>5, <2>4 DEF BuildCard, AtWork
  <2>5. ASSUME ReadExperiments PROVE Others
    BY <1>5, <2>5 DEF ReadExperiments, AtWork
  <2>6. ASSUME BriefRecipients PROVE Others
    BY <1>5, <2>6 DEF BriefRecipients, AtWork, cards
  <2>7. ASSUME NEW to \in Readers, SendBrief(to) PROVE Others
    BY <1>5, <2>7 DEF SendBrief, AtWork, cards
  <2>8. ASSUME LogDelivery PROVE Others
    BY <1>5, <2>8 DEF LogDelivery, AtWork, cards
  <2>9. ASSUME Served PROVE Others
    BY <2>9 DEF Served, turn, cards
  <2>10. ASSUME EndJob PROVE Others
    <3>1. Unreached \X {morning} \subseteq Day
      BY <1>1 DEF BriefTyped, Unreached, Day
    <3>2. QED
      BY <2>10, <3>1 DEF EndJob, turn, cards
  <2>11. ASSUME WorkerDies PROVE Others
    BY <1>1, <2>11 DEF WorkerDies, turn, cards
  <2>12. ASSUME ConnectionLost PROVE Others
    BY <1>1, <2>12 DEF ConnectionLost, turn, cards
  <2>13. CASE UNCHANGED briefVars
    BY <2>13 DEF briefVars, turn, cards
  <2>14. QED
    BY <2>1, <2>2, <2>3, <2>4, <2>5, <2>6, <2>7, <2>8, <2>9, <2>10, <2>11, <2>12, <2>13
    DEF BriefNext
<1>7. QED
  BY <1>3, <1>6

\* The job of the morning keeps its types, whatever fails in it.
THEOREM BriefIsTyped == BriefSpec => []BriefTypeOK
<1>1. BriefInit => BriefTypeOK
  <2>1. SUFFICES ASSUME BriefInit PROVE BriefTypeOK
    OBVIOUS
  <2>2. briefFaults \in 0..MaxBriefFaults /\ result \in [Workspaces -> {"none", "sent", "unsent", "error"}]
    BY <2>1, BriefAssumption DEF BriefInit
  <2>3. QED
    BY <2>1, <2>2 DEF BriefInit, BriefTypeOK
<1>2. QED
  BY <1>1, BriefAtFirst, BriefInvStays, BriefTypesStay, PTL DEF BriefSpec

\* brief.py says of itself that one workspace's failure is not another's, that the
\* log is evidence and that silence is reported: of any number of workspaces,
\* readers and mornings, whatever fails and whenever the worker dies; the first but
\* for the connection that all of them share.
THEOREM BriefsAreAlwaysAccounted == BriefSpec => []BriefsAreAccounted
<1>1. BriefInv => BriefsAreAccounted
  BY RecordsAreEarned DEF BriefInv, BriefsAreAccounted
<1>2. QED
  BY <1>1, BriefAtFirst, BriefInvStays, PTL DEF BriefSpec

-----------------------------------------------------------------------------
(* Usage: counting runs of weeks, for any days of use.                     *)

\* A set of natural numbers has a least one.
LEMMA LeastExists ==
    ASSUME NEW S \in SUBSET Nat, S # {}
    PROVE  \E n \in S : \A m \in S : n <= m
<1> DEFINE R == OpToRel(<, Nat)
<1>1. IsWellFoundedOn(R, Nat)
  BY NatLessThanWellFounded
<1>2. \A x, y \in Nat : y < x => <<y, x>> \in R
  BY DEF OpToRel
<1> HIDE DEF R
<1>3. PICK n \in S : \A y \in S : ~(<<y, n>> \in R)
  BY <1>1, WFMin, Zenon
<1>4. n \in Nat /\ \A m \in S : m \in Nat /\ ~(m < n)
  BY <1>2, <1>3
<1>5. \A m \in S : n <= m
  BY <1>4
<1>6. QED
  BY <1>5

\* A set of numbers with a bound has a greatest.
LEMMA GreatestExists ==
    ASSUME NEW S \in SUBSET Int, S # {}, NEW b \in Int, \A x \in S : x <= b
    PROVE  \E x \in S : \A y \in S : x >= y
<1> DEFINE N == {b - x : x \in S}
<1>1. N \in SUBSET Nat /\ N # {}
  <2>1. \A x \in S : b - x \in Nat
    OBVIOUS
  <2>2. QED
    BY <2>1
<1>2. PICK n \in N : \A m \in N : n <= m
  <2> HIDE DEF N
  <2> QED BY <1>1, LeastExists
<1>3. PICK x \in S : n = b - x
  BY <1>2
<1>4. \A y \in S : b - y \in N
  OBVIOUS
<1>5. \A y \in S : y \in Int /\ b - x <= b - y /\ x \in Int
  BY <1>2, <1>3, <1>4
<1>6. \A y \in S : x >= y
  BY <1>5
<1>7. QED
  BY <1>6

\* cur counts up over the members of G and starts again elsewhere.
CountsUp(cur, G) == cur = [w \in Int |-> IF w \notin G THEN 0 ELSE cur[w - 1] + 1]

\* What it comes to: at each number, how many before it, and including it, are in G.
Counted(cur, G) ==
    \A w \in Int : /\ cur[w] \in Nat
                   /\ w - cur[w] \notin G
                   /\ \A u \in Int : w - cur[w] < u /\ u <= w => u \in G

\* The loop can be run: over a set with a first member.
LEMMA CountExists ==
    ASSUME NEW G \in SUBSET Int, NEW a \in Int, \A w \in G : w >= a
    PROVE  \E cur : CountsUp(cur, G)
<1> DEFINE Before(w) == {u \in Int : u <= w /\ u \notin G}
           last(w) == CHOOSE u \in Before(w) : \A v \in Before(w) : u >= v
           it == [w \in Int |-> w - last(w)]
<1>1. ASSUME NEW w \in Int
      PROVE  last(w) \in Before(w) /\ \A v \in Before(w) : last(w) >= v
  <2>1. Before(w) \in SUBSET Int /\ \A u \in Before(w) : u <= w
    OBVIOUS
  <2>2. Before(w) # {}
    <3>1. CASE w < a
      BY <3>1
    <3>2. CASE w >= a
      <4>1. a - 1 \in Before(w)
        BY <3>2
      <4>2. QED
        BY <4>1
    <3>3. QED
      BY <3>1, <3>2
  <2>3. \E u \in Before(w) : \A v \in Before(w) : u >= v
    <3> HIDE DEF Before
    <3> QED BY <2>1, <2>2, GreatestExists
  <2>4. QED
    BY <2>3
<1>2. ASSUME NEW w \in Int, w \notin G PROVE it[w] = 0
  <2>1. w \in Before(w)
    BY <1>2
  <2>2. last(w) = w
    BY <1>1, <2>1
  <2>3. it[w] = w - last(w)
    OBVIOUS
  <2> HIDE DEF it, last
  <2>4. QED
    BY <2>2, <2>3
<1>3. ASSUME NEW w \in Int, w \in G PROVE it[w] = it[w - 1] + 1
  <2>1. Before(w) = Before(w - 1)
    BY <1>3
  <2>2. last(w) = last(w - 1)
    BY <2>1
  <2>3. last(w - 1) \in Int /\ w - 1 \in Int
    BY <1>1
  <2>4. it[w] = w - last(w) /\ it[w - 1] = (w - 1) - last(w - 1)
    BY <2>3
  <2> HIDE DEF it, last
  <2>5. QED
    BY <2>2, <2>3, <2>4
<1>4. it = [w \in Int |-> IF w \notin G THEN 0 ELSE it[w - 1] + 1]
  <2>1. it = [w \in Int |-> it[w]]
    OBVIOUS
  <2> HIDE DEF it
  <2>2. \A w \in Int : it[w] = IF w \notin G THEN 0 ELSE it[w - 1] + 1
    BY <1>2, <1>3
  <2>3. QED
    BY <2>1, <2>2
<1> HIDE DEF it
<1>5. QED
  BY <1>4 DEF CountsUp

\* However it is run, it counts.
LEMMA CountIs ==
    ASSUME NEW G \in SUBSET Int, NEW a \in Int, \A w \in G : w >= a, NEW cur, CountsUp(cur, G)
    PROVE  Counted(cur, G)
<1> DEFINE P(w) == /\ cur[w] \in Nat
                   /\ w - cur[w] \notin G
                   /\ \A u \in Int : w - cur[w] < u /\ u <= w => u \in G
           B == {n \in Nat : ~P(a + n)}
<1>1. \A w \in Int : cur[w] = IF w \notin G THEN 0 ELSE cur[w - 1] + 1
  BY DEF CountsUp
<1>2. \A w \in Int : w \notin G => P(w)
  BY <1>1
<1>3. ASSUME NEW w \in Int, w \in G, P(w - 1) PROVE P(w)
  <2>1. w - 1 \in Int /\ cur[w] = cur[w - 1] + 1 /\ cur[w - 1] \in Nat
    BY <1>1, <1>3
  <2>2. w - cur[w] = (w - 1) - cur[w - 1]
    BY <2>1
  <2>3. \A u \in Int : w - cur[w] < u /\ u <= w => u = w \/ u <= w - 1
    OBVIOUS
  <2>4. QED
    BY <1>3, <2>1, <2>2, <2>3
<1>4. SUFFICES ASSUME NEW w \in Int, ~P(w) PROVE FALSE
  BY DEF Counted
<1>5. w \in G /\ w - a \in Nat /\ a + (w - a) = w
  BY <1>2, <1>4
<1>6. B \in SUBSET Nat /\ B # {}
  BY <1>4, <1>5
<1>7. PICK n \in B : \A m \in B : n <= m
  <2> HIDE DEF B
  <2> QED BY <1>6, LeastExists
<1>8. a + n \in Int /\ ~P(a + n) /\ a + n \in G
  BY <1>2, <1>7
<1>9. P(a + n - 1)
  <2>1. CASE n = 0
    <3>1. a + n - 1 \notin G /\ a + n - 1 \in Int
      BY <2>1
    <3>2. QED
      BY <1>2, <3>1
  <2>2. CASE n # 0
    <3>1. n - 1 \in Nat /\ ~(n <= n - 1) /\ a + (n - 1) = a + n - 1
      BY <1>7, <2>2
    <3>2. n - 1 \notin B
      BY <1>7, <3>1
    <3>3. P(a + (n - 1))
      BY <3>1, <3>2
    <3>4. QED
      BY <3>1, <3>3
  <2>3. QED
    BY <2>1, <2>2
<1>10. QED
  BY <1>3, <1>8, <1>9

\* When only members at the beginning of G are lost, a count stands unless it
\* goes back to there.
LEMMA CountStands ==
    ASSUME NEW G \in SUBSET Int, NEW H \in SUBSET G, NEW s \in Int, NEW c, NEW d,
           Counted(c, G), Counted(d, H), \A g \in G : g >= s /\ (g # s => g \in H), NEW w \in Int
    PROVE  d[w] = c[w] \/ w + 1 - c[w] = s
<1>1. c[w] \in Nat /\ w - c[w] \notin G /\ \A u \in Int : w - c[w] < u /\ u <= w => u \in G
  BY DEF Counted
<1>2. d[w] \in Nat /\ w - d[w] \notin H /\ \A u \in Int : w - d[w] < u /\ u <= w => u \in H
  BY DEF Counted
<1>3. ~(d[w] > c[w])
  <2> SUFFICES ASSUME d[w] > c[w] PROVE FALSE
    OBVIOUS
  <2>1. w - c[w] \in Int /\ w - d[w] < w - c[w] /\ w - c[w] <= w
    BY <1>1, <1>2
  <2>2. QED
    BY <1>1, <1>2, <2>1
<1>4. ASSUME d[w] < c[w] PROVE w + 1 - c[w] = s
  <2>1. w - d[w] \in Int /\ w - c[w] < w - d[w] /\ w - d[w] <= w
    BY <1>1, <1>2, <1>4
  <2>2. w - d[w] = s
    BY <1>1, <1>2, <2>1
  <2>3. w + 1 - c[w] \in Int /\ w - c[w] < w + 1 - c[w] /\ w + 1 - c[w] <= w - d[w]
    BY <1>1, <1>2, <1>4
  <2>4. w + 1 - c[w] \in G
    BY <1>1, <2>1, <2>3
  <2>5. QED
    BY <2>2, <2>3, <2>4
<1>5. QED
  BY <1>1, <1>2, <1>3, <1>4

\* The weeks before this one with days enough.
GoodWeeks == {w \in Int : w < Week(date_now) /\ Qualifies(w)}

UsageInv ==
    /\ UsageTypeOK
    /\ usage_events = visited
    /\ _seen # {} => date_now \in usage_events

\* Weeks are numbered in the order of their days.
LEMMA WeekIs ==
    ASSUME NEW d \in Int, NEW e \in Int
    PROVE  /\ Week(d) \in Int
           /\ d <= e => Week(d) <= Week(e)
           /\ d >= 0 => Week(d) >= 0
BY UsageAssumption DEF Week

\* The days that are counted.
LEMMA ActiveAre ==
    ASSUME UsageTypeOK
    PROVE  /\ date_now \in Nat /\ since \in Int
           /\ active_days \in SUBSET Nat /\ IsFiniteSet(active_days)
           /\ \A d \in active_days : since <= d /\ d <= date_now
<1>1. date_now \in Nat /\ since \in Int
  BY UsageAssumption DEF UsageTypeOK, since
<1>2. active_days \in SUBSET (0..date_now)
  BY DEF UsageTypeOK, active_days
<1>3. IsFiniteSet(0..date_now)
  BY <1>1, FS_Interval
<1>4. IsFiniteSet(active_days)
  BY <1>2, <1>3, FS_Subset
<1>5. QED
  BY <1>1, <1>2, <1>4 DEF active_days

\* A week with days enough has one, so it lies between the first day and this one.
LEMMA GoodWeeksAre ==
    ASSUME UsageTypeOK, NEW w \in Int, Qualifies(w)
    PROVE  /\ active_days # {} /\ Week(Min(active_days)) \in Int /\ Week(Min(active_days)) <= w
           /\ w \in Nat /\ w >= Week(since) /\ w <= Week(date_now)
<1> DEFINE D == {d \in active_days : Week(d) = w}
<1>1. IsFiniteSet(D) /\ Cardinality(D) >= 1
  <2>1. D \in SUBSET active_days /\ Cardinality(D) >= min_days /\ min_days \in Nat /\ min_days >= 1
    BY UsageAssumption DEF Qualifies
  <2> HIDE DEF D
  <2>2. IsFiniteSet(D) /\ Cardinality(D) \in Nat
    BY <2>1, ActiveAre, FS_Subset, FS_CardinalityType
  <2>3. QED
    BY <2>1, <2>2
<1>2. D # {}
  <2> HIDE DEF D
  <2> QED BY <1>1, FS_EmptySet
<1>3. PICK d \in active_days : Week(d) = w
  BY <1>2
<1>4. d \in Nat /\ since <= d /\ d <= date_now /\ date_now \in Nat /\ since \in Int
  BY <1>3, ActiveAre
<1>5. Min(active_days) \in active_days /\ \A e \in active_days : Min(active_days) <= e
  <2>1. \E n \in active_days : \A m \in active_days : n <= m
    BY <1>3, ActiveAre, LeastExists
  <2>2. QED
    BY <2>1 DEF Min
<1>6. Min(active_days) \in Int /\ Min(active_days) <= d
  BY <1>3, <1>5, ActiveAre
<1>7. QED
  BY <1>3, <1>4, <1>6, WeekIs

\* The loop over the complete weeks counts the good ones.
LEMMA CounterIs == UsageTypeOK => Counted(Counter, GoodWeeks)
<1> SUFFICES ASSUME UsageTypeOK PROVE Counted(Counter, GoodWeeks)
  OBVIOUS
<1>1. \A w \in Int : w \in GoodWeeks <=> w \in complete /\ Qualifies(w)
  <2> TAKE w \in Int
  <2>1. ASSUME w \in GoodWeeks PROVE w \in complete /\ Qualifies(w)
    <3>1. Qualifies(w) /\ w < Week(date_now) /\ Week(date_now) \in Int
      BY <2>1, WeekIs, ActiveAre DEF GoodWeeks
    <3>2. active_days # {} /\ Week(Min(active_days)) \in Int /\ Week(Min(active_days)) <= w
      BY <3>1, GoodWeeksAre
    <3>3. QED
      BY <3>1, <3>2 DEF complete
  <2>2. ASSUME w \in complete, Qualifies(w) PROVE w \in GoodWeeks
    <3>1. w < Week(date_now)
      <4>1. active_days # {} /\ w \in Week(Min(active_days))..Week(date_now) - 1
        BY <2>2 DEF complete
      <4>2. Week(date_now) \in Int
        BY WeekIs, ActiveAre
      <4>3. w <= Week(date_now) - 1
        BY <4>1
      <4>4. QED
        BY <4>2, <4>3
    <3>2. QED
      BY <2>2, <3>1 DEF GoodWeeks
  <2>3. QED
    BY <2>1, <2>2
<1>2. GoodWeeks \in SUBSET Int /\ \A w \in GoodWeeks : w >= 0
  BY GoodWeeksAre DEF GoodWeeks
<1>3. Counter = CHOOSE cur : cur = [w \in Int |-> IF w \notin complete \/ ~Qualifies(w) THEN 0 ELSE cur[w - 1] + 1]
  BY DEF Counter
<1>4. \E cur : CountsUp(cur, GoodWeeks)
  BY <1>2, CountExists
<1>5. ASSUME NEW cur
      PROVE  cur = [w \in Int |-> IF w \notin complete \/ ~Qualifies(w) THEN 0 ELSE cur[w - 1] + 1]
                <=> CountsUp(cur, GoodWeeks)
  BY <1>1 DEF CountsUp
<1>6. CountsUp(Counter, GoodWeeks)
  BY <1>3, <1>4, <1>5
<1>7. 0 \in Int
  OBVIOUS
<1> HIDE DEF GoodWeeks
<1>8. QED
  BY <1>2, <1>6, <1>7, CountIs

\* The longest count is the longest run by the stated rule.
LEMMA RunsAre ==
    ASSUME UsageTypeOK
    PROVE  /\ best_run_weeks = Max({Cardinality(r) : r \in Runs})
           /\ best_run_weeks \in Nat /\ \E r \in Runs : Cardinality(r) = best_run_weeks
           /\ \A r \in Runs : Cardinality(r) \in Nat /\ Cardinality(r) <= best_run_weeks
<1> DEFINE W == Week(date_now)
           L == Week(LastDate)
           S == {Counter[w] : w \in complete} \cup {0}
           T == {Cardinality(r) : r \in Runs}
<1>1. W \in Nat /\ L \in Nat /\ W <= L
  BY UsageAssumption, WeekIs DEF UsageTypeOK
<1>2. complete \in SUBSET (0..W - 1)
  <2> SUFFICES ASSUME NEW w \in complete PROVE w \in 0..W - 1
    OBVIOUS
  <2>1. active_days # {} /\ w \in Week(Min(active_days))..W - 1
    BY DEF complete
  <2>2. Min(active_days) \in active_days
    <3>1. \E n \in active_days : \A m \in active_days : n <= m
      BY <2>1, ActiveAre, LeastExists
    <3>2. QED
      BY <3>1 DEF Min
  <2>3. Week(Min(active_days)) \in Int /\ Week(Min(active_days)) >= 0
    BY <2>2, ActiveAre, WeekIs
  <2> HIDE DEF W
  <2>4. QED
    BY <1>1, <2>1, <2>3
<1>3. \A w \in Int : /\ Counter[w] \in Nat /\ w - Counter[w] \notin GoodWeeks
                     /\ \A u \in Int : w - Counter[w] < u /\ u <= w => u \in GoodWeeks
  BY CounterIs DEF Counted
<1>4. \A w \in GoodWeeks : w \in Nat /\ w < W /\ Qualifies(w)
  BY GoodWeeksAre DEF GoodWeeks
<1>5. \A w \in 0..L : w < W /\ Qualifies(w) => w \in GoodWeeks /\ w \in complete
  <2> SUFFICES ASSUME NEW w \in 0..L, w < W, Qualifies(w) PROVE w \in GoodWeeks /\ w \in complete
    OBVIOUS
  <2>1. active_days # {} /\ Week(Min(active_days)) \in Int /\ Week(Min(active_days)) <= w
    BY GoodWeeksAre
  <2>2. w \in Week(Min(active_days))..W - 1
    <3> HIDE DEF W
    <3> QED BY <1>1, <2>1
  <2>3. QED
    BY <2>1, <2>2 DEF complete, GoodWeeks
<1>6. ASSUME NEW w \in complete
      PROVE  Counter[w] \in T /\ Counter[w] <= W
  <2> DEFINE k == Counter[w]
             r == w - k + 1..w
  <2>1. w \in Int /\ 0 <= w /\ w <= W - 1 /\ k \in Nat
    <3> HIDE DEF W
    <3> QED BY <1>1, <1>2, <1>3
  <2>2. \A u \in r : u \in GoodWeeks
    BY <1>3, <2>1
  <2>3. 0 <= w - k + 1 /\ w - k + 1 <= w + 1
    <3>1. CASE k = 0
      BY <2>1, <3>1
    <3>2. CASE k # 0
      <4>1. w - k + 1 \in r
        BY <2>1, <3>2
      <4>2. w - k + 1 \in Nat
        BY <1>4, <2>2, <4>1
      <4>3. QED
        BY <2>1, <4>2
    <3>3. QED
      BY <3>1, <3>2
  <2>4. w - k + 1 \in 0..L /\ w \in -1..L
    <3> HIDE DEF W, L
    <3> QED BY <1>1, <2>1, <2>3
  <2>5. r \in Runs
    BY <1>4, <2>2, <2>4 DEF Runs
  <2>6. Cardinality(r) = k
    BY <2>1, FS_Interval
  <2>7. k <= W
    <3> HIDE DEF W
    <3> QED BY <1>1, <2>1, <2>3
  <2>8. QED
    BY <2>5, <2>6, <2>7
<1>7. {} \in Runs /\ Cardinality({}) = 0
  <2>1. 0..-1 = {} /\ 0 \in 0..L /\ -1 \in -1..L
    BY <1>1
  <2>2. QED
    BY <2>1, FS_EmptySet DEF Runs
<1>8. ASSUME NEW r \in Runs
      PROVE  Cardinality(r) \in Nat /\ \E k \in S : Cardinality(r) <= k
  <2>1. PICK v \in 0..L, w \in -1..L : r = v..w
    BY DEF Runs
  <2>2. \A u \in r : u < W /\ Qualifies(u)
    BY DEF Runs
  <2>3. v \in Int /\ w \in Int /\ v >= 0 /\ w <= L
    BY <1>1, <2>1
  <2>4. Cardinality(r) = IF v > w THEN 0 ELSE w - v + 1
    BY <2>1, <2>3, FS_Interval
  <2>5. CASE v > w
    BY <2>4, <2>5
  <2>6. CASE ~(v > w)
    <3>1. w \in r /\ w \in 0..L
      BY <1>1, <2>1, <2>3, <2>6
    <3>2. w \in complete
      BY <1>5, <2>2, <3>1
    <3>3. Counter[w] \in Nat /\ w - Counter[w] \notin GoodWeeks
      BY <1>3, <2>3
    <3>4. w - Counter[w] \notin r
      <4> SUFFICES ASSUME w - Counter[w] \in r PROVE FALSE
        OBVIOUS
      <4>1. w - Counter[w] \in 0..L
        BY <1>1, <2>1, <2>3, <3>3
      <4>2. QED
        BY <1>5, <2>2, <3>3, <4>1
    <3>5. w - Counter[w] < v
      BY <2>1, <2>3, <3>3, <3>4
    <3>6. Cardinality(r) \in Nat /\ Cardinality(r) <= Counter[w]
      BY <2>3, <2>4, <2>6, <3>3, <3>5
    <3>7. QED
      BY <3>2, <3>6
  <2>7. QED
    BY <2>5, <2>6
<1>9. W \in Int /\ S \in SUBSET Int /\ S # {} /\ (\A k \in S : k <= W) /\ S \subseteq T /\ 0 \in S
  BY <1>1, <1>2, <1>3, <1>6, <1>7
<1>10. best_run_weeks = Max(S)
  BY DEF best_run_weeks
<1> HIDE DEF S, W, L
<1>11. Max(S) \in S /\ \A k \in S : Max(S) >= k
  <2>1. \E x \in S : \A y \in S : x >= y
    BY <1>9, GreatestExists, Zenon
  <2>2. QED
    BY <2>1 DEF Max
<1>12. T \in SUBSET Nat /\ Max(S) \in T /\ \A t \in T : t <= Max(S)
  <2>1. \A k \in S : k \in Int /\ k <= Max(S)
    BY <1>9, <1>11
  <2>2. \A r \in Runs : Cardinality(r) \in Nat /\ Cardinality(r) <= Max(S)
    BY <1>8, <2>1, <1>11
  <2>3. QED
    BY <1>9, <1>11, <2>2
<1>13. Max(T) = Max(S)
  <2> HIDE DEF T
  <2>1. \E x \in T : \A y \in T : x >= y
    BY <1>12
  <2>2. Max(T) \in T /\ \A y \in T : Max(T) >= y
    BY <2>1 DEF Max
  <2>3. Max(T) >= Max(S) /\ Max(T) <= Max(S) /\ Max(T) \in Nat /\ Max(S) \in Nat
    BY <1>12, <2>2
  <2>4. QED
    BY <2>3
<1>14. QED
  BY <1>10, <1>12, <1>13

\* So every day of use counts.
LEMMA EveryDayIsCounted == UsageInv => EveryDayCounts
<1> SUFFICES ASSUME UsageInv PROVE EveryDayCounts
  OBVIOUS
<1> DEFINE best == best_run_weeks
<1>1. /\ best = Max({Cardinality(r) : r \in Runs})
      /\ best \in Nat /\ \E r \in Runs : Cardinality(r) = best
      /\ \A r \in Runs : Cardinality(r) \in Nat /\ Cardinality(r) <= best
  BY RunsAre DEF UsageInv
<1> HIDE DEF best
<1>2. \A r \in Runs : Cardinality(r) * WEEK_DAYS <= best * WEEK_DAYS
  <2> SUFFICES ASSUME NEW r \in Runs PROVE Cardinality(r) * WEEK_DAYS <= best * WEEK_DAYS
    OBVIOUS
  <2> DEFINE n == Cardinality(r)
  <2>1. n \in Nat /\ best \in Nat /\ n <= best /\ WEEK_DAYS \in Nat
    BY <1>1, UsageAssumption
  <2> HIDE DEF n
  <2>2. best = n + (best - n) /\ best - n \in Nat /\ (best - n) * WEEK_DAYS >= 0
    BY <2>1
  <2>3. best * WEEK_DAYS = n * WEEK_DAYS + (best - n) * WEEK_DAYS
    BY <2>1
  <2>4. n * WEEK_DAYS <= best * WEEK_DAYS
    BY <2>1, <2>2, <2>3
  <2>5. QED
    BY <2>4 DEF n
<1>3. meets_60_days <=> best * WEEK_DAYS >= RUN_DAYS
  BY DEF meets_60_days, best
<1>4. meets_60_days <=> \E r \in Runs : Cardinality(r) * WEEK_DAYS >= RUN_DAYS
  <2>1. best * WEEK_DAYS \in Int /\ RUN_DAYS \in Int /\ \A r \in Runs : Cardinality(r) * WEEK_DAYS \in Int
    BY <1>1, UsageAssumption
  <2>2. QED
    BY <1>1, <1>2, <1>3, <2>1
<1>5. QED
  BY <1>1, <1>4 DEF EveryDayCounts, UsageInv, best

LEMMA UsageAtFirst == UsageInit => UsageInv
BY UsageAssumption DEF UsageInit, UsageInv, UsageTypeOK

LEMMA UsageStays == UsageInv /\ [UsageNext]_usageVars => UsageInv'
<1> SUFFICES ASSUME UsageInv, [UsageNext]_usageVars PROVE UsageInv'
  OBVIOUS
<1> USE DEF UsageInv, UsageTypeOK
<1>1. ASSUME NEW p \in ApiProcesses, Visit(p) PROVE UsageInv'
  <2>1. date_now \in 0..date_now
    BY UsageAssumption
  <2>2. CASE p \in _seen
    BY <1>1, <2>1, <2>2 DEF Visit
  <2>3. CASE p \notin _seen
    BY <1>1, <2>1, <2>3 DEF Visit
  <2>4. QED
    BY <2>2, <2>3
<1>2. ASSUME NEW p \in ApiProcesses, VisitUnrecorded(p) PROVE UsageInv'
  BY <1>2 DEF VisitUnrecorded, usageVars
<1>3. ASSUME NEW p \in ApiProcesses, Forgets(p) PROVE UsageInv'
  BY <1>3 DEF Forgets
<1>4. ASSUME Tomorrow PROVE UsageInv'
  BY <1>4, UsageAssumption DEF Tomorrow
<1>5. ASSUME UNCHANGED usageVars PROVE UsageInv'
  BY <1>5 DEF usageVars
<1>6. QED
  BY <1>1, <1>2, <1>3, <1>4, <1>5 DEF UsageNext

\* A new day takes from the good weeks none but that in which the window began.
LEMMA DaysLeaveOneByOne ==
    ASSUME UsageTypeOK, UsageTypeOK', Tomorrow, Week(date_now') = Week(date_now)
    PROVE  /\ GoodWeeks' \in SUBSET GoodWeeks
           /\ \A w \in GoodWeeks : w >= Week(since) /\ (w # Week(since) => w \in GoodWeeks')
<1>1. date_now' = date_now + 1 /\ usage_events' = usage_events /\ Week(date_now)' = Week(date_now)
  BY DEF Tomorrow, Week
<1>2. date_now \in Nat /\ since \in Int /\ since' = since + 1 /\ \A d \in usage_events : d \in Int
  BY <1>1, UsageAssumption, ActiveAre DEF since, UsageTypeOK
<1>3. active_days' = active_days \ {since}
  BY <1>1, <1>2 DEF active_days
<1> DEFINE Of(w) == {d \in active_days : Week(d) = w}
           Then(w) == {d \in active_days' : Week(d) = w}
<1>4. ASSUME NEW w \in Int
      PROVE  /\ Qualifies(w) <=> Cardinality(Of(w)) >= min_days
             /\ Qualifies(w)' <=> Cardinality(Then(w)) >= min_days
             /\ Then(w) \in SUBSET Of(w) /\ (w # Week(since) => Then(w) = Of(w))
  <2>1. (Qualifies(w) <=> Cardinality(Of(w)) >= min_days) /\ (Qualifies(w)' <=> Cardinality(Then(w)) >= min_days)
    BY DEF Qualifies, Week
  <2>2. QED
    BY <1>3, <2>1
<1>5. ASSUME NEW w \in Int
      PROVE  /\ Qualifies(w)' => Qualifies(w)
             /\ w # Week(since) /\ Qualifies(w) => Qualifies(w)'
  <2>1. IsFiniteSet(Of(w)) /\ Of(w) \in SUBSET active_days
    BY ActiveAre, FS_Subset
  <2> HIDE DEF Of, Then
  <2>2. Cardinality(Then(w)) <= Cardinality(Of(w)) /\ Cardinality(Then(w)) \in Nat /\ Cardinality(Of(w)) \in Nat
    BY <1>4, <2>1, FS_Subset, FS_CardinalityType
  <2>3. min_days \in Nat
    BY UsageAssumption
  <2>4. QED
    BY <1>4, <2>2, <2>3
<1>6. \A w : /\ w \in GoodWeeks <=> w \in Int /\ w < Week(date_now) /\ Qualifies(w)
             /\ w \in GoodWeeks' <=> w \in Int /\ w < Week(date_now) /\ Qualifies(w)'
  BY <1>1 DEF GoodWeeks
<1>7. \A w \in GoodWeeks : w >= Week(since)
  BY <1>6, GoodWeeksAre
<1>8. QED
  BY <1>5, <1>6, <1>7

\* So the run of the weeks before this one stands until the window takes from it.
LEMMA RunStands ==
    ASSUME UsageInv, UsageInv', [UsageNext]_usageVars, Counted(Counter, GoodWeeks)'
    PROVE  RunOutlastsTheDay
<1> SUFFICES ASSUME date_now' = date_now + 1, Week(date_now') = Week(date_now)
             PROVE  \/ current_run_weeks' = current_run_weeks
                    \/ Week(date_now) - current_run_weeks = Week(since)
  BY DEF RunOutlastsTheDay
<1>1. date_now \in Nat /\ since \in Int
  BY ActiveAre DEF UsageInv
<1>2. Tomorrow
  BY <1>1 DEF UsageNext, Visit, VisitUnrecorded, Forgets, usageVars
<1>3. /\ GoodWeeks' \in SUBSET GoodWeeks
      /\ \A w \in GoodWeeks : w >= Week(since) /\ (w # Week(since) => w \in GoodWeeks')
  BY <1>2, DaysLeaveOneByOne DEF UsageInv
<1>4. Counted(Counter, GoodWeeks) /\ Counted(Counter', GoodWeeks')
  BY CounterIs DEF UsageInv, Counted
<1> DEFINE w == Week(date_now) - 1
<1>5. w \in Int /\ Week(since) \in Int /\ GoodWeeks \in SUBSET Int /\ Week(date_now) \in Int
  BY <1>1, WeekIs DEF GoodWeeks
<1>6. current_run_weeks = Counter[w] /\ current_run_weeks' = Counter'[w]
  BY DEF current_run_weeks, Week
<1>7. Counter'[w] = Counter[w] \/ w + 1 - Counter[w] = Week(since)
  <2> HIDE DEF w
  <2> QED BY <1>3, <1>4, <1>5, CountStands
<1>8. Counter[w] \in Nat
  BY <1>4, <1>5 DEF Counted
<1>9. w + 1 - Counter[w] = Week(date_now) - Counter[w]
  BY <1>5, <1>8
<1>10. QED
  BY <1>6, <1>7, <1>9

\* usage.py calls itself evidence: for any days of use, lengths of the week, the
\* window and the target, every day on which a request was served counts, the run
\* is the longest by the stated rule, and the week under way never breaks it.
THEOREM UsageIsAlwaysEvidence == UsageSpec => UsageIsEvidence
<1>1. UsageInv => Counted(Counter, GoodWeeks)
  BY CounterIs DEF UsageInv
<1>2. UsageInv /\ UsageInv' /\ [UsageNext]_usageVars /\ Counted(Counter, GoodWeeks)' => RunOutlastsTheDay
  BY RunStands
<1>3. QED
  BY <1>1, <1>2, UsageAtFirst, UsageStays, EveryDayIsCounted, PTL DEF UsageSpec, UsageIsEvidence

-----------------------------------------------------------------------------
(* The office: a step of it is a step of one part, or of none.             *)

LEMMA PartsStart ==
    Init => /\ LadderInit /\ FlagsInit /\ ExperimentsInit /\ TokensInit /\ FullSyncInit /\ AlertsInit
            /\ InboxInit /\ BriefInit /\ HeartbeatInit /\ MemoryInit /\ AskingInit /\ UsageInit
            /\ part \in Parts
BY DEF Init

\* Where one part moves the others rest.
LEMMA PartsStep ==
    ASSUME [Next]_allVars, part \in Parts
    PROVE  /\ [NextDay]_ladderVars /\ [FlagsNext]_flagVars /\ [ExperimentsNext]_expVars
           /\ [TokensNext]_tokenVars /\ [FullSyncNext]_fullSyncVars /\ [AlertsNext]_alertVars
           /\ [InboxNext]_inboxVars /\ [BriefNext]_briefVars /\ [HeartbeatNext]_beatVars
           /\ [MemoryNext]_memoryVars /\ [AskingNext]_askVars /\ [UsageNext]_usageVars
           /\ part' = part
<1>1. CASE Next
  <2>1. /\ part = "ladder" => NextDay
        /\ part = "flags" => FlagsNext
        /\ part = "log" => ExperimentsNext
        /\ part = "tokens" => TokensNext
        /\ part = "full" => FullSyncNext
        /\ part = "alerts" => AlertsNext
        /\ part = "inbox" => InboxNext
        /\ part = "brief" => BriefNext
        /\ part = "beat" => HeartbeatNext
        /\ part = "memory" => MemoryNext
        /\ part = "ask" => AskingNext
        /\ part = "usage" => UsageNext
    BY <1>1 DEF Next
  <2>2. /\ part # "ladder" => UNCHANGED ladderVars
        /\ part # "flags" => UNCHANGED flagVars
        /\ part # "log" => UNCHANGED expVars
        /\ part # "tokens" => UNCHANGED tokenVars
        /\ part # "full" => UNCHANGED fullSyncVars
        /\ part # "alerts" => UNCHANGED alertVars
        /\ part # "inbox" => UNCHANGED inboxVars
        /\ part # "brief" => UNCHANGED briefVars
        /\ part # "beat" => UNCHANGED beatVars
        /\ part # "memory" => UNCHANGED memoryVars
        /\ part # "ask" => UNCHANGED askVars
        /\ part # "usage" => UNCHANGED usageVars
        /\ part' = part
    BY <1>1 DEF Next, Rest
  <2>3. QED
    BY <2>1, <2>2
<1>2. CASE UNCHANGED allVars
  BY <1>2 DEF allVars
<1>3. QED
  BY <1>1, <1>2

\* Each part behaves as its own specification says, in an office of whatever
\* parts: what is proved of a part on its own holds there.
THEOREM PartsKeepTheirSpecs ==
    Spec => /\ LadderSpec /\ FlagsSpec /\ ExperimentsSpec /\ TokensSpec /\ FullSyncSpec /\ AlertsSpec
            /\ InboxSpec /\ BriefSpec /\ HeartbeatSpec /\ MemorySpec /\ AskingSpec /\ UsageSpec
            /\ [](part \in Parts)
<1>1. part \in Parts /\ [Next]_allVars => (part \in Parts)'
  BY PartsStep
<1>2. QED
  BY <1>1, PartsStart, PartsStep, PTL
  DEF Spec, LadderSpec, FlagsSpec, ExperimentsSpec, TokensSpec, FullSyncSpec, AlertsSpec,
      InboxSpec, BriefSpec, HeartbeatSpec, MemorySpec, AskingSpec, UsageSpec

\* The state of the office keeps its type, whichever part moves.
THEOREM OfficeIsTyped == Spec => []TypeOK
<1>1. /\ LadderInv /\ FlagsInv /\ ExpInv /\ TokensInv /\ FullSyncTyped /\ AlertsTypeOK /\ InboxTyped
      /\ BriefTypeOK /\ BeatInv /\ MemoryTypeOK /\ AskingTypeOK /\ UsageInv
      => TypeOK
  BY DEF TypeOK, LadderInv, FlagsInv, ExpInv, TokensInv, FullSyncTyped, InboxTyped, BeatInv, UsageInv
<1>2. LadderSpec => []LadderInv
  <2>1. LadderInit => LadderInv
    BY LadderDaysAssumption DEF LadderInit, LadderInv
  <2>2. LadderInv /\ [NextDay]_ladderVars => LadderInv'
    BY LadderDaysAssumption DEF LadderInv, NextDay, ladderVars
  <2>3. QED
    BY <2>1, <2>2, PTL DEF LadderSpec
<1>3. FlagsSpec => []FlagsInv
  BY FlagsAtFirst, FlagsInvStays, PTL DEF FlagsSpec
<1>4. ExperimentsSpec => []ExpInv
  BY ExperimentsAtFirst, ExpInvStays, PTL DEF ExperimentsSpec
<1>5. TokensSpec => []TokensInv
  BY TokensAtFirst, TokensStay, PTL DEF TokensSpec
<1>6. HeartbeatSpec => []BeatInv
  BY BeatAtFirst, BeatInvStays, PTL DEF HeartbeatSpec
<1>7. UsageSpec => []UsageInv
  BY UsageAtFirst, UsageStays, PTL DEF UsageSpec
<1>8. QED
  BY <1>1, <1>2, <1>3, <1>4, <1>5, <1>6, <1>7, PartsKeepTheirSpecs, FullSyncIsTyped,
     AlertsAreTyped, InboxIsTyped, BriefIsTyped, MemoryIsTyped, AskingIsTyped, PTL
=============================================================================
