-------------------------------- MODULE Pulse --------------------------------
(***************************************************************************)
(* The Today page, the brief and the experiments' figures: schema/pulse.py *)
(* reads the books (Figures) and the daily copies of the receivables,      *)
(* pulse_cards.py makes cards of it, strategy.py suggestions, metrics.py   *)
(* and outcomes.py judge what came of them.  Money is whole, a percentage  *)
(* is cut to a whole number, and a customer is always named.               *)
(***************************************************************************)
EXTENDS Figures

CONSTANTS
    WEEK,          \* days in a week
    weeks_baseline,
    window_days, Enough_history,   \* of copies: read, and before they are history
    top_n, MAX_MOVERS,             \* LIMITs of the lists
    REORDER_MIN_ORDERS, REORDER_MAX_MEDIAN_GAP,
    MAX_INVOICES_PULSE, Enough_payments, Enough_of_each, MIN_SLOWER,
    MIN_DEAD_STOCK, MIN_DRIFT, MIN_CUSTOMER_OUTSTANDING, Old_overdue, CONCENTRATION_ALARM_PCT,
    DEFAULT_TARGET_IMPROVEMENT_PCT, NOISE_FLOOR_PCT,
    BRIEF_MIN_SEVERITY, BRIEF_MAX_CARDS,
    Readings       \* bound: the figures a verdict is tried on

ASSUME PulseAssumption ==
    /\ WEEK \in Nat \ {0} /\ weeks_baseline \in Nat \ {0}
    /\ window_days \in Nat /\ top_n \in Nat \ {0} /\ MAX_MOVERS \in Nat \ {0}
    /\ REORDER_MIN_ORDERS \in Nat /\ REORDER_MIN_ORDERS > 1
    /\ MIN_DEAD_STOCK \in Nat /\ MIN_CUSTOMER_OUTSTANDING \in Nat \ {0}
    /\ CONCENTRATION_ALARM_PCT \in Nat \ {0}
    /\ DEFAULT_TARGET_IMPROVEMENT_PCT \in Nat \ {0} /\ NOISE_FLOOR_PCT \in Nat \ {0}
    /\ BRIEF_MIN_SEVERITY \in 0..60 /\ BRIEF_MAX_CARDS \in Nat /\ BRIEF_MAX_CARDS >= 4
    /\ Readings \subseteq Int

pct(part, whole) == IF whole = 0 THEN 0 ELSE (100 * part) \div whole
Of(rows, c)      == {r \in rows : r.party = c}

\* A FULL OUTER JOIN of two lists of parties.
Parties_of_either(a, b) == Parties(a) \cup Parties(b)

-----------------------------------------------------------------------------
(* The daily copies. *)

snapshot_dates  == {s.on : s \in snaps}
On(d)           == {s \in snaps : s.on = d}
nearest_snapshot(target) ==
    LET older == {d \in snapshot_dates : d <= target} IN IF older = {} THEN None ELSE Max(older)

Next_copy(d) == Min({e \in snapshot_dates : e > d})

\* get_inferred_payments: what a copy of late has and the next one has not was paid.
inferred_payments ==
    {s \in snaps : /\ s.on >= Max(snapshot_dates) - window_days
                   /\ \E d \in snapshot_dates : d > s.on
                   /\ ~ \E t \in On(Next_copy(s.on)) : t.no = s.no}
paid_on(s)        == Next_copy(s.on)
days_to_pay(rows) == IF rows = {} THEN None
                     ELSE Sum(rows, LAMBDA s : paid_on(s) - s.day) \div Cardinality(rows)

bucket_totals(d) == [b \in 1..4 |-> Owed({s \in On(d) : BucketOf(d - s.day) = b})]

\* In the two worst buckets.
Bad(d) == {s \in On(d) : d - s.day > 2 * BUCKET}

aging_drift ==
    LET now == IF snaps = {} THEN None ELSE Max(snapshot_dates)
        then == IF snaps = {} THEN None ELSE nearest_snapshot(now - BUCKET)
        moved == [c \in Parties_of_either(Bad(now), Bad(then)) |->
                    Owed(Of(Bad(now), c)) - Owed(Of(Bad(then), c))]
    IN  IF then = None
        THEN [building |-> TRUE, drift |-> 0, total |-> 0, moved |-> <<>>, movers |-> {}]
        ELSE [building |-> FALSE, drift |-> Owed(Bad(now)) - Owed(Bad(then)),
              total |-> Owed(On(now)), moved |-> moved,
              movers |-> {c \in Top(MAX_MOVERS, DOMAIN moved, LAMBDA d : moved[d]) : moved[c] > 0}]

-----------------------------------------------------------------------------
(* Who pays, and when. *)

DaysLate(r) == Max({0, day - r.due})

\* The current book, one item for each customer who owes.
position(c) ==
    LET owed == Of(Debts, c) cap(d) == Min({d, 4 * BUCKET})
        late == Owed({r \in owed : Overdue(r)})
        oldest == Max({DaysLate(r) : r \in owed})
        weighted == Sum(owed, LAMBDA r : r.owed * DaysLate(r)) \div Owed(owed)
    IN  [owed |-> Owed(owed), late |-> late, oldest |-> oldest,
         score |-> (40 * late) \div Owed(owed)
                     + (30 * cap(oldest) + 30 * cap(weighted)) \div (4 * BUCKET)]

\* Who takes longer than before by how much, by the payments that are listed.
slower ==
    LET all == inferred_payments
        listed == Top(MAX_INVOICES_PULSE, all, paid_on)
        building == snaps = {} \/ Max(snapshot_dates) - Min(snapshot_dates) < Enough_history
        recent(c) == {s \in Of(listed, c) : paid_on(s) >= day - 3 * BUCKET}
        before(c) == Of(listed, c) \ recent(c)
        change(c) == days_to_pay(recent(c)) - days_to_pay(before(c))
        told == {c \in Parties(listed) : /\ ~building /\ Cardinality(all) >= Enough_payments
                                         /\ Cardinality(recent(c)) >= Enough_of_each
                                         /\ Cardinality(before(c)) >= Enough_of_each}
    IN  [c \in {d \in told : change(d) > MIN_SLOWER} |-> change(c)]

worsened == Top(top_n, DOMAIN slower, LAMBDA c : slower[c])

payment_behaviour ==
    [items |-> [c \in Top(top_n, Parties(Debts), LAMBDA d : position(d).score) |-> position(c)],
     worsened |-> worsened]

\* Slip: what is due today is neither late nor coming.
Coming_tomorrow(r, horizon) == r.due > day /\ r.due <= day + horizon

Coming(r, horizon) == r.due >= day /\ r.due <= day + horizon

cash_30d(horizon) ==
    LET soon == Owed({r \in Debts : Coming(r, horizon)})
        late == Owed({r \in Debts : r.due < day})
        out == {r \in pos : r.pending > 0 /\ r.due <= day + horizon}
    IN  [due |-> soon, overdue |-> late, out |-> Value(out), net |-> soon + late \div 2 - Value(out)]

-----------------------------------------------------------------------------
(* What is sold, and what is not. *)

Anchor == IF sales = {} THEN day ELSE date_range(sales).to

\* The last week of sales, and the weeks before it; all counted weeks_baseline
\* times.  The contributors before the LIMIT.
week_delta ==
    LET this == {r \in sales : r.day > Anchor - WEEK}
        before == {r \in sales : r.day <= Anchor - WEEK /\ r.day > Anchor - WEEK * (1 + weeks_baseline)}
        change(a, b) == weeks_baseline * Goods(a) - Goods(b)
    IN  [this |-> Goods(this), usual |-> Goods(before), delta |-> change(this, before),
         of |-> [c \in Parties_of_either(this, before) |-> change(Of(this, c), Of(before, c))],
         skus |-> [k \in {r.sku : r \in this \cup before} |->
                     change({r \in this : r.sku = k}, {r \in before : r.sku = k})]]

OrderDays(c) == {r.day : r \in Of(sales, c)}

\* Twice the middle one of the gaps between a customer's days of buying.
median_gap(days) ==
    LET ends == days \ {Min(days)}
        gap(d) == d - Max({e \in days : e < d})
        place(d) == Cardinality({e \in ends : gap(e) < gap(d) \/ (gap(e) = gap(d) /\ e <= d)})
        at(n) == gap(CHOOSE d \in ends : place(d) = n)
    IN  at((Cardinality(ends) + 1) \div 2) + at(Cardinality(ends) \div 2 + 1)

\* Regulars past one and a half times their own gap.
reorder_status ==
    {c \in Parties(sales) :
        LET days == OrderDays(c) IN
        /\ Cardinality(days) >= REORDER_MIN_ORDERS
        /\ median_gap(days) <= 2 * REORDER_MAX_MEDIAN_GAP
        /\ 4 * (Anchor - Max(days)) > 3 * median_gap(days)}

shares(w) ==
    LET rows == Within(sales, w)
        first(n) == Sum(top_parties(rows, n), LAMBDA c : RevenueOf(rows, c))
    IN  [top1 |-> pct(first(1), Goods(rows)), top3 |-> pct(first(3), Goods(rows)),
         total |-> Goods(rows)]

concentration_trend ==
    LET now == shares([start |-> Anchor - TRAIL, end |-> Anchor])
        prev == shares([start |-> Anchor - 2 * TRAIL, end |-> Anchor - TRAIL - 1])
    IN  [now |-> now, prev |-> prev,
         top1_change |-> now.top1 - prev.top1, top3_change |-> now.top3 - prev.top3]

\* The stock of today, with the sales until then.
dead_value(then) ==
    Sum({k \in Held : ~ \E r \in sales : r.sku = k /\ r.day >= then - TRAIL /\ r.day <= then},
        LAMBDA k : stock[k])

dead_stock_delta == [value |-> dead_value(Anchor), delta |-> dead_value(Anchor) - dead_value(Anchor - BUCKET)]

NegativeStock == {k \in Skus : stock[k] < 0}

\* An invoice four times the usual, or a price a quarter above the last, needs a
\* longer history than these books have.
anomalies(stale) == (IF stale THEN {70} ELSE {}) \cup (IF NegativeStock # {} THEN {60} ELSE {})

working_capital ==
    LET open == Value({r \in pos : r.pending > 0}) IN
    [inventory |-> Sum(Skus, LAMBDA k : stock[k]), receivables |-> Owed(Debts), commitments |-> open]

-----------------------------------------------------------------------------
(* Cards: how loudly each asks for attention. *)

\* The order the owner likes, by which equals are ordered.
ROLE_ORDER == <<"week_delta", "cash_30d", "aging_drift", "reorder_radar", "anomalies",
                "collections_proof", "concentration", "trapped_capital",
                "payment_behaviour", "working_capital">>

CardKeys == {ROLE_ORDER[i] : i \in DOMAIN ROLE_ORDER}
rank(k)  == CHOOSE i \in DOMAIN ROLE_ORDER : ROLE_ORDER[i] = k

drift_severity ==
    LET d == aging_drift share == pct(d.drift, d.total) IN
    CASE d.building -> 5
      [] d.drift > 0 /\ ~d.building -> 20 + Min({70, 6 * share})
      [] OTHER -> 10

severity(key, stale) ==
    CASE key = "aging_drift" -> drift_severity
      [] key = "payment_behaviour" -> IF worsened # {} THEN 45 ELSE IF Debts # {} THEN 35 ELSE 5
      [] key = "cash_30d" -> IF cash_30d(BUCKET).net < 0 THEN 75 ELSE 25
      [] key = "week_delta" -> IF sales = {} THEN 0
                               ELSE IF pct(week_delta.delta, week_delta.usual) <= -10 THEN 55 ELSE 20
      [] key = "reorder_radar" -> LET n == Min({MAX_ROWS, Cardinality(reorder_status)}) IN
                                  IF n = 0 THEN 5 ELSE 40 + Min({30, 3 * n})
      [] key = "concentration" -> LET t == concentration_trend IN
                                  IF t.now.top3 > 60 \/ t.top3_change > 5 THEN 45 ELSE 15
      [] key = "trapped_capital" -> IF dead_stock_delta.delta > 0 THEN 35 ELSE 15
      [] key = "anomalies" -> Max(anomalies(stale) \cup {0})
      [] key = "working_capital" -> 20
      [] key = "collections_proof" -> 0

\* Slip: sorted by severity, the quietest first.
Before_quiet(sev, j, k) == sev[j] < sev[k] \/ (sev[j] = sev[k] /\ rank(j) < rank(k))

\* build_cards by severity.
Before(sev, j, k) == sev[j] > sev[k] \/ (sev[j] = sev[k] /\ rank(j) < rank(k))

\* build_brief: the first BRIEF_MAX_CARDS of those that are loud enough.
brief_cards(sev) ==
    LET loud == {k \in CardKeys : sev[k] >= BRIEF_MIN_SEVERITY} IN
    {k \in loud : Cardinality({j \in loud : Before(sev, j, k)}) < BRIEF_MAX_CARDS}

urgent(sev, keys) == {k \in keys : sev[k] >= 60}

-----------------------------------------------------------------------------
(* Metrics, suggestions and verdicts. *)

overdue_total           == Owed({r \in Debts : r.due < day})
bucket_60plus           == Owed({r \in Debts : day - r.due > 2 * BUCKET})
customer_outstanding(c) == Owed(Of(ar, c))
customer_days_quiet(c)  == IF Of(sales, c) = {} THEN None ELSE day - Max(OrderDays(c))
avg_days_to_pay         == days_to_pay(inferred_payments)

Worth_clearing == dead_stock_delta.value > MIN_DEAD_STOCK

\* The first of a list.
Slowest  == Top(1, worsened, LAMBDA c : slower[c])
Riskiest == Top(1, Parties(Debts), LAMBDA c : position(c).score)

\* build_suggestions, each with what its metric reads now.  A vendor's price that
\* rose is left out, as in anomalies.
build_suggestions ==
    LET s(key, baseline) == [key |-> key, baseline |-> baseline] IN
    {s("drift60", bucket_60plus) : x \in {y \in {aging_drift} : ~y.building /\ y.drift > MIN_DRIFT}}
    \cup {s("slow", customer_outstanding(c)) : c \in Slowest}
    \cup {s("plan", customer_outstanding(c)) :
             c \in {d \in Riskiest : /\ worsened = {}
                                     /\ position(d).late >= MIN_CUSTOMER_OUTSTANDING
                                     /\ position(d).oldest > Old_overdue}}
    \cup {s("winback", customer_days_quiet(c)) : c \in reorder_status}
    \cup (IF Worth_clearing THEN {s("deadstock", dead_stock_delta.value)} ELSE {})
    \cup {s("concentration", x.now.top1) :
             x \in {y \in {concentration_trend} : y.now.top1 >= CONCENTRATION_ALARM_PCT /\ y.top1_change > 0}}

\* Slip: a fall is a fall.
improvement_sign(baseline, result, lower_is_better) == result - baseline

improvement(baseline, result, lower_is_better) ==
    IF lower_is_better THEN baseline - result ELSE result - baseline

\* 2 positive, 1 inconclusive, 0 negative.
verdict(baseline, result, lower_is_better, target) ==
    LET abs == IF baseline < 0 THEN -baseline ELSE baseline
        better == improvement(baseline, result, lower_is_better)
        met == target # None /\ IF lower_is_better THEN result <= target ELSE result >= target
    IN  CASE baseline = 0 -> 1
          [] baseline # 0 /\ (met \/ 100 * better >= DEFAULT_TARGET_IMPROVEMENT_PCT * abs) -> 2
          [] baseline # 0 /\ ~met /\ 100 * better <= -NOISE_FLOOR_PCT * abs -> 0
          [] OTHER -> 1

-----------------------------------------------------------------------------
(* Properties. *)

\* pulse.py: the daily copies are the memory the receivables have not.  Whatever
\* days were missed, an invoice inferred to be paid owes nothing, is inferred
\* once, and one that was paid is inferred as soon as a later day is copied.
PaymentsAreInferred ==
    LET paid == inferred_payments IN
    /\ avg_days_to_pay # None => avg_days_to_pay > 0
    /\ \A d \in snapshot_dates : Total(bucket_totals(d)) = Owed(On(d))
    /\ \A s \in paid : ~ \E r \in Debts : r.no = s.no
    /\ Cardinality(paid) = Cardinality(Numbers(paid))
    /\ \A r \in ar \ Debts :
          LET copies == {s \in snaps : s.no = r.no}
              last == Max({s.on : s \in copies})
          IN  copies # {} /\ last < Max(snapshot_dates) /\ last >= Max(snapshot_dates) - window_days
                 => r.no \in Numbers(paid)

\* The cards and the screens agree on what is late, dead, held and owed; money is
\* late, coming or due later; movement is that of customers, and a movement for
\* the worse names one of them; a list that is not cut makes up its total.
CardsAddUp ==
    LET drift == aging_drift week == week_delta cash == cash_30d(BUCKET)
        items == payment_behaviour.items
        listed == Sum(DOMAIN items, LAMBDA c : items[c].late)
    IN
    /\ Total(drift.moved) = drift.drift /\ (drift.drift > 0 => drift.movers # {})
    /\ cash.due + cash.overdue + Owed({r \in Debts : r.due > day + BUCKET}) = Owed(Debts)
    /\ cash.overdue = overdue_total /\ overdue_total = collections_priority.total
    /\ bucket_60plus = ar_ageing_over(2 * BUCKET)
    /\ listed <= overdue_total /\ (Cardinality(Parties(Debts)) <= top_n => listed = overdue_total)
    /\ cash.out <= working_capital.commitments
    /\ Total(week.of) = week.delta /\ Total(week.skus) = week.delta
    /\ dead_stock_delta.value = dead_stock.value
    /\ working_capital.inventory = inventory_summary.value
    /\ (NegativeStock # {}) = (inventory_summary.negative > 0)
    /\ \A c \in reorder_status : \E r \in sales : r.party # c /\ r.day > Max(OrderDays(c))
    /\ concentration_trend.now.total + concentration_trend.prev.total
          = window_goods([start |-> Anchor - 2 * TRAIL, end |-> Anchor])

\* pulse.py computes again what queries.py does, and from copies what no table
\* holds: the cards agree with the screens, and what was inferred is so.
CardsAgreeWithTheScreens == CardsAddUp /\ PaymentsAreInferred

\* brief.py keeps BRIEF_MAX_CARDS of the cards: no card that asks for attention
\* on the Today page is missing from the brief, whatever the books look like.
UrgentReachesTheBrief ==
    \A sev \in {[k \in CardKeys |-> severity(k, stale)] : stale \in BOOLEAN} :
        urgent(sev, brief_cards(sev)) = urgent(sev, CardKeys)

\* A suggestion comes with a baseline, and one that is missing or zero cannot be
\* judged.  None is made that could never be judged, the
\* drift, measured by invoice dates and judged by due dates, the customers who
\* pay slower and may owe nothing, and customers in credit apart.
BaselinesCanBeJudged ==
    \A s \in build_suggestions :
        s.key \notin {"drift60", "slow"} /\ ~InCredit => s.baseline # None /\ s.baseline # 0

\* outcomes.py: direction comes from the metric.  When today's overdue total is
\* the result, a better one never has a worse verdict, with a target or without;
\* what stayed as it was shows nothing; and what is called negative moved the
\* wrong way.
VerdictsAreFair ==
    \A b, y \in Readings, lower \in BOOLEAN, target \in Readings \cup {None} :
        LET x == overdue_total
            v(r) == verdict(b, r, lower, target)
        IN  x > 0 =>
            /\ (IF lower THEN x <= y ELSE x >= y) => v(x) >= v(y)
            /\ v(x) = 0 => IF lower THEN x > b ELSE x < b
            /\ target = None => verdict(x, x, lower, target) = 1

\* strategy.py suggests what outcomes.py will judge when its window ends: every
\* suggestion can be judged, and the judgement is fair.
SuggestionsCanBeJudged == BaselinesCanBeJudged /\ VerdictsAreFair
=============================================================================
