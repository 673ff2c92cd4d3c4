------------------------------- MODULE Figures -------------------------------
(***************************************************************************)
(* schema/queries.py: the figures every screen, answer and card is made    *)
(* of, each computed by a query of its own.  Nothing ties two queries      *)
(* together but the rows they read: this module says which of their        *)
(* figures have to agree, whatever the books look like.                    *)
(***************************************************************************)
EXTENDS Ledgers

CONSTANTS
    MAX_CUSTOMERS, MAX_SKUS, MAX_INVOICES, MAX_CATEGORIES,   \* LIMITs of the lists
    MAX_ROWS,      \* those the code writes as a figure: 5, 6 or 10
    MAX_POINTS,    \* days a chart shows
    BUCKET,        \* days in a bucket of the receivables
    TRAIL,         \* since_days, velocity_days, window_days: a trailing window
    COVER,         \* cover_days
    MONTHS,        \* months a comparison shows
    CREDIT_STRETCH_DAYS, CREDIT_HIGH_EXPOSURE_SHARE, CREDIT_CONCENTRATION_SHARE,
    None           \* NULL

ASSUME FiguresAssumption ==
    /\ MAX_CUSTOMERS \in Nat \ {0} /\ MAX_SKUS \in Nat \ {0} /\ MAX_INVOICES \in Nat \ {0}
    /\ MAX_CATEGORIES \in Nat \ {0} /\ MAX_ROWS \in Nat \ {0} /\ MAX_POINTS \in Nat \ {0}
    /\ TRAIL \in Nat \ {0} /\ COVER \in Nat /\ MONTHS \in Nat \ {0}
    /\ BUCKET \in Nat \ {0}
    /\ CREDIT_STRETCH_DAYS \in Nat \ {0}
    /\ None \notin Int

Sum(rows, col(_)) == SumFunction([r \in rows |-> col(r)])
Goods(rows)       == Sum(rows, LAMBDA r : r.goods)
Owed(rows)        == Sum(rows, LAMBDA r : r.owed)
Value(rows)       == Sum(rows, LAMBDA r : r.value)
Parties(rows)     == {r.party : r \in rows}
Numbers(rows)     == {r.no : r \in rows}
Month(d)          == d \div DAYS

\* ORDER BY ... DESC LIMIT n: ties fall as they may.
Top(n, S, val(_)) ==
    CHOOSE T \in SUBSET S :
        /\ Cardinality(T) = (IF Cardinality(S) < n THEN Cardinality(S) ELSE n)
        /\ \A x \in T, y \in S \ T : val(x) >= val(y)

-----------------------------------------------------------------------------
(* Windows. *)

\* _date_range: NULLs when there are no rows.
date_range(rows) ==
    IF rows = {} THEN [from |-> None, to |-> None]
                 ELSE [from |-> Min({r.day : r \in rows}), to |-> Max({r.day : r \in rows})]

\* _resolve_window: a bound that is not given is that of the data; without data
\* the window ends today; and a window given backwards is turned round.
resolve_window(rows, start, end, period) ==
    LET cov == date_range(rows)
        e == IF end # None THEN end ELSE IF cov.to # None THEN cov.to ELSE day
        s == IF start # None THEN start ELSE IF cov.from # None THEN cov.from ELSE e - period
    IN  IF s <= e THEN [start |-> s, end |-> e] ELSE [start |-> e, end |-> s]

Within(rows, w) == {r \in rows : w.start <= r.day /\ r.day <= w.end}

\* Everything there is.
Whole(rows) == resolve_window(rows, None, None, TRAIL)

\* The goods value of a window.
window_goods(w) == Goods(Within(sales, w))

\* _dual_window_totals: what is printed on each invoice, once.
invoiced(rows) ==
    Sum(Numbers(rows), LAMBDA n : Max({r.total : r \in {q \in rows : q.no = n}}))

\* _sales_monthly_avg, _purchase_monthly_avg: of the months that have data, in
\* the year before the last invoice.
YearOf(rows)    == {r \in rows : r.day > date_range(rows).to - 12 * DAYS}
monthly_avg(rows) ==
    IF rows = {} THEN 0
    ELSE Goods(YearOf(rows)) \div Cardinality({Month(r.day) : r \in YearOf(rows)})

-----------------------------------------------------------------------------
(* Sales and purchases. *)

revenue_summary(w) ==
    [goods |-> window_goods(w), invoiced |-> invoiced(Within(sales, w)),
     invoices |-> Cardinality(Numbers(Within(sales, w))),
     customers |-> Cardinality(Parties(Within(sales, w))),
     monthly |-> monthly_avg(sales)]

\* Slip: the last month ends with the day the window ends before.
revenue_trend_short(w) ==
    [m \in Month(w.start)..Month(w.end) |->
        Goods({r \in sales : Month(r.day) = m /\ r.day < w.end})]

\* Whole months, the gaps filled.
revenue_trend(w) ==
    [m \in Month(w.start)..Month(w.end) |-> Goods({r \in sales : Month(r.day) = m})]

\* The window's first MAX_POINTS days.
Charted(w) == w.start..Min({w.end, w.start + MAX_POINTS - 1})
revenue_daily(w) == [d \in Charted(w) |-> Goods({r \in sales : r.day = d})]

RevenueOf(rows, c) == Goods({r \in rows : r.party = c})

\* top_customers_revenue; of purchases top_vendors_spend.
top_parties(rows, n) == Top(n, Parties(rows), LAMBDA c : RevenueOf(rows, c))

\* The first few, and the others together.
customer_concentration(w) ==
    LET rows == Within(sales, w)
        first == top_parties(rows, MAX_ROWS)
        rest == Goods(rows) - Sum(first, LAMBDA c : RevenueOf(rows, c))
    IN  [slices |-> [c \in first |-> RevenueOf(rows, c)], others |-> Max({0, rest})]

SoldOf(rows, k)    == Goods({r \in rows : r.sku = k})

\* The figure above this list is that of the list.
Sold(rows) == {r.sku : r \in rows}
sales_by_category(rows) ==
    [k \in Top(MAX_CATEGORIES, Sold(rows), LAMBDA j : SoldOf(rows, j)) |-> SoldOf(rows, k)]

purchases_summary(w) ==
    [spend |-> Goods(Within(bills, w)), invoiced |-> invoiced(Within(bills, w)),
     monthly |-> monthly_avg(bills),
     overdue |-> Cardinality({r \in pos : r.due < day /\ r.status = "open"})]

\* _month_floor: the months of a comparison, counting the last.
Trailing(rows, months) ==
    {r \in rows : Month(r.day) > Month(IF sales = {} THEN day ELSE date_range(sales).to) - months}

sales_monthly_comparison ==
    LET rows == Trailing(sales, MONTHS)
    IN  [m \in {Month(r.day) : r \in rows} |-> Goods({r \in rows : Month(r.day) = m})]

monthly_cashflow ==
    LET rows(all) == Trailing(all, MONTHS)
    IN  [in |-> Goods(rows(sales)), out |-> Goods(rows(bills)),
         net |-> [m \in {Month(r.day) : r \in rows(sales) \cup rows(bills)} |->
                     Goods({r \in rows(sales) : Month(r.day) = m})
                       - Goods({r \in rows(bills) : Month(r.day) = m})]]

\* Two windows of the same length, the second ending the day before the first
\* begins; both counted from the last sale.
Recent == LET to == date_range(sales).to IN [start |-> to - (TRAIL - 1), end |-> to]
Prior  == LET to == date_range(sales).to IN [start |-> to - (2 * TRAIL - 1), end |-> to - TRAIL]

Change(c) == RevenueOf(Within(sales, Recent), c) - RevenueOf(Within(sales, Prior), c)
Gainers   == {c \in Parties(sales) : Change(c) > 0}
Losers    == {c \in Parties(sales) : Change(c) < 0}
customer_changes ==
    [up   |-> [c \in Top(MAX_ROWS, Gainers, Change) |-> Change(c)],
     down |-> [c \in Top(MAX_ROWS, Losers, LAMBDA d : -Change(d)) |-> Change(c)]]

\* get_customer_movement: since the cutoff, or not since; the first of each are shown.
Cutoff == (IF sales = {} THEN day ELSE date_range(sales).to) - TRAIL
new_customers ==
    {c \in Parties(sales) : \A r \in sales : r.party = c => r.day >= Cutoff}
lapsed_customers ==
    {c \in Parties(sales) \ new_customers : \A r \in sales : r.party = c => r.day < Cutoff}

-----------------------------------------------------------------------------
(* Stock. *)

Held == {k \in Skus : stock[k] > 0}

inventory_summary ==
    [value |-> Sum(Skus, LAMBDA k : stock[k]),
     negative |-> Cardinality({k \in Skus : stock[k] < 0})]
inventory_by_category ==
    [k \in Top(MAX_CATEGORIES, Skus, LAMBDA j : stock[j]) |-> stock[k]]

SoldSince(k) == {r \in sales : r.sku = k /\ r.day >= Cutoff}

\* Held, and not one sold in the window.
Dead == {k \in Held : SoldSince(k) = {}}
dead_stock ==
    [items |-> Top(MAX_SKUS, Dead, LAMBDA k : stock[k]),
     count |-> Cardinality(Dead), value |-> Sum(Dead, LAMBDA k : stock[k])]

\* Less in stock than COVER days' sales; the MAX_SKUS least covered are shown.
reorder_alert ==
    {k \in Skus : /\ Goods(SoldSince(k)) > 0 /\ stock[k] >= 0
                  /\ stock[k] * TRAIL < COVER * Goods(SoldSince(k))}

-----------------------------------------------------------------------------
(* Receivables. *)

OpenBalances == {r \in ar : r.owed # 0}
Debts        == {r \in ar : r.owed > 0}
BucketOf(age) == IF age <= BUCKET THEN 1 ELSE IF age <= 2 * BUCKET THEN 2
                 ELSE IF age <= 3 * BUCKET THEN 3 ELSE 4
Overdue(r)   == day - r.due > 0

\* From the dates, today.
ar_summary ==
    [buckets |-> [b \in 1..4 |-> Owed({r \in OpenBalances : BucketOf(day - r.day) = b})],
     overdue |-> Owed({r \in OpenBalances : Overdue(r)}),
     outstanding |-> Owed(OpenBalances),
     exposures |-> Top(MAX_CUSTOMERS, Parties(OpenBalances),
                       LAMBDA c : Owed({r \in OpenBalances : r.party = c}))]

\* Whom to chase, by what he owes late and for how long.
LateDebts == {r \in Debts : Overdue(r)}
LateOf(c) == {r \in LateDebts : r.party = c}
impact(c) == Owed(LateOf(c)) * Max({day - r.due : r \in LateOf(c)})
collections_priority ==
    [late |-> [c \in Top(MAX_ROWS, Parties(LateDebts), impact) |-> Owed(LateOf(c))],
     total |-> Owed(LateDebts)]

ar_ageing_over(n) == Owed({r \in Debts : day - r.due > n})

\* From the lateness that was stored.
BalanceOf(c) == Owed({r \in ar : r.party = c})
ar_customer_exposure ==
    [c \in Top(MAX_CUSTOMERS, Parties(ar), BalanceOf) |->
        [outstanding |-> BalanceOf(c), overdue |-> Owed({r \in ar : r.party = c /\ r.late > 0})]]

dso == IF sales = {} THEN [outstanding |-> Owed(Debts), sold |-> 0]
       ELSE [outstanding |-> Owed(Debts),
             sold |-> Goods({r \in sales : r.day >= Cutoff})]

finance_overview ==
    [outstanding |-> ar_summary.outstanding, overdue |-> ar_summary.overdue,
     total_overdue |-> collections_priority.total,
     goods |-> revenue_summary(Whole(sales)).goods]

\* credit_verdict: 0 ok, 1 watch, 2 hold.
credit_verdict(oldest, exposed, concentrated) ==
    LET stretched == oldest >= CREDIT_STRETCH_DAYS IN
    IF stretched /\ (exposed \/ concentrated) THEN 2
    ELSE IF oldest > 0 \/ exposed \/ concentrated THEN 1 ELSE 0

\* Slip: paid invoices count for how late a customer is.
Considered_all(c) == {r \in ar : r.party = c}

\* credit_risk_flags looks at debts alone.
Considered(c) == {r \in Debts : r.party = c}

Verdict(c, rows, all, late(_)) ==
    LET share(part, whole, least) == whole > 0 /\ 100 * part >= least * whole IN
    credit_verdict(Max({late(r) : r \in rows} \cup {0}),
                   share(Owed(rows), Owed(all), CREDIT_HIGH_EXPOSURE_SHARE),
                   share(RevenueOf(sales, c), Goods(sales), CREDIT_CONCENTRATION_SHARE))

credit_risk_flags(c) ==
    IF Considered(c) = {} THEN 0 ELSE Verdict(c, Considered(c), Debts, LAMBDA r : r.late)

\* customer_finance_list looks at every invoice.
customer_finance(c) ==
    Verdict(c, {r \in ar : r.party = c}, ar, LAMBDA r : r.late)

-----------------------------------------------------------------------------
(* Orders. *)

\* order_lines_carry_pending: does this source say what is pending?
carry_pending(rows) == \E r \in rows : r.pending > 0

\* _so_open_rule
so_open(r) ==
    IF carry_pending(orders) THEN r.pending > 0 /\ r.status # "cancelled"
                             ELSE r.status = "open"

order_book_summary ==
    LET open == {r \in orders : so_open(r)} IN
    [open |-> Cardinality(Numbers(open)), value |-> Value(open),
     dispatched |-> Max({0, Entries(orders) - Cardinality(Numbers(open))}),
     overdue |-> Cardinality(Numbers({r \in open : r.due < day}))]

\* The list goes by the status, the totals by the rule.
LateLines == {r \in orders : r.due < day /\ r.status = "open"}
overdue_orders ==
    LET late == {r \in orders : r.due < day} IN
    [lines |-> Top(MAX_INVOICES, LateLines, LAMBDA r : day - r.due),
     count |-> Cardinality(Numbers({r \in late : so_open(r)})),
     value |-> Value({r \in late : so_open(r)})]

open_pos ==
    LET open == {r \in pos : r.status = "open"}
        late == {r \in open : r.due < day}
    IN  [count |-> Cardinality(Numbers(open)), value |-> Value(open),
         overdue |-> Cardinality(Numbers(late)), overdue_value |-> Value(late)]

overdue_pos ==
    LET late == {r \in pos : r.due < day /\ r.status = "open"} IN
    [count |-> Cardinality(Numbers(late)), value |-> Value(late)]

-----------------------------------------------------------------------------
(* Quotes. *)

Won_quotes  == {q \in quotes : q.converted \/ q.status = "won"}
Open_quotes == {q \in quotes : ~q.converted /\ q.status \notin {"won", "lost"}}

quote_summary ==
    [won |-> Cardinality(Won_quotes), open |-> Cardinality(Open_quotes),
     all |-> Cardinality(quotes)]

-----------------------------------------------------------------------------
(* Properties. *)

Total(f) == SumFunction(f)

\* The windows the date picker can ask for.
Picked == {[start |-> s, end |-> e] : s, e \in 0..LastDay}
Windows == {w \in Picked : w.start <= w.end}

\* What the charts, lists and slices show adds up to the figure above them, unless
\* it is cut, when it is less; and windows that meet share no day and lose none.
PartsMakeTheWhole ==
    LET w == Whole(sales)
        goods == revenue_summary(w).goods
        slices == customer_concentration(w)
    IN
    /\ goods = Goods(sales)
    /\ Total(revenue_trend(w)) = goods
    /\ Total(slices.slices) + slices.others = goods
    /\ Total(sales_by_category(sales)) <= goods
    /\ Cardinality(Sold(sales)) <= MAX_CATEGORIES => Total(sales_by_category(sales)) = goods
    /\ monthly_cashflow.in = Total(sales_monthly_comparison)
    /\ Total(monthly_cashflow.net) = monthly_cashflow.in - monthly_cashflow.out
    /\ monthly_avg(sales) <= goods
    /\ purchases_summary(Whole(bills)).spend = Goods(bills)
    /\ \A v \in Windows :
          /\ Total(revenue_daily(v)) <= window_goods(v)
          /\ v.end - v.start < MAX_POINTS => Total(revenue_daily(v)) = window_goods(v)
          /\ window_goods(v) <= Total(revenue_trend(v))
          /\ \A d \in v.start..v.end - 1 :
                window_goods(v) = window_goods([v EXCEPT !.end = d])
                                    + window_goods([v EXCEPT !.start = d + 1])

\* queries.py, "BUG 1": an invoice of several lines is invoiced once, whatever
\* the window.  Here the tax on an invoice is one, so what is invoiced is the
\* goods and one for each invoice.
EachInvoiceCountsOnce ==
    \A w \in Windows :
        LET sold == revenue_summary(w) bought == purchases_summary(w) IN
        /\ sold.invoiced = sold.goods + sold.invoices
        /\ bought.invoiced = bought.spend + Cardinality(Numbers(Within(bills, w)))

InCredit == \E r \in ar : r.owed < 0

Listed_exposure ==
    Sum(DOMAIN ar_customer_exposure, LAMBDA c : ar_customer_exposure[c].outstanding)

\* The buckets make up the book, and so do the customers, and those to chase what is
\* overdue, where the list has room for them; a list that is cut says less, never more.
\* What is overdue is the same on the summary, above the list of whom to chase and in
\* the auditor's figure, unless somebody is in credit.
DebtsMakeTheBook ==
    /\ Total(ar_summary.buckets) = ar_summary.outstanding
    /\ Cardinality(Parties(ar)) <= MAX_CUSTOMERS => Listed_exposure = ar_summary.outstanding
    /\ Total(collections_priority.late) <= collections_priority.total
    /\ Cardinality(Parties(LateDebts)) <= MAX_ROWS =>
          Total(collections_priority.late) = collections_priority.total
    /\ collections_priority.total = ar_ageing_over(0)
    /\ finance_overview.outstanding <= dso.outstanding
    /\ ~InCredit => /\ Listed_exposure <= ar_summary.outstanding
                    /\ finance_overview.overdue = finance_overview.total_overdue
                    /\ dso.outstanding = ar_summary.outstanding

\* What was overdue at the last sync is what the stored lateness knows of.
LateToday(c) == Owed(LateOf(c))

\* A fixed credit gate an owner can trust: it never holds back a
\* customer whom today's dates would let pass, though lateness is as old as the
\* last sync; after a sync the two agree; and the drill-down never calls a
\* customer safer than the gate does, unless somebody is in credit.
GateIsNeverHarsher ==
    \A c \in Parties(ar) :
        LET true_late(r) == day - r.due
            true == IF Debts \cap {r \in ar : r.party = c} = {} THEN 0
                    ELSE Verdict(c, {r \in Debts : r.party = c}, Debts, true_late)
        IN
        /\ credit_risk_flags(c) <= true
        /\ ar = Dated(ar) => credit_risk_flags(c) = true
        /\ ~InCredit => /\ c \in DOMAIN ar_customer_exposure =>
                              ar_customer_exposure[c].overdue <= LateToday(c)
                        /\ credit_risk_flags(c) <= customer_finance(c)

\* Orders, not lines: the order book and the overdue orders count the same, and each of
\* them has a line on the list if it is not cut, and the list is not empty; the two
\* screens on purchase orders count the same; what is not open is dispatched; and a
\* quote is won, open or lost.
OrdersAreCounted ==
    /\ order_book_summary.overdue = overdue_orders.count
    /\ order_book_summary.open + order_book_summary.dispatched = Entries(orders)
    /\ overdue_orders.value <= order_book_summary.value
    /\ Cardinality(LateLines) <= MAX_INVOICES =>
          overdue_orders.count <= Cardinality(Numbers(overdue_orders.lines))
    /\ overdue_orders.count > 0 => overdue_orders.lines # {}
    /\ open_pos.overdue = overdue_pos.count /\ open_pos.overdue_value = overdue_pos.value
    /\ open_pos.overdue <= open_pos.count
    /\ quote_summary.won + quote_summary.open
          + Cardinality({q \in quotes : q.status = "lost" /\ ~q.converted}) = quote_summary.all

\* Trailing windows meet: no item is dead stock and to be reordered, and no customer
\* new and lapsed; gains and losses of the customers are those of the two
\* windows together where the lists have room for them, and otherwise growth names one
\* who grew and a fall one who fell.  The categories make up the stock where there
\* is room for all that have some and none is negative, and are never more.
TrailingWindowsMeet ==
    sales # {} =>
        /\ Dead \cap reorder_alert = {}
        /\ dead_stock.count = 0 <=> dead_stock.items = {}
        /\ new_customers \cap lapsed_customers = {}
        /\ \A c \in lapsed_customers : RevenueOf(Within(sales, Recent), c) = 0
        /\ LET grown == 2 * window_goods(Recent)
                           - window_goods([start |-> Prior.start, end |-> Recent.end])
           IN  /\ Cardinality(Gainers) <= MAX_ROWS /\ Cardinality(Losers) <= MAX_ROWS =>
                      Total(customer_changes.up) + Total(customer_changes.down) = grown
               /\ grown > 0 => DOMAIN customer_changes.up # {}
               /\ grown < 0 => DOMAIN customer_changes.down # {}
        /\ inventory_summary.negative = 0 =>
              /\ Total(inventory_by_category) <= inventory_summary.value
              /\ Cardinality(Held) <= MAX_CATEGORIES =>
                    Total(inventory_by_category) = inventory_summary.value
        /\ Sum(Held, LAMBDA k : stock[k]) >= inventory_summary.value

\* queries.py: the figures of sales, purchases and stock are each a query of their
\* own, and agree on every screen: parts make the whole, an invoice counts once,
\* and windows that follow each other meet.
SalesScreensAgree == PartsMakeTheWhole /\ EachInvoiceCountsOnce /\ TrailingWindowsMeet

\* So do those of receivables, credit and orders: debts make up the book, the
\* credit gate is no harsher than today's dates, and orders are orders, not lines.
ReceivableScreensAgree == DebtsMakeTheBook /\ GateIsNeverHarsher /\ OrdersAreCounted
=============================================================================
