------------------------------- MODULE Ledgers -------------------------------
(***************************************************************************)
(* The canonical tables of one company as the queries see them, and how    *)
(* business changes them: what is sold, paid, ordered, quoted.  A change   *)
(* is seen after a sync and a rebuild (Books) and is one step here.  What  *)
(* the queries make of the rows is in Figures.                             *)
(*                                                                         *)
(* Money and quantities are whole numbers, a day is a number, a month is   *)
(* DAYS of them.  Percentages and roundings are left out.  One sheet of    *)
(* the books changes in a behaviour: sales and their receivables, a longer *)
(* history of sales and purchases, orders, purchase orders, or quotes.     *)
(***************************************************************************)
EXTENDS Integers, FiniteSets, FiniteSetsExt

CONSTANTS
    Sheets,        \* the sheets looked at
    Customers, Skus,
    DAYS,          \* days in a month
    Terms,         \* days from an invoice to its due date
    LastDay,       \* bound: days, from 0
    MaxEntries,    \* bound: entries in a sheet
    MaxHistory,    \* bound: sales in a history of sales
    MaxBills       \* bound: purchases

ASSUME LedgersAssumption ==
    /\ IsFiniteSet(Customers) /\ IsFiniteSet(Skus)
    /\ DAYS \in Nat \ {0} /\ Terms \in Nat /\ LastDay \in Nat /\ MaxEntries \in Nat
    /\ MaxHistory \in Nat /\ MaxBills \in Nat

VARIABLES
    sheet,       \* the sheet that changes
    day,         \* CURRENT_DATE
    sales,       \* canon_sales_invoice_flat: a row for each line of an invoice
    bills,       \* canon_purchase_invoice_flat
    ar,          \* canon_ar_flat: a row for each invoice
    snaps,       \* ar_daily_snapshot: what was owed, day by day
    stock,       \* canon_inventory_flat: the quantity of each item, worth one each
    orders,      \* canon_sales_order_flat: a row for each line
    pos,         \* canon_purchase_order_flat
    quotes       \* canon_sales_quotation_flat

ledgerVars == <<sheet, day, sales, bills, ar, snaps, stock, orders, pos, quotes>>

SalesLine == [no : Nat, party : Customers, sku : Skus, day : Nat, goods : Nat, total : Nat]
ArRow     == [no : Nat, party : Customers, day : Nat, due : Nat, owed : Int,
              late : Int]      \* late: days_overdue, as the last sync stored it
Snapshot  == [on : Nat, no : Nat, party : Customers, day : Nat, due : Nat, owed : Nat]
OrderLine == [no : Nat, line : Nat, value : Nat, pending : Nat, due : Nat,
              status : {"open", "done", "cancelled"}]    \* done: dispatched, or received
Quote     == [no : Nat, value : Nat, converted : BOOLEAN,
              status : {"sent", "won", "lost"}]

LedgersTypeOK ==
    /\ sheet \in Sheets /\ day \in 0..LastDay
    /\ sales \subseteq SalesLine /\ bills \subseteq SalesLine
    /\ \A r \in ar : r \in ArRow
    /\ snaps \subseteq Snapshot
    /\ stock \in [Skus -> Int]
    /\ orders \subseteq OrderLine /\ pos \subseteq OrderLine
    /\ quotes \subseteq Quote

LedgersInit ==
    /\ sheet \in Sheets
    /\ day = 0
    /\ sales = {} /\ bills = {} /\ ar = {} /\ snaps = {} /\ orders = {} /\ pos = {} /\ quotes = {}
    /\ stock = [k \in Skus |-> 1]

-----------------------------------------------------------------------------
(* The books change: external, seen after a sync and a rebuild. *)

Entries(rows) == Cardinality({r.no : r \in rows})
Fits(rows)    == Entries(rows) < MaxEntries
Sellable      == \/ sheet = "sales" /\ Fits(sales)
                 \/ sheet = "history" /\ Entries(sales) < MaxHistory

\* With a sync, the lateness of every balance is that of the day.
Dated(rows) == {[r EXCEPT !.late = day - r.due] : r \in rows}

\* _record_daily_snapshot, which ends every sync of the receivables: what is owed
\* today, over what an earlier sync of the day found; what that one found and is
\* owed no more stays.
Recorded_debts(rows) ==
    LET now == {[on |-> day, no |-> r.no, party |-> r.party, day |-> r.day, due |-> r.due,
                 owed |-> r.owed] : r \in {q \in rows : q.owed > 0}}
    IN  {s \in snaps : ~ \E t \in now : t.on = s.on /\ t.no = s.no} \cup now

Synced(rows) ==
    /\ ar' = Dated(rows)
    /\ snaps' = IF sheet = "sales" THEN Recorded_debts(rows) ELSE snaps

InvoiceLines(n, c, items) ==
    {[no |-> n, party |-> c, sku |-> k, day |-> day, goods |-> 1, total |-> Cardinality(items) + 1] :
        k \in items}

\* An invoice of one or two lines; what is printed on it includes the tax.
Invoice(c, items) ==
    LET n == Entries(sales) + 1 IN
    /\ Sellable /\ (sheet = "history" => Cardinality(items) = 1)
    /\ sales' = sales \cup InvoiceLines(n, c, items)
    /\ Synced(ar \cup {[no |-> n, party |-> c, day |-> day, due |-> day + Terms,
                        owed |-> Cardinality(items) + 1, late |-> 0]})
    /\ stock' = [k \in Skus |-> stock[k] - (IF k \in items THEN 1 ELSE 0)]
    /\ UNCHANGED <<sheet, day, bills, orders, pos, quotes>>

\* Paid, or paid twice: a balance in the customer's favour.
Payment(r) ==
    /\ sheet = "sales" /\ r.owed > 0
    /\ \E left \in {0, -1} : Synced((ar \ {r}) \cup {[r EXCEPT !.owed = left]})
    /\ UNCHANGED <<sheet, day, sales, bills, stock, orders, pos, quotes>>

Bill(c, k) ==
    /\ sheet = "history" /\ Entries(bills) < MaxBills
    /\ bills' = bills \cup InvoiceLines(Entries(bills) + 1, c, {k})
    /\ stock' = [stock EXCEPT ![k] = @ + 1]
    /\ Synced(ar)
    /\ UNCHANGED <<sheet, day, sales, orders, pos, quotes>>

\* Orders of one or two lines.  TranzAct gives what is pending of sales orders,
\* and nothing pending of purchase orders.
NewLines(rows, due, pending) ==
    LET n == Entries(rows) + 1 IN
    {{[no |-> n, line |-> l, value |-> 1, pending |-> pending, due |-> due, status |-> "open"] :
        l \in 1..last} : last \in 1..2}

Order(due) ==
    /\ \/ /\ sheet = "orders" /\ Fits(orders)
          /\ \E new \in NewLines(orders, due, 1) : orders' = orders \cup new
          /\ UNCHANGED pos
       \/ /\ sheet = "pos" /\ Fits(pos)
          /\ \E new \in NewLines(pos, due, 0) : pos' = pos \cup new
          /\ UNCHANGED orders
    /\ UNCHANGED <<sheet, day, sales, bills, ar, snaps, stock, quotes>>

\* A line is delivered; its status may say so, and may not.
Deliver(r) ==
    /\ r.status = "open"
    /\ \E s \in {"open", "done", "cancelled"} :
          LET new == [r EXCEPT !.pending = 0, !.status = s] IN
          /\ orders' = IF r \in orders THEN (orders \ {r}) \cup {new} ELSE orders
          /\ pos' = IF r \in pos THEN (pos \ {r}) \cup {new} ELSE pos
    /\ UNCHANGED <<sheet, day, sales, bills, ar, snaps, stock, quotes>>

Quoted(converted, status) ==
    /\ sheet = "quotes" /\ Fits(quotes)
    /\ quotes' = quotes \cup {[no |-> Entries(quotes) + 1, value |-> 1,
                               converted |-> converted, status |-> status]}
    /\ UNCHANGED <<sheet, day, sales, bills, ar, snaps, stock, orders, pos>>

\* Midnight: what is stored stays as it is.
Midnight ==
    /\ day < LastDay /\ day' = day + 1
    /\ UNCHANGED <<sheet, sales, bills, ar, snaps, stock, orders, pos, quotes>>

LedgersNext ==
    \/ \E c \in Customers, items \in (SUBSET Skus) \ {{}} : Invoice(c, items)
    \/ \E r \in ar : Payment(r)
    \/ \E c \in Customers, k \in Skus : Bill(c, k)
    \/ \E due \in {day, day + 1} : Order(due)
    \/ \E r \in orders \cup pos : Deliver(r)
    \/ \E converted \in BOOLEAN, status \in {"sent", "won", "lost"} : Quoted(converted, status)
    \/ Midnight

LedgersSpec == LedgersInit /\ [][LedgersNext]_ledgerVars

=============================================================================
