-------------------------------- MODULE Books --------------------------------
(***************************************************************************)
(* One report of one company on its way from the source system into the    *)
(* cache tables (pipelines/) and from there into the canonical layer       *)
(* (canonical/), by any number of threads at once: the hourly job, a       *)
(* migration and a full sync all run the same pipeline and the same        *)
(* rebuild.                                                                *)
(*                                                                         *)
(* The cache is written by upserts on a key, and nothing is ever taken out *)
(* of it or of the canonical tables.  What a row's key is made of decides  *)
(* what a second sync does to it, so each report has its key here; other   *)
(* columns are one figure, which the key may contain, and whether          *)
(* something is open on it (a balance, a status, a quantity to come).      *)
(*                                                                         *)
(* A rebuild is one transaction at READ COMMITTED.  Its first read, the    *)
(* customers, comes before its first write, and with that write it holds   *)
(* the customers' rows: a second rebuild waits there, with what it has     *)
(* read.                                                                   *)
(***************************************************************************)
EXTENDS Integers, FiniteSets, FiniteSetsExt

CONSTANTS
    Syncers,         \* threads that run the pipeline and then the rebuild
    BookReports,     \* the reports looked at
    Figures,         \* what the key columns of a line may say
    Bad,             \* a line that fails validation
    Gone,            \* a line no longer in the report
    Unlocked,
    MaxEdits,        \* bound: changes at the source
    LastDay,         \* bound: days, from 0
    MaxBookFaults,   \* bound: failures and deaths
    FaultyReports    \* bound: the reports whose threads meet them

Tranzact == {"sales_invoices", "sales_orders", "sales_quotations", "purchase_invoices",
             "purchase_orders", "grn_qir", "inventory_valuation", "process_details",
             "process_routing", "ar_aging"}
Zoho     == {"zoho_invoices", "zoho_contacts", "zoho_items", "zoho_bills"}

ASSUME BooksAssumption ==
    /\ BookReports \subseteq Tranzact \cup Zoho
    /\ Figures \subseteq Nat /\ Figures # {} /\ IsFiniteSet(Figures) /\ Bad \notin Figures
    /\ Unlocked \notin Syncers
    /\ MaxEdits \in Nat /\ LastDay \in Nat /\ MaxBookFaults \in Nat

VARIABLES
    report,        \* the report this behaviour is about
    at_source,     \* the report as the source system would give it now
    cache,         \* its tz_ or zb_ table
    canon,         \* its canonical rows
    heads,         \* the canonical invoice headers: the goods value of each document
    owes,          \* canon_customer.outstanding of the one customer
    today,         \* CURRENT_DATE
    snapshot,      \* ar_daily_snapshot: the lines with an outstanding balance, by day
    canon_lock,    \* the rebuild that holds the customers' rows
    syncer,        \* of each thread: where it is and what it has read
    sync_run,      \* its row of tz_sync_runs
    edited,        \* lines whose figure has changed (history)
    paid,          \* lines the source has shown as settled (history)
    missed,        \* a thread has died, or could not record its failure (history)
    met,           \* two rebuilds have been open at once (history)
    edits, bookFaults   \* bounds only

bookVars == <<report, at_source, cache, canon, heads, owes, today, snapshot, canon_lock, syncer,
              sync_run, edited, paid, missed, met, edits, bookFaults>>

-----------------------------------------------------------------------------
(* The reports: which lines each has, and which columns its raw_id hashes. *)

\* A line of a document, as the source tells lines apart; a report has one page
\* to a line here.
Lines == {1, 2}
Number(report_, l) == IF report_ \in {"sales_invoices", "purchase_invoices", "sales_orders",
                                      "sales_quotations", "grn_qir"}
                      THEN 1 ELSE l

Row(l, figure, open) == [line |-> l, figure |-> figure, open |-> open]
CacheRow == [line : Lines, figure : Figures, open : BOOLEAN]

\* raw_id: number and item, and for these four a quantity, a price or a value.
sales_invoices(r)    == <<r.line, r.figure>>
purchase_invoices(r) == <<r.line, r.figure>>
sales_orders(r)      == <<r.line, r.figure>>
grn_qir(r)           == <<r.line, r.figure>>
\* The identity alone: number and item; number; number and customer; item and
\* warehouse; work order, item, process and day; item and process.
sales_quotations(r)    == <<r.line>>
purchase_orders(r)     == <<r.line>>
ar_aging(r)            == <<r.line>>
inventory_valuation(r) == <<r.line>>
process_details(r)     == <<r.line>>
process_routing(r)     == <<r.line>>
\* Zoho's own ids.
zoho_invoices(r) == <<r.line>>
zoho_contacts(r) == <<r.line>>
zoho_items(r)    == <<r.line>>
zoho_bills(r)    == <<r.line>>

\* Slip: the balance is part of the key.
raw_id_balance(r) == <<r.line, r.figure, r.open>>

raw_id(r) ==
    CASE report = "sales_invoices"      -> sales_invoices(r)
      [] report = "purchase_invoices"   -> purchase_invoices(r)
      [] report = "sales_orders"        -> sales_orders(r)
      [] report = "grn_qir"             -> grn_qir(r)
      [] report = "sales_quotations"    -> sales_quotations(r)
      [] report = "purchase_orders"     -> purchase_orders(r)
      [] report = "ar_aging"            -> ar_aging(r)
      [] report = "inventory_valuation" -> inventory_valuation(r)
      [] report = "process_details"     -> process_details(r)
      [] report = "process_routing"     -> process_routing(r)
      [] report = "zoho_invoices"       -> zoho_invoices(r)
      [] report = "zoho_contacts"       -> zoho_contacts(r)
      [] report = "zoho_items"          -> zoho_items(r)
      [] report = "zoho_bills"          -> zoho_bills(r)

\* INSERT ... ON CONFLICT DO UPDATE, on whatever is the key.
Upserted(table, rows, key(_)) ==
    {r \in table : \A n \in rows : key(n) # key(r)} \cup rows

\* source_ref of the canonical rows.  Lines of invoices and stock are keyed anew,
\* on the values as the source gave them, before tax is taken off; the receivables
\* by number and customer; the rest by the raw_id itself.
canon_sales_line(r)      == <<r.line, r.figure>>
canon_purchase_line(r)   == <<r.line, r.figure>>
canon_inventory(r)       == <<r.line>>
canon_payment(r)         == <<r.line>>
canon_purchase_order(r)  == raw_id(r)
canon_sales_order(r)     == raw_id(r)
canon_sales_quotation(r) == raw_id(r)
canon_grn(r)             == raw_id(r)
canon_production(r)      == raw_id(r)
canon_routing(r)         == raw_id(r)
zoho_payment(r)          == raw_id(r)
zoho_customer(r)         == raw_id(r)
zoho_item(r)             == raw_id(r)
zoho_bill(r)             == raw_id(r)

source_ref(r) ==
    CASE report = "sales_invoices"      -> canon_sales_line(r)
      [] report = "purchase_invoices"   -> canon_purchase_line(r)
      [] report = "inventory_valuation" -> canon_inventory(r)
      [] report = "ar_aging"            -> canon_payment(r)
      [] report = "purchase_orders"     -> canon_purchase_order(r)
      [] report = "sales_orders"        -> canon_sales_order(r)
      [] report = "sales_quotations"    -> canon_sales_quotation(r)
      [] report = "grn_qir"             -> canon_grn(r)
      [] report = "process_details"     -> canon_production(r)
      [] report = "process_routing"     -> canon_routing(r)
      [] report = "zoho_invoices"       -> zoho_payment(r)
      [] report = "zoho_contacts"       -> zoho_customer(r)
      [] report = "zoho_items"          -> zoho_item(r)
      [] report = "zoho_bills"          -> zoho_bill(r)

Syncer == [at : {"idle", "fetch", "upsert", "snapshot", "finish", "customers", "lock",
                 "headers", "lines", "commit"},
           page : Nat, last : Lines, got : SUBSET CacheRow, twice : BOOLEAN,
           owes : Nat, heads : [Lines -> Nat], lines : SUBSET CacheRow]

NoHeads == [n \in Lines |-> 0]
AtRest  == [at |-> "idle", page |-> 1, last |-> 1, got |-> {}, twice |-> FALSE,
            owes |-> 0, heads |-> NoHeads, lines |-> {}]

BooksTypeOK ==
    /\ report \in BookReports
    /\ at_source \in [Lines -> [line : Lines, figure : Figures \cup {Bad}, open : BOOLEAN] \cup {Gone}]
    /\ cache \subseteq CacheRow /\ canon \subseteq CacheRow
    /\ heads \in [Lines -> Nat] /\ owes \in Nat
    /\ canon_lock \in Syncers \cup {Unlocked}
    /\ syncer \in [Syncers -> Syncer]
    /\ sync_run \in [Syncers -> {"none", "running", "success", "failed"}]
    /\ today \in 0..LastDay /\ snapshot \in [0..LastDay -> SUBSET Lines]
    /\ edited \subseteq Lines /\ paid \subseteq Lines
    /\ missed \in BOOLEAN /\ met \in BOOLEAN
    /\ edits \in 0..MaxEdits /\ bookFaults \in 0..MaxBookFaults

BooksInit ==
    /\ report \in BookReports
    /\ at_source = [l \in Lines |-> Row(l, Min(Figures), TRUE)]
    /\ cache = {} /\ canon = {}
    /\ heads = NoHeads /\ owes = 0
    /\ today = 0 /\ snapshot = [d \in 0..LastDay |-> {}]
    /\ canon_lock = Unlocked
    /\ syncer = [s \in Syncers |-> AtRest]
    /\ sync_run = [s \in Syncers |-> "none"]
    /\ edited = {} /\ paid = {} /\ missed = FALSE /\ met = FALSE
    /\ edits = 0 /\ bookFaults = 0

-----------------------------------------------------------------------------
(* The source: external. *)

\* A line is corrected or paid, or leaves the report.
SourceChanges(l) ==
    /\ edits < MaxEdits /\ edits' = edits + 1
    /\ at_source[l] # Gone
    /\ \/ /\ at_source' = [at_source EXCEPT ![l].open = FALSE]
          /\ paid' = paid \cup {l} /\ UNCHANGED edited
       \/ /\ at_source' = [at_source EXCEPT ![l] = Gone]
          /\ UNCHANGED <<edited, paid>>
       \/ \E f \in Figures \cup {Bad} :
             /\ at_source' = [at_source EXCEPT ![l].figure = f]
             /\ edited' = edited \cup {l} /\ UNCHANGED paid
    /\ UNCHANGED <<report, cache, canon, heads, owes, today, snapshot, canon_lock, syncer,
                   sync_run, missed, met, bookFaults>>

\* Midnight.  Only the receivables are kept by day.
NextDay ==
    /\ report = "ar_aging" /\ today < LastDay
    /\ today' = today + 1
    /\ UNCHANGED <<report, at_source, cache, canon, heads, owes, snapshot, canon_lock, syncer,
                   sync_run, edited, paid, missed, met, edits, bookFaults>>

-----------------------------------------------------------------------------
(* run and run_chunk. *)

MayFail         == report \in FaultyReports /\ bookFaults < MaxBookFaults
At_(s, place)   == syncer[s].at = place
Goes(s, fields) == syncer' = [syncer EXCEPT ![s] = fields]
Logs(s, status) == sync_run' = [sync_run EXCEPT ![s] = status]
Reads_only      == UNCHANGED <<report, at_source, cache, canon, heads, owes, today, snapshot, canon_lock,
                               edited, paid, missed, met, edits, bookFaults>>

\* _start_run: of the whole report, or for TranzAct of a chunk of its pages.
StartRun(s) ==
    /\ At_(s, "idle")
    /\ Logs(s, "running")
    /\ \E first, last \in Lines :
          /\ first <= last /\ (report \in Zoho => first = 1 /\ last = Cardinality(Lines))
          /\ Goes(s, [AtRest EXCEPT !.at = "fetch", !.page = first, !.last = last])
    /\ Reads_only

\* fetch_report and fetch_all, a page at a time, and _validate: a line that
\* does not validate is skipped.  Zoho gives a line twice if its list moved
\* between two pages.
Valid_rows(l) == {r \in {l} : l # Gone /\ l.figure # Bad}

FetchPage(s) ==
    LET r == syncer[s]
        l == at_source[r.page]
    IN
    /\ At_(s, "fetch")
    /\ \E again \in BOOLEAN :
          /\ again => (report \in Zoho /\ edits > 0 /\ r.got # {})
          /\ Goes(s, [r EXCEPT !.page = @ + 1,
                            !.got = @ \cup Valid_rows(l),
                            !.twice = r.twice \/ again,
                            !.at = IF r.page = r.last THEN "upsert" ELSE "fetch"])
    /\ UNCHANGED sync_run /\ Reads_only

\* _upsert.  _dedupe folds what came twice; Zoho's pipelines have no such step,
\* and the statement is refused.  No rows, nothing done.
Upsert(s) ==
    LET r == syncer[s] IN
    /\ At_(s, "upsert") /\ ~r.twice
    /\ cache' = Upserted(cache, r.got, raw_id)
    /\ Goes(s, [r EXCEPT !.at = IF report = "ar_aging" /\ r.got # {} THEN "snapshot" ELSE "finish"])
    /\ UNCHANGED <<report, at_source, canon, heads, owes, today, snapshot, canon_lock, sync_run, edited, paid, missed,
                   met, edits, bookFaults>>

Open(rows) == {r.line : r \in {q \in rows : q.open}}

\* Slip: only the chunk just stored is remembered.
Remembered_chunk(s) == Open(syncer[s].got)

\* The book that is copied: the whole table.
Remembered(s) == Open(cache)

\* _record_daily_snapshot: rows with a balance are written over those of an
\* earlier run of the day; a failure is logged and forgotten.
Snapshot(s) ==
    /\ At_(s, "snapshot")
    /\ snapshot' \in {snapshot, [snapshot EXCEPT ![today] = @ \cup Remembered(s)]}
    /\ Goes(s, [syncer[s] EXCEPT !.at = "finish"])
    /\ UNCHANGED <<report, at_source, cache, canon, heads, owes, today, canon_lock, sync_run,
                   edited, paid, missed, met, edits, bookFaults>>

\* _finish_run
FinishRun(s) ==
    /\ At_(s, "finish")
    /\ Logs(s, "success")
    /\ Goes(s, [syncer[s] EXCEPT !.at = "customers", !.got = {}])
    /\ Reads_only

\* A request fails: _fail_run.
FetchFails(s) ==
    /\ At_(s, "fetch") /\ MayFail
    /\ bookFaults' = bookFaults + 1
    /\ Logs(s, "failed")
    /\ Goes(s, AtRest)
    /\ UNCHANGED <<report, at_source, cache, canon, heads, owes, today, snapshot, canon_lock,
                   edited, paid, missed, met, edits>>

\* Slip: the run keeps its row.
Recorded_never == "running"

\* What _fail_run can still write when the database refused a statement.  Zoho's
\* rolls back first; TranzAct's updates in the transaction that has failed, and
\* is refused too.
Recorded == IF report \in Zoho THEN "failed" ELSE "running"

UpsertFails(s) ==
    /\ At_(s, "upsert")
    /\ \/ syncer[s].twice /\ UNCHANGED bookFaults
       \/ MayFail /\ bookFaults' = bookFaults + 1
    /\ Logs(s, Recorded)
    /\ missed' = (missed \/ report \in Tranzact)
    /\ Goes(s, AtRest)
    /\ UNCHANGED <<report, at_source, cache, canon, heads, owes, today, snapshot, canon_lock,
                   edited, paid, met, edits>>

-----------------------------------------------------------------------------
(* rebuild_canonical and rebuild_canonical_zoho. *)

Worth(rows) == MapThenSumSet(LAMBDA r : r.figure, rows)

\* SUM(outstanding_amount) of the customer.
Outstanding(rows) == Worth({r \in rows : r.open})

\* Headers aggregate the lines of a document.
Headers(rows) == [n \in Lines |-> Worth({r \in rows : Number(report, r.line) = n})]

\* Of Zoho's invoices, every one still carrying a balance.
Mapped(rows) == IF report = "zoho_invoices" THEN {r \in rows : r.open} ELSE rows

ReadCustomers(s) ==
    /\ At_(s, "customers")
    /\ Goes(s, [syncer[s] EXCEPT !.at = "lock", !.owes = Outstanding(cache)])
    /\ met' = (met \/ \E t \in Syncers \ {s} :
                       syncer[t].at \in {"lock", "headers", "lines", "commit"})
    /\ UNCHANGED <<report, at_source, cache, canon, heads, owes, today, snapshot, canon_lock, sync_run,
                   edited, paid, missed, edits, bookFaults>>

\* Slip: nothing is held while the rest is read.
WriteCustomers_unlocked(s) ==
    /\ At_(s, "lock")
    /\ Goes(s, [syncer[s] EXCEPT !.at = "headers"])
    /\ UNCHANGED <<report, at_source, cache, canon, heads, owes, today, snapshot, canon_lock, sync_run,
                   edited, paid, missed, met, edits, bookFaults>>

\* The first write of the transaction.
WriteCustomers(s) ==
    /\ At_(s, "lock") /\ canon_lock = Unlocked
    /\ canon_lock' = s
    /\ Goes(s, [syncer[s] EXCEPT !.at = "headers"])
    /\ UNCHANGED <<report, at_source, cache, canon, heads, owes, today, snapshot, sync_run,
                   edited, paid, missed, met, edits, bookFaults>>

ReadHeaders(s) ==
    /\ At_(s, "headers")
    /\ Goes(s, [syncer[s] EXCEPT !.at = "lines", !.heads = Headers(cache)])
    /\ UNCHANGED sync_run /\ Reads_only

ReadLines(s) ==
    /\ At_(s, "lines")
    /\ Goes(s, [syncer[s] EXCEPT !.at = "commit", !.lines = Mapped(cache)])
    /\ UNCHANGED sync_run /\ Reads_only

CommitRebuild(s) ==
    /\ At_(s, "commit")
    /\ owes' = syncer[s].owes
    /\ heads' = syncer[s].heads
    /\ canon' = Upserted(canon, syncer[s].lines, source_ref)
    /\ canon_lock' = Unlocked
    /\ Goes(s, AtRest)
    /\ UNCHANGED <<report, at_source, cache, today, snapshot, sync_run, edited, paid, missed, met, edits, bookFaults>>

\* The thread dies, or its rebuild fails: what was not committed is gone.
Cut(s) ==
    /\ ~At_(s, "idle") /\ MayFail
    /\ bookFaults' = bookFaults + 1
    /\ canon_lock' = IF canon_lock = s THEN Unlocked ELSE canon_lock
    /\ missed' = TRUE
    /\ Goes(s, AtRest)
    /\ UNCHANGED <<report, at_source, cache, canon, heads, owes, today, snapshot, sync_run, edited, paid, met, edits>>

BooksNext ==
    \/ \E l \in Lines : SourceChanges(l)
    \/ NextDay
    \/ \E s \in Syncers :
          \/ StartRun(s) \/ FetchPage(s) \/ Upsert(s) \/ Snapshot(s) \/ FinishRun(s)
          \/ FetchFails(s) \/ UpsertFails(s)
          \/ ReadCustomers(s) \/ WriteCustomers(s) \/ ReadHeaders(s) \/ ReadLines(s)
          \/ CommitRebuild(s) \/ Cut(s)

BooksSpec == BooksInit /\ [][BooksNext]_bookVars

-----------------------------------------------------------------------------
(* Properties. *)

Settled == \A s \in Syncers : At_(s, "idle")

\* tranzact_canonical.py: one transaction, safe and idempotent.  When every
\* thread that stored something has rebuilt what it stored, the canonical layer
\* says what the cache says, however syncs and rebuilds were interleaved: its
\* lines and headers are those of the cache, and so is what the customer owes
\* unless two rebuilds were open at once.
CanonCatchesUp ==
    (Settled /\ ~missed) =>
        /\ IF report = "zoho_invoices" THEN Mapped(cache) \subseteq canon ELSE canon = cache
        /\ heads = Headers(cache)
        /\ ~met => owes = Outstanding(cache)

\* helpers.py: a second sync of a line updates its row.  No line is in the
\* cache twice, however many syncs overlap, unless a column of its key has
\* changed at the source.
ResyncsDoNotInflate ==
    \A r, q \in cache : (r # q /\ r.line = q.line) => r.line \in edited

\* A run that is over says so in tz_sync_runs, whatever failed and whoever else
\* runs, unless its thread died or TranzAct's _fail_run met a failed statement.
FailuresAreRecorded ==
    ~missed =>
        \A s \in Syncers :
            sync_run[s] = "running" =>
                syncer[s].at \in {"fetch", "upsert", "snapshot", "finish"}

\* pulse.py, get_inferred_payments: present with a balance on one snapshot and
\* not on the next one taken.
Inferred == {l \in Lines : \E d, n \in 0..LastDay :
                /\ d < n /\ l \in snapshot[d] \ snapshot[n] /\ snapshot[n] # {}
                /\ \A b \in d + 1..n - 1 : snapshot[b] = {}}

\* Each of them was paid: neither a run over some pages of the book, nor a
\* failed one, nor two at once make an invoice look settled that is not.
InferredPaymentsAreReal == Inferred \subseteq paid

\* zoho_canonical.py: receivables are the invoices still carrying a balance.
PaidIsNotOwed ==
    (Settled /\ bookFaults = 0) =>
        \A r \in canon : r.open => \E q \in cache : q.line = r.line /\ q.open
=============================================================================
