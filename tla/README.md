# A verification of vinayak-os

Vinayak reads a business's ERP, notices what needs attention, proposes what to
do about it, and acts when a person approves. This directory holds TLA+
models of the parts of `src/vinayak/` that decide, compute, remember and retry, the TLC
runs that check them on small instances, and proofs, checked by TLAPS, that hold
for every instance.

    tlc -workers 2 -config Chasing_promises.cfg MCChasing    # check one run
    tlapm ChasingTheorems.tla                                # check the proofs

`PROJECT.json` lists the runs, the mutants that each property detects, the lines
of source each definition models, the hazards, and the findings.

## The system

| part | state it keeps | operations | how it meets the others |
|---|---|---|---|
| **Sync** `api/routes/connections.py`, `pipelines/`, `adapters/` | sync status and a cursor per report, run rows, cache tables, daily snapshots, a token cache | start, stop, resume a migration; hourly refresh; full sync; one run per report | writes the cache the canonical layer is rebuilt from |
| **Canonical layer** `canonical/` | `canon_*` | rebuild | written after each sync; read by every query and watcher |
| **Queries and screens** `schema/queries.py`, `pulse.py`, `pulse_cards.py`, `metrics.py` | none | figures, cards, severities, baselines, verdicts | read the canonical layer; read by screens, agent, brief, experiments |
| **Watcher runner** `brain/runner.py`, `worker.py` | `workflows` (enabled, consecutive_errors, last_run), `brain_runs` | tick, run now, turn on and off | calls the watchers; raises alerts |
| **Watchers** `brain/detectors.py` | none of their own | promises due, ladder, credit, outcomes, suggestions | read ledger and collections state; emit events |
| **Event bus** `brain/bus.py`, `brain/consumer.py` | `events` | emit, lock a batch, close, expire | hands events to handlers, which propose |
| **Collections** `collections.py` | `collections_state`, `promises`, `chase_log` | decide, promise, dispute, pause, settle, reset, record a chase | asked by the watcher, told by the Inbox |
| **Executor** `tools/executor.py` | `actions` | propose | called by handlers and by people |
| **Inbox** `api/routes/dashboard.py` | `actions.status`, `contacts` | approve, reject | sends mail, records chases |
| **Alerts** `alerts.py` | `alerts`, a memory per process | raise, clear | called by runner, scheduler, watchdogs |
| **Flags** `flags.py` | `customer_flags` | raise, upgrade, clear, override | read when quoting; raised by the credit watcher |
| **Experiments** `experiments.py`, `brain/strategy.py`, `brain/outcomes.py` | `experiments` | suggest, accept, start, close | suggested by the strategy watcher, judged by the outcomes watcher |
| **Agent and engine** `reasoning/` | `chat_turn` | ask, call tools, phrase, guard | read tools, and the executor for actions |
| **Memory** `memory/store.py` | `memory_fact` | tell, supersede, decay, read | read by the engine |
| **Brief** `brief.py` | `brief_deliveries` | build, send, log | cards, experiments, mail, alerts |
| **Health** `health.py` | `worker_heartbeats` | beat, prune, judge | worker writes, API reads |
| **Usage** `usage.py` | `usage_events`, a memory per process | record, count runs | the milestone board |

There is one PostgreSQL database and several processes: API processes with many
request threads, one worker that ticks (`worker.py`), and the sync threads of the
API process. They share nothing but the database. Almost every function
commits by itself, so that a pass of several commits can be cut anywhere, and
almost every UPDATE names a row's id and not the status that was read. That is
where the hard behaviour of this system is: between two commits. The second
source of difficulty is that every figure is a query of its own: nothing but the rows
they read ties two screens together.

## What each component must get right

* **Collections**: one open promise a customer; a promise judged broken really was
  unpaid at its day, and a verdict stands; a rung was delivered before it is stood on; what is
  remembered of a customer is what the log of chases says; nobody is chased through a hold; everybody
  who owes is chased in the end, and again after having cleared.
* **Event bus and executor**: a fact is raised once; an event is closed once, under the
  action it led to; a proposal is not made twice; every event is closed in the end.
* **Inbox**: a decision is final; "executed" means delivered, once, by a person who may.
* **Alerts**: one email a condition and cooldown; quiet only because somebody was told.
* **Runner**: a watcher halts after its failures in a row, always and not otherwise, and when it halts it is
  said; every pass leaves a closed row; every due watcher runs.
* **Sync**: "complete" means every page is stored; a resumption leaves no hole; only a
  restart sets a migration back; "running" means somebody is at work; one full sync at a time;
  a token is exchanged once a cause.
* **Cache and canonical layer**: a second sync of a line updates its row; the canonical
  layer says what the cache says, however syncs and rebuilds cross; an invoice inferred
  to be paid was paid; a run that is over says so.
* **Figures and cards**: parts add up to wholes; an invoice counts once; consecutive windows
  meet; what a card or a metric says is what the screen says; no urgent card is missing from the
  brief; every suggestion can be judged.
* **Flags**: they say what the ledger says, and a person's override stands until
  things get worse.
* **Experiments**: nothing is suggested twice while it is open.
* **Agent**: a figure that nobody computed is never stated with certainty.
* **Memory**: what is current is what was told last; what was superseded stays so.
* **Brief**: one workspace's failed query is not another's; what is logged as delivered arrived;
  silence is alerted.
* **Health**: a dead worker is noticed, a live one is not reported.
* **Usage**: every day of use counts, and the week under way never breaks a run.

## The modules

| module | models | checked in |
|---|---|---|
| `Ladder`, `LadderDays` | the pure rules of `collections.py`: `rung_for`, `decide`; a silent customer over days | `MCOffice` |
| `Chasing` | one workspace's collections over days: sync, promises, disputes, pauses, the two watchers, the consumer, the decision and its bookkeeping; one action per committed transaction, and for promises the reads before it too | `MCChasing` |
| `EventBus` | the consumer's pass statement by statement, with row locks, open transactions and any number of processes | `MCEventBus`, `MCWorker` |
| `EventLife` | what the bus promises of an event: raised once, open, closed once with one closing | implemented by `EventBus` |
| `WatcherRunner` | due, run, close, count, halt; a worker and people | `MCWorker`, in `Halts` |
| `Halts` | `WatcherRunner` and `Alerts` together: a halt, the report of it, and what becomes of the report | `MCWorker` |
| `ActionLifecycle` | what a proposal promises: proposed, then rejected, or approved until it is delivered and executed | implemented by `Inbox` |
| `Inbox` | `actions_decide` read by read, write by write, with the mail provider | `MCOffice` |
| `Alerts` | suppression, sending and taking back, with and without the database; processes that die and start again | `MCOffice`, in `Halts` |
| `CreditFlags` | `assess`, the credit watcher's pass commit by commit, a person's override and clearing | `MCOffice` |
| `Experiments` | suggestions, a person's experiments, starting and closing, commit by commit | `MCOffice` |
| `Tokens` | the token caches of the two adapters, their locks, and the retries of a request | `MCOffice` |
| `FullSync` | the full sync's two critical sections, its worker threads and their time limit | `MCOffice` |
| `Brief` | the morning job over all workspaces on one database connection | `MCOffice` |
| `Heartbeat` | beats, pruning, the choice of a heartbeat, the watchdog, a laptop beside the worker | `MCOffice` |
| `Memory` | `write_fact`, `supersede_fact`, `run_decay` at READ COMMITTED, and the two readers of payment terms | `MCOffice`, and alone |
| `Asking` | `POST /ask`: the agent's loop, its guard, the fallback engine, the phrasing, the saved turn | `MCOffice` |
| `Usage` | the day recorded once a process, weeks and runs in a trailing window | `MCOffice` |
| `Sync` | one report of the TranzAct migration: cursor, chunks, refreshes, per-report threads, "sync all", the hourly job | `MCData` |
| `Books` | each of fourteen reports from source through cache and snapshot to the canonical layer, by several threads | `MCData` |
| `Ledgers` | the canonical tables as the queries see them, and what business does to them | `MCFigures` |
| `Figures` | the queries of `schema/queries.py` as operators over those tables | `MCFigures` |
| `Pulse` | cards, severities, the brief's choice, suggestions, metrics and verdicts | `MCFigures` |
| `LadderTheorems` | proofs about `Ladder` | |
| `ChasingTheorems` | proofs about `Chasing` | |
| `WorkerTheorems` | proofs about `EventBus`, `WatcherRunner` and `Halts`, and about their composition `MCWorker` | |
| `AlertsTheorems` | proofs about `Alerts` | |
| `MessagesTheorems` | proofs about `Inbox`, `Memory` and `Asking` | |
| `DataTheorems` | proofs about `Sync` and `Books` | |
| `FiguresTheorems` | sums over finite sets; proofs about `Ledgers`, `Figures` and `Pulse` | |
| `OfficeTheorems` | proofs about `LadderDays`, `FullSync`, `Tokens`, `Experiments`, `CreditFlags`, `Heartbeat`, `Brief` and `Usage`, a section each, and about their composition `MCOffice` | |

`MCOffice`, `MCData` and `MCWorker` put modules that share no state into one run: a constant
(`Parts`, `DataParts`, `WorkParts`) says which, a behaviour moves one of them, and the others
rest in one initial state. The states of such a run are those of its parts added up, not
multiplied; nothing is claimed about how the parts interact, except in the part `halts` of `MCWorker`, whose
module *is* two of the others in interaction. Setting the constant to one part explores that part alone. That
a part of the composition behaves as it does alone is proved (`PartsKeepTheirSpecs`, `WorkPartsKeepTheirSpecs`).

The same step is looked at twice where it matters: in `Chasing` the consumer is
one process and a decision is one step, which leaves room for days, balances and
promises; `EventBus` and `Inbox` take those two steps apart and leave the
calendar out. No property of `Chasing` counts how often an action is logged, or says that a logged action is
executed: two decisions at once can break either, and `DeliveriesAreAccounted` of `Inbox` says what holds then. In the same way `Books` has one line's way through the tables and
`Figures` starts from tables that are there.

**Ladder.** `Earned` is the rung lateness alone justifies, `rung_for` the one
above the last delivered at most, with the extra step for reminders that were
ignored; `decide` its refusals in the order of the code. `LadderDays` steps a
customer through days without an answer.

**Chasing.** `cs` is `collections_state`, `ledger` what `canon_ar_flat` sums to,
`events` the rows of those two types with the dedupe key taken apart, `actions`
the ledger of proposals. Promises are taken apart. `request` is a thread inside `record_promise`: it has read the balance and
found the open promises its UPDATE will cancel (`AskPromise`), and commits or fails later
(`RecordPromise`, `AbandonPromise`). `pass` is a run of the promise watcher: the promises its SELECT chose (`SelectDue`),
those it has weighed against the balance of the moment (`JudgePromise`), and, once the verdicts are committed
(`SettleDuePromises`, by id, whatever the promise has become), the broken ones it has still to announce
(`EmitBrokenPromises`). Any number of requests and passes run at once and a pass may die anywhere. Row locks are left out: they
order the commits, and every order is there. The balance of a request and the rows its UPDATE finds are read at one
moment. `DetectOverdueRung`
looks and raises in one step and reads the first `MaxRowsRead` rows (the code's 400). `job` is the event the consumer works on, between the commits of its handler.
`MinAmount`, `FromDays`, `CooldownDays`, `PromiseGraceDays`, `IdempotencyDays` and
`MaxEventAge` are the code's constants scaled down; `Balances`, `Dates`, `MaxDay`,
`MaxInputs` and `MaxActions` bound the horizon.

**EventBus.** A pass is `fetch` (expire, then lock a batch), and for each
event the handler's check, the insert (which commits) and the closing. `marks` is
what the open transaction has written; a commit or a rollback ends it, and with
it *all* its row locks. A row that another transaction has locked makes a
statement wait, which is an action that is not enabled. `Mixes` says what the
events are: drafts of either handler, holds, notes, types nobody handles. `EventLife` is the abstract
specification of one event, and `KeepsEventLife` the refinement: `crossed` says whether passes have overlapped.

**Inbox.** A request reads the row, may store a contact, looks up the address, sends,
records, and logs the chase; a crash can fall between any two. The provider may
deliver and lose its answer (`LateAnswers`). `ActionLifecycle` is the abstract
specification and `KeepsLifecycle` the refinement: `delivered` is what is in the
outbox.

**Alerts.** Time is the cooldown alone: a mark is `recent` or `old`. `sending`
is what a process is delivering, with what it has to put back if it fails. A process that dies loses its
stand-in memory (`NoMemory`), in the middle of a send (`Lose`) or at rest (`Restart`).

**WatcherRunner.** `overdue` is the order in which watchers become due. `streak`
is kept by the model only: the failures in a row as the run log shows them, against
`errors`, the counter the code keeps; it starts again when a person turns the watcher on, as the counter does.
`irregular` says whether two passes of a watcher have overlapped or one was cut off. The alert of a halt is a plain step here, since
`_alert_if_halted` lets nothing out.

**Halts.** The two modules above share their processes, and a watcher is a condition. `halting` is the watcher that
a process has just counted to its halt and is to report. A report is claimed, or suppressed within the cooldown of an
earlier one; then it is delivered, or fails and puts its mark back, or is lost with the process. `told` holds the
halted watchers somebody was emailed about, `unheard` those the latest report of which came to nothing; both are
written by the model only. Every other step of `WatcherRunner` and `Alerts` is as it was.

**CreditFlags.** `flag` is the live row of `customer_flags`; a pass reads the ledger once
(`ledger`, `before`) and then raises, emits and clears one commit at a time, while people
clear and override. A position of a customer says what `assess` asks of it; which of the
four positions a pass reads is left open each time. One pass runs at a time: a run a person asks for
(`POST /brain/run`) beside the worker's is left out here (the runner's overlap is in `WatcherRunner`).

**Experiments.** A suggestion is inserted and stamped with its dedupe key in two commits;
the closer lists rows and updates them one by one by id. A person may set any status from any other, as
`update` lets them, and only the index refuses; when a window ends depends on dates people may choose, so any of the running rows may be due.
`start_accepted` reads a baseline again when it starts an experiment, so that what could be judged when it was
filed may not be when it starts (`brain/outcomes.py:125`): `Pulse` is about the baseline of the filing. `seized` remembers suggestions
that a person took up before the stamp.

**Tokens, FullSync.** `login_lock` is held throughout an exchange. TranzAct looks before and under the
lock and a thread answered 401 skips both looks; Zoho looks under the lock and a 401 empties the cache.
Testing a TranzAct connection (`Test`) forces an exchange after which nothing is sent. TranzAct tries a request
three times and Zoho four; a request for the catalogue of reports is one that is not tried again.
In `FullSync` the check and the setting of `running` are separate steps, as the code has them, and
a worker thread past its time limit stays at work beside the next report's. What raises outside a report ends
the sync (`AbortSync`); an exception before the thread's `try`, in setting up its state, is left out.

**Brief.** `aborted` is the state of the one connection's transaction: a failed query makes every
later query fail until somebody rolls back, which decides who suffers from whose failure. `lost` holds the mornings on which
the connection itself went away: then everything fails, the rollbacks too, until the next morning. `arrived`
is what the mail provider delivered, `deliveries` what was logged.

**Heartbeat.** A unit of time is `BEAT_SECONDS`; what is due in a unit happens before it is over.
`truly` is when each scheduler really beat last, against the rows that pruning may have taken. Two things are left out: the choice
is among the latest 20 rows (`health.py:187`), which is every row while no more than 20 schedulers
beat within the pruning age, and a look that cannot reach the database, which reports nothing and is followed by the next.

**Memory.** Each write is a transaction at READ COMMITTED: its UPDATE takes the rows committed when it
began (`todo`), waits for those another has changed, looks at them again, and sees no new ones.
`summary_terms` and `payment_terms` are the two readers, whose orders differ.

**Asking.** A text is the set of rupee figures in it. What the model says is any set of figures of
the data and one that nobody computed; the guard, the single correction, the gates and `confidence` are
those of the code. `query_failed` is the aborted connection, as in `Brief`.

**Usage.** `_seen` is what each process remembers of the day. Weeks and windows are scaled (a week of
three days, a target of two, a window of eight days), and dates go far enough for a
window to leave its first week behind.

**Sync.** `cursor` is the row of the report in the cursor table, `stored` the pages
whose rows have been upserted, `status` the web process's memory of the report. A
thread (`job`) reads the cursor (`Begin`), fetches and stores a chunk (`Walk`) or
the newest pages (`Refresh`), and writes the cursor it worked with (`Save`), and so on
until its last write. `Chunk` is everything one call of `fetch_report` may come back
with: full, out of time, at the total, at an empty page, at a page that failed and
passed for the end. Simplifications: a page counts as one row; the source stays as it
is during a sync; there is one web process, and the worker is separate from it with a
status of its own that nobody reads.

**Books.** What is in the key of a cache row decides what a second sync does to it, so each report
has its key columns here; the other columns are one figure and whether something is open (a balance, a
status). A pipeline run and a rebuild are sequences of statements; the rebuild's first write takes the
customers' rows (`canon_lock`) and later rebuilds wait there with what they have read. `edited` and
`paid` remember what the source has shown, `missed` that a thread died or could not record its
failure, `met` that two rebuilds were open at once.

**Ledgers, Figures, Pulse.** A sheet of the books is a set of rows (sales, their receivables and daily
copies; a history of sales and purchases; orders; purchase orders; quotes) that business adds to, day by
day. Every query is an operator named as in the code, translated from its SQL: its WHERE
clauses, joins, groups, windows, NULL rules and LIMITs. Figures are whole; percentages are cut; names and
formatting are left out. TLC asks every query about every book within the bounds. `TRAIL`,
`COVER`, `BUCKET`, `MAX_ROWS` and so on are the code's constants scaled down, so that a window has an inside, an
edge and an outside, and a list is cut: `MAX_CUSTOMERS`, `MAX_SKUS`, `MAX_INVOICES` and `MAX_CATEGORIES` are the caps of
that name, `MAX_POINTS` the 1500 days of a daily chart, and `MAX_ROWS` stands for the caps written as a number (five
changes, six movers, ten customers to chase). `Top` is any choice of that many greatest, since the order of
equals is the database's. A property about the parts of such a list says *equal* where the list has room and *less* where it is cut.
The cuts that are left out are of lists nothing is claimed of, or that are only shown: the rows of `reorder_alert`,
`ar_ageing_over` and `overdue_pos`, the vendors of `open_pos`, the first six of `get_customer_movement`; the
window of `get_reorder_status` (a year) and its LIMIT, so that all it might name are suggested for; the LIMITs of
`snapshot_dates` (200 days) and of the inferred payments (500), past which the oldest drop out of the count; and those of the
week's contributors.

**History variables.** Some promises are kept unless something particular has
happened, and the property says exactly what: `crossed` remembers overlaps of passes
(`EventBus`) and, in `Sync`, overlaps of threads, chunks cut short and
failures between status and thread; `irregular` (`WatcherRunner`) overlaps and cut-off passes; `orderly`
(`Inbox`) the actions decided one at a time, uncut, on true answers; `rivals` and `overtaken` (`Chasing`) the
customers whose promises were recorded side by side and the promises closed while a pass had them in hand; `outages` and `losses` (`Alerts`) uses
of the stand-in memory and sends that died; `missed` and `met` (`Books`), `writes_overlap` (`Memory`),
`overlapped` (`FullSync`), `seized` (`Experiments`), `stirred` (`CreditFlags`), `hurt`, `died` and `lost` (`Brief`, of which `lost` is also the
state of the connection). They are
written and read by the model only. The interleavings are all explored: a property with such a premise still
says what must hold in every state that is not excused, and the section on disagreements says what happens in
the others.

## The runs

| run | question | bounds |
|---|---|---|
| `chasing_safety` | Do the stored facts stay consistent (`RecordsAgree`: one event a fact, the ladder remembers what the log says, rungs were delivered; `PromisesAreHonest`: one open promise, broken means broken; `ProposalsAreSpaced`; `AgentSkipsNoRung`; `NothingIsUndone`: verdicts final, rungs fall only when cleared)? | one customer (facts of two never meet), two passes of the promise watcher and two threads that record promises (each pair interchangeable: `MCSymmetry`), three days with gaps of one and two, three inputs, two proposals: enough for two promises side by side, a promise overtaken in the hands of a pass, grace, verdict, chase, clearing and a second chase |
| `chasing_liveness` | Is every event closed, and does the cap of events a pass starve nobody the query reads? | three customers, two rows read and a cap of one, so that one waits behind one that was raised and one is not read; three days, so that an event can pass the age limit; no proposals, which are not needed to close an event |
| `chasing_start_again` | (refuted) Is a customer who cleared and is late again chased again? | one customer, cleared once |
| `bus_passes` | Do drafts and closings agree and name each other (`LinksAgree`), is there one live proposal a customer while nothing crossed? Do the passes implement the life of an event (`KeepsEventLife`)? | two processes, one person asking, two events of each mix, one fault at any statement |
| `worker_gets_round` | Does every pass end and every event close (`ConsumerGetsRound`)? Does a watcher halt after its failures in a row and not otherwise, with a closed row for each pass (`PassesAreAccounted`; turning a watcher on starts the count again), does each due watcher get its turn, and is a halt said (`HaltsAreSaid`)? | two consumers with a batch of one, so that events queue, and one fault; two watchers of which one runs a tick, a worker and one person, a limit of two failures for the code's three, one pass cut off; in the part `halts` one of the two watchers is turned off throughout (`LeftAlone`: alerts of two never meet), with one outage of the alerts table and one process lost in a report, so that a report can be sent, suppressed by table or memory, fail, or be cut off, and a second halt follows |
| `bus_second_worker` | (refuted) Do two processes propose an event once? | two events for two customers, no fault |
| `office_parts` | The twelve parts of the back office, each on its own; see below | see below |
| `memory_terms` | (refuted) Does a new value supersede the old one? | two writers, two facts |
| `data_parts` | Is what a migration shows true, and does it go forward? Does the canonical layer catch up, do resyncs not inflate, are failures recorded, are inferred payments real? | `Sync`: a report of one page and reports of three (two chunks, the second not full) with and without a total and either answer to a page beyond; two report threads, "sync all" and the hourly job, any two at once; faults and restarts unbounded. `Books`: fourteen reports, two threads, lines corrected, paid or taken out once, one fault, two days |
| `sync_hourly` | (refuted) Does the hourly refresh leave a migration in progress alone? | the same with one report thread |
| `data_paid` | (refuted) Is a paid invoice no longer owed? | one Zoho report, no fault |
| `figures_screens` | Do sales, receivable and stock screens agree with each other and with cards, does every urgent card reach the brief, can every suggestion be judged? | two customers, two items (interchangeable), four days in months of two, two entries a sheet, three sales in a history; every cap of a list is one, so that two customers or items are already too many, and a chart has three points for four days |

`office_parts`, part by part:

| part | properties | bounds |
|---|---|---|
| ladder | `LadderIsFair`: the rung is the firmest the policy justifies, and every refusal but a dispute lapses | the code's own thresholds; 4800 situations, each followed for 32 days, past every threshold that is near |
| flags | `FlagsAreKept`: a pass leaves flags that match the ledger it read, overrides stand, nothing is downgraded quietly | two customers, four positions, one proposal a pass, one pass cut off |
| log | `SuggestedOnce` | two rows, one key, two strategists, one pass cut off, every change of status |
| tokens | `OneExchangeForAll` | two threads, three tokens, three causes, the code's attempts (three and four); both providers, and tests of the connection |
| full | `OneFullSync` | two requests, a fast and a slow report, a sync that is aborted |
| alerts | `QuietIsEarned`: one email a cooldown, and only a delivery quiets | two processes, two conditions, two outages, one send lost |
| inbox | `DeliveriesAreAccounted`, `KeepsLifecycle` | two threads, three requests, two people of whom one may not approve money, a reminder and a hold, late answers, one crash |
| brief | `BriefsAreAccounted`: no failure spreads but that of the connection, the log is true, silence is alerted | two workspaces, a reader each, two cards, a Saturday to a Monday, two faults, lost connections among them |
| beat | `WatchdogIsRight` | stale after two units, checked every two, pruned after five, nine units: a death, a pruning and a return fit in |
| memory | `CurrentIsLatest` | two writers, a sweep, three facts |
| ask | `GuardHolds` | one figure, a count and an invented figure; three calls; one turn and what came before it |
| usage | `UsageIsEvidence` | two processes, weeks of three days, a window of eight, twelve days |

Each property of a passing run has a mutant: a plausible slip in one definition that
makes TLC refute it under the same bounds (`PROJECT.json`, "mutants"; the slips stand
beside the definitions they replace, marked `Slip`).

Deadlock is checked where somebody waits for a lock or for a turn: in `bus_passes`, `worker_gets_round` and
`data_parts`. It is not in `Chasing`, whose days end; in `figures_screens` and `memory_terms`, whose books
and facts are bounded; and in `office_parts`, most of whose parts come to an end (requests answered, days over).

## Fairness

Safety runs assume none. The liveness properties assume what the worker's loop provides:
each tick runs again (weak fairness of the passes), and a process that is inside
a pass goes on until it ends (weak fairness of its next statement). Nothing is
assumed of people, of the mail provider or of the sync: deciding, promising,
answering, turning watchers on have no fairness. Faults are bounded there, which says
"not failing for ever": an event whose handler fails on every pass is closed by age
only, and that is what `BacklogIsCleared` checks. In `worker_gets_round` the fairness of a
statement waiting for a row lock is weak: the lock is held by a pass that goes on,
and PostgreSQL wakes the waiter. `Sync` has no liveness property; `WalkMovesOn` (part of
`WalkGoesForward`), that each chunk ends the walk or moves it to a later page of a report of
finitely many, is the argument that a walk whose steps succeed ends. That the watchdog notices
(`DeadWorkerIsNoticed`) is a bounded promise in units of time, stated as an invariant, so no
fairness is needed.

## The proofs

`tlapm` checks every proof to its leaves; no fact is assumed but the `ASSUME`s of
the modules, which TLC evaluates in the runs. They state the type of the constants and, beyond that: that the days
of the ladder ascend; that processes, threads and people are finitely many where the model counts them; that event
numbers, row ids and figures are natural numbers where it picks the least; in `Usage`, that a week qualifies by at least one of its days; and in `LadderDays`, that the horizon lies past every promise, pause and cooldown of its situations,
without which nothing could be said of a last day. All but the last describe what the program's constants are.

Each theorem `Spec => []P` goes by an invariant that is proved inductive (`...AtFirst`, `...Stays`, one lemma for each
action or group of actions) and that implies `P`. What is in the invariant beyond `P` is the reason why
`P` holds.

**Collections** (`LadderTheorems`, `ChasingTheorems`, `OfficeTheorems`).

* For every schedule of four ascending days and every account, `rung_for` climbs at most one rung and answers 0
  below the first day (`RungForClimbsOneStep`); a hold of any kind, or a chase within the rung's gap, means no proposal (`DecideRespectsHolds`).
  `EarnedExists` shows that the CHOOSE behind `Earned` is not vacuous.
* `TheLadderIsAlwaysFair`: the rung that `rung_for` computes is the firmest that lateness and silence justify,
  by a definition that does not compute it (`FirmestJustified`; `StepsWorth` takes the
  division of the code apart), and every refusal lapses (`RefusalsLapse`). The argument is about operators;
  the days are needed only for the last of them.
* For any customers, balances, days and bounds, `TypeCorrect` proves `TypeOK` with `TypeInv`, which adds what
  the types alone do not say: that the fields of rows in a sequence are typed. The others
  are inductive relative to it, and each takes the form *who writes this
  column, and what held when it did*: `EventsAreFacts` from the guard of emit;
  `TheLadderIsOfTheLog` from the fact that only `record_chase` writes either side, and the reset only
  takes away from one; `RungsAreDelivered`, whose argument needs that a reset only lowers a
  rung to 0; `NoCustomerIsProposedTwice` from the idempotency window and time that
  only goes on (`CreatedSane`, `AppendSpaced`).
* `VerdictsStand`, `OneIsOpen` and `BrokenIsBroken` are about requests and passes that have promises in
  hand. A request that nobody records beside has found every open promise of its customer (`Unrivalled`); a
  promise that a pass has in hand has had its grace and is open, or it is `overtaken` (`HandsFair`). So a verdict is written
  over another only where a history variable says so. `NobodyIsRushed`
  needs `RaisedInReach`: an event waits while its customer may fall to the bottom, so what
  makes its rung legitimate is the log of deliveries, which only grows, and not the
  customer's own rung. `OneIsOpen` and `OnlyTheClearedFall`, which the listed theorems rest on, are about single tables.

**The worker** (`WorkerTheorems`, `AlertsTheorems`), for any number of processes, events, customers, watchers and faults.

* `TypeCorrect` of the consumer is not a matter of types alone: the ledger is bounded, and two drafts may be under way,
  so `RoomIsKept` counts the drafts that are about to be inserted with the rows that are there.
* `ProposesOnce`: two statements, a check and an insert, stand between an event and its proposal. While nothing crossed
  one process at a time is off idle (`OneAtATime`), and so what it saw when it checked is still true when it inserts
  (`CheckHolds`), through commits, rollbacks and deaths in between.
* `LinksAlwaysAgree`: a draft is committed before its event is closed. Until then it is the passing process's own, about its
  event's customer, and no closing names it (`MineIsMine`); what a pass that nobody crosses has in hand is pending
  (`HandsArePending`), so that the closing takes effect when it commits, and `TiedIsNamed` follows. The half
  of `LinksAgree` that says that what is named exists and is about the same customer needs no such premise, and none is used.
* `PassesAreAlwaysAccounted`: a pass closes its row in one transaction and counts in the next, so that between
  the two the counter is one behind the rows. `CountFollowsRows` says that otherwise it is what the rows say, and that counting the
  verdict in hand makes it so, also when a person turns the watcher on in between: hence no watcher is halted early and none is
  spared. The rows
  that say running are counted against the passes under way and those cut off (`RowsAreClosed`).
* `PassesKeepTheEventLife` is the refinement `Spec => KeepsEventLife`: an emit is `Raise`, a commit of any transaction is
  one `Close` of all it has marked, and everything else leaves the events as they are. What it needs beforehand is that a
  transaction marks an event at most once and only what was raised (`HandsAreOnce`), and, for the promise that a closing is
  never touched, that what a pass that nobody crosses has in hand is pending, which is `HandsArePending` of the previous theorem.
* `HaltsKeepTheirParts` proves `HaltsSpec => RunnerSpec /\ AlertsSpec`: the two together do nothing that either could not
  do by itself, given that a process holds a halt exactly while the runner has one to report (`HoldsItsHalt`). So what is proved
  of the runner and of the alerts holds of the two.
* `HaltsAreAlwaysTold`: that a halted watcher has been told of, is about to be, or that its latest report failed, is not inductive:
  a report may be suppressed, and then it is the earlier email that has to answer for it. `MarksAreAnswered` says that every mark
  that suppresses stands for an email in this cooldown, a send under way, or a report that came to nothing,
  and `ReportsItsHalt` that what is sent is about the watcher that is held. `HaltsAreAlwaysSaid` carries it to the
  composition by `WorkPartsKeepTheirSpecs`.

**What is sent** (`AlertsTheorems`, `MessagesTheorems`).

* `QuietIsAlwaysEarned` is two theorems. `EmailedOncePerCooldown` needs `OneClaim`: at most one of
  *delivered in this cooldown* and *being sent by somebody* is true of a
  condition, by one process, and while it is the table says `recent`. The property
  alone is not inductive: two processes that are both sending have emailed nobody yet.
  `QuietMeansTold` needs the other side of it (`AllBacked`): every mark that
  quiets, in the table or in a memory, is backed by a delivery or by a send that will
  take it back; and that what a send would put back does not quiet by itself (`RanOut`).
  Both theorems hold for any bounds, as the properties do: the first until an
  outage, the second until a send is lost.
* `DecidingKeepsTheLifecycle` is the refinement `InboxSpec => KeepsLifecycle`, for any
  number of actions, threads, people, requests and crashes. Initial states map to initial states, and
  each step of a request maps to a step of `ActionLifecycle` or to a stutter. That needs three
  facts about an action while it is decided in an orderly way: one request has it (`OneHand`);
  what that request read of the row still holds (`ReadHolds`); and a message that is out is known to the
  request or to the row (`OutIsKnown`).
* `DeliveriesAreAlwaysAccounted` is about all actions, orderly or not. A request that was told its message is
  out may still record a chase, so `ChasesAreCovered` counts those requests (`Owed`) with the chases that are
  recorded: together they are never more than the deliveries. A send raises both sides by one, a record
  moves one over, and a crash or a lost answer only lowers the left one. `ApproversMay` carries the permission
  that was checked when the request came in to the moment of sending.

**Sync and books** (`DataTheorems`).

* The invariant `IInv` says `Sound` of the cursor **and of the copy of it each
  thread works with**: the pages before its position are stored, its count is its
  position less one, and when it says complete all pages are stored. It is
  inductive although an old copy may overwrite a newer cursor, because stored pages only
  grow: a copy that was sound stays sound. `CompleteIsStored`, `ResumesWithoutHole`,
  `RowsAreOfTheWalk` and `WalkTerminates` follow. `RunningIsWorking` adds
  `StatusAccounted`, that a status of running belongs to a thread or is stuck;
  `ProgressIsKept` adds `Apart`, that with no overlap at most one thread is past its
  `Begin`, and what it will write is ahead of the cursor.
* `ResyncsNeverInflate` (`RowsInv`): the rows of the cache have distinct keys, a run holds each line once because pages are
  read in turn, and a line nobody edited is wherever it is what it was at first, in the source, in the cache and in the hands of
  every thread (`Original`). So two rows of one line, whose keys differ, are of an edited line. The proof goes through the
  columns of each report's key (`KeyIs`, `OneKeyOneLine`).
* `FailuresAreAlwaysRecorded` is inductive as it stands, beside `RowsInv`.
* `InferredPaymentsAreAlwaysReal` (`DaysInv`): what an earlier day's snapshot has, a later one that has anything has too,
  unless it was paid. It holds because a snapshot is taken from the cache, which no run takes rows from, and
  not from what the run has fetched.
* `CanonAlwaysCatchesUp` (`CanonInv`): *what the cache has is still to be read by somebody, or has been read by the one
  that writes last, or is there.* A rebuild reads lines and headers while it holds the customers' rows, so
  `LinesCome` and `HeadsCome` survive any crossing of rebuilds; it reads what customers owe before it
  holds anything, so `OwesCome` needs that one rebuild at a time is open (`OneIsOpen`), which is what
  `met` excuses. The sums are left uninterpreted: a rebuild is compared with the cache by what it
  has read.

**The rest of the office** (`OfficeTheorems`), a section for each module, all constants arbitrary.

* `OneFullSyncAlways`: between the look and the flag there is room for a second caller; while none came (`overlapped`),
  one caller at most is past its look, and the flag is set exactly while its sync is under way.
* `ExchangesHaveCauses`: `ExchangesAreOwed` counts what may still be exchanged: the threads made to renew, by a 401 or a
  test, and a cache with nothing to offer, together with what was issued, never exceed one more than the causes.
* `NothingIsSuggestedTwice`: two suggestions of one key are kept apart by the unique index only once they
  are stamped; `HandsAreSound` and `OthersAreStamped` say of each row whose hands it is in, or that it carries its key.
* `FlagsAreAlwaysKept`: `DealtWith` says of each customer nobody acted on that they are still ahead of the pass or
  have the flag the ledger calls for, and `OnlyTheClearableGo` that the pass clears nobody else.
* `WatchdogIsAlwaysRight`: `WatchdogIsPunctual` ties the last round of the watchdog to what it told; `RowsAreBeats` says
  that a row is there while it is young enough to matter, pruning included.
* `BriefsAreAlwaysAccounted`: an aborted transaction stays within the workspace whose query failed (`AbortsAreOwn`), a lost
  connection within its morning, and
  between a mail and its row something is always known of it (`MailsAreAccounted`).
* `UsageIsAlwaysEvidence`: the loop over the weeks is a recursive function; that it exists (`CountExists`) and counts back to
  the last week without enough days (`CountIs`) follows from least counterexamples (`LeastExists`, a well-founded order), not
  from an induction over data. `RunsAre` then ties it to the rule that `usage.py` states, and `CountStands`
  says what losing the first days of the window can do to a count.

**Figures and cards** (`FiguresTheorems`), for any customers, items, days, entries and lengths of windows.

* A figure is a sum over a set of rows. The first part of `FiguresTheorems` proves what a sum is without induction over its
  definition: a function of the subsets that adds up member by member exists (`IterateExists`, by an induction over
  sizes that uses a well-founded order and a set instead of a predicate), and from it the sum of two parts (`OverUnion`), of a
  partition (`OverParts`), of a linear combination (`OverLinear`), and that larger terms make larger sums (`OverLess`). A
  figure that has to agree with another is then a question about sets: do the parts make a partition, are the windows apart?
* `BooksKeepTheirShape` proves the invariant `LedgerInv`: the lines of an invoice were made out together and print
  the same total (`LinesKept`), a balance and its copies belong to one invoice, a stored lateness is of today or older
  (`BalancesKept`), what is pending is open (`OrdersKept`), and, of the daily copies, that what is
  owed is on every copy since it was and that what has gone from a copy does not come back (`CopiesKept`). The other theorems
  need nothing else of a behaviour.
* `SalesAlwaysAgree` and `ReceivablesAlwaysAgree` follow. What a list of any length shows is the part of a partition its
  choice keeps (`ListIs`): the whole where nothing is cut, no more where something is. `AverageIs` and `InvoicedIs` are the two that count; the gate
  (`GateIs`) is a comparison of two maxima; that nobody in credit hides a debt is `PaidDoesNotCount`.
* `CardsAlwaysAgree`: the movements that make the drift and the changes of the week are differences of two partitions, before
  their LIMITs. A list that is cut still has its greatest (`TopExists`, `CutIs`): so money that slid has a mover to name
  however short the list, and the listed customers' lateness is the whole book's if nobody is cut, and never more. An inferred
  payment was made because the copy after it is complete (`InferredOwesNothing`), and is inferred once because nothing comes
  back (`InferredOnce`), whatever days were not copied.
* `UrgentAlwaysReachesTheBrief`: four cards can be urgent (`SeveritiesAre`), so a brief of four has room for every one of them.
* `SuggestionsAreAlwaysJudged`: a customer is won back only after longer than his middle gap, and the middle of the gaps
  is one of them and positive (`MedianIs`, by `PlacesAre`: an order of a finite set has every place); the verdict is
  monotone by arithmetic (`BetterIsNoWorse`).
* Here the assumptions say more than types: customers and items are finitely many, an order counts as a habit from the second
  on, thresholds are positive, and the brief has room for four cards (the code's `BRIEF_MAX_CARDS` is 6).

**Memory and the agent** (`MessagesTheorems`).

* `TheLatestIsCurrent`: a row another transaction has changed is locked, so
  what each has changed is apart and active until it ends (`Held`); a row that names its successor was one of
  them when the successor was committed (`Successors`); and a write that is alone finds every
  active row, since only a write makes a row active (`Alone`).
* `InventedIsNeverCertain`, for every set of figures, budget of calls and length of
  the thread. `EvidenceIsOfTools` is the strengthening (there is no evidence before a tool was used, and a
  correction is asked only against some), `ConfidenceIsEarned` the lemma about the operator that
  labels an answer.

**The compositions** (`OfficeTheorems`, `WorkerTheorems`).

* `PartsKeepTheirSpecs`: in the behaviours of `MCOffice` that are about a part, the part's own specification holds, since a
  step moves that part or leaves its variables alone. Each theorem about a part is therefore one about the run;
  `WorkPartsKeepTheirSpecs` says the same of `MCWorker`.
* `OfficeIsTyped` is `TypeOK` of the run: the types of the twelve parts, each from its own theorem or invariant. Three needed more
  than the types: a request for a full sync that waits has a report it waits for (`FullSyncTyped`), a decision about to
  be logged is about a draft (`InboxTyped`), and the morning job keeps its types (`BriefIsTyped`) within the invariant of its account (`BriefInv`).

**Only model-checked.** Every invariant and every action property of the passing runs is proved. The liveness properties
(`BacklogIsCleared`, `EveryEarnedRungIsRaised`, `ConsumerGetsRound`, `WatchersGetTheirTurn`) need fairness and ENABLED, which
the prover does not reach, and stay with TLC. In the runner the order of a tick is made by
`SelectSeq`, of which nothing can be proved here: the theorem does not rely on it, so it holds for ticks
in any order and of anything.

## Findings

Five sentences of the repository are refuted by a run; `PROJECT.json` quotes them
at their lines, and TLC's trace can be followed in the code.

* `chasing_start_again`: a customer who cleared is to start from a first reminder, but
  the dedupe key names customer and rung "ever", so the second cycle's event is suppressed.
* `bus_second_worker`: a second worker is to be safe because of SKIP LOCKED, but the locks end
  with the first commit of the pass.
* `sync_hourly`: the hourly refresh is not to disturb a migration, but it writes back
  a cursor it read minutes earlier.
* `data_paid`: receivables are to be the invoices still carrying a balance, but a Zoho invoice whose
  balance has gone to zero drops out of what is mapped, and its old row stays.
* `memory_terms`: a new value is to supersede the old one, but `write_fact` supersedes active rows only: terms
  that were stale stay, and the answer on late payers takes the oldest of a key.

### Disagreements without a run of their own

These are behaviours of the models above, excused in a property's premise or left out
of it, or were met while translating a line. They can be followed in the code as named.

Collections, bus and Inbox:

* A person's draft with the default tone takes the tone's rung, not the one lateness has reached
  (`tools/action_tools.py:63-65`).
* A draft raised before a promise, dispute or pause is still proposed after it: the consumer does not
  ask `decide` again (`brain/consumer.py:51`), nor does the approval. A draft
  approved late carries the rung and balance of its day (`dashboard.py:791`).
* `settle_due_promises` writes its verdict by id over whatever a promise has become since its SELECT: one that a new promise has
  superseded meanwhile is made kept or broken again, and announced as broken, and the handler voids the pause of the promise
  that replaced it (`collections.py:435`, `brain/consumer.py:82-93`). Two passes may judge one promise twice, with different balances.
* Two promises recorded side by side for one customer stay open both: neither UPDATE sees the other's row, and no index
  keeps it out (`collections.py:366-375`, migration 022).
* The ladder watcher reads 400 rows, by days late times amount (`brain/detectors.py:82`). Customers who were raised before, or are
  held, keep their places there: with more than 400 overdue the rest are not looked at until the first ones pay.
* A worker that dies after `settle_due_promises` commits and before its events are emitted
  forgets the news of a broken promise: the next pass finds nothing open (`collections.py:442`).
* The verdict falls on `promised_on <= today - grace`, on the last day of grace itself
  (`collections.py:413`).
* While a pass and a person's request overlap, the executor's check and insert are two
  statements: both may draft (`tools/executor.py:64`).
* Two decisions at once: the UPDATEs name the id only, so that a rejected action may be
  overwritten as executed, and the reverse: one action may be logged as a chase twice, or be logged and stand rejected. A delivery whose answer was
  lost, or after which the process died, is sent again. An approved hold takes the path of
  a message and is mailed to the customer when an address is on file (`dashboard.py:737-781`). The
  address is the one on file when it is decided, not the one that was shown.

Alerts, runner, flags, experiments:

* After an outage the table does not know what the memory of a process sent, nor the reverse: the condition is
  emailed twice. A process that dies while sending leaves the mark, and the condition stays
  quiet for its cooldown with nobody told (`alerts.py:186-195`).
* An old pass that ends after a watcher was halted resets the counter, so the watcher is
  due again; a pass cut off between closing and counting is not counted (`brain/runner.py:105,146`).
* "So a condition that could not be emailed is tried again the next time it recurs" (`alerts.py:69`): a halt
  does not recur. A halted watcher is not run again, so that a halt whose one email failed, or was cut off with its process, stays
  in silence until a person runs it (`brain/runner.py:98,178`); `HaltsAreTold` excepts it as `unheard`.
* The email says that a watcher "stays halted until someone turns it back on" (`alerts.py:306`). A
  person's run that succeeds resets the counter too (`brain/runner.py:146`), and a second halt within the cooldown of the first
  email is not emailed.
* Holds beyond the cap of a pass, and a flag that worsens under its old id, are never asked about
  (`brain/detectors.py:189-197,221`).
* `start_accepted` and `close_due` update by id only; `create` accepts "closed" without an outcome; naming a
  metric does not set `ends_at` when the experiment is started by hand (`api/routes/milestones.py:118`).

Sync, cache and canonical layer:

* A report without a total whose pages fail midway, and a chunk that got no page in its time, are
  taken for the end, and the report is shown as complete (`client.py:349`, `connections.py:670`).
  A page that fails beyond the last, in a report whose length is a multiple of the chunk,
  fails the walk each time, so the report never completes.
* "Sync all" re-walks by default: `restart` is true also beside `refresh_only`, and progress is wiped
  (`connections.py:849`).
* A failure between setting the status to running and starting the thread leaves a report refused
  as running until the process restarts (`connections.py:762`).
* TranzAct's `_fail_run` does not roll back first (`pipelines/base.py:214`): after a failed statement the run
  stays "running". Content hashes take in quantity, price and value, so a corrected line is a new row beside the
  old one (`docs/reference/BIDE_BUILD_REFERENCE.md:86`).
* Two threads that were refused the same token each log in (`adapters/tranzact/auth.py:255`), and so does every test of the
  connection (`connections.py:374`), though another thread has just renewed the token: that "the rest wait and reuse its token"
  is true of an expiry only.

Figures, brief, agent and the rest:

* TranzAct's purchase orders carry no pending quantity, so the outflow of `cash_30d`, open commitments and price
  jumps never fire there; an order counts its lines where another screen counts orders. Windows of N+1 days are
  divided by N; a job with one finished operation counts as complete; payment behaviour compares the 25 latest
  inferred payments only; a drift's baseline may be 0, and so is that of a suggestion about a
  customer who pays slower and owes nothing today (`brain/strategy.py:77-90`): neither can be judged (`brain/outcomes.py:47`); an invoice paid on the day of its snapshot stays in it.
* "A failure for one workspace never stops the others" (`brief.py:412`): all share one connection, and when that is lost the
  rollback fails too and nobody connects again, so the rest of the morning's workspaces fail with it (`brief.py:417-431`). They
  are alerted. If the list of workspaces cannot be read, no one is.
* The total above sales by category is that of the listed categories only (`schema/queries.py:2370-2373`).
* One bad card is not to empty the page (`schema/pulse_cards.py:428`), but a failed query aborts the connection
  and nobody rolls back, so the cards after it fail too. The same holds of the agent's tools.
* The laptop is never to stand in for the worker, but once the worker's row is pruned it does (`health.py`).
* An answer for which no tool returned evidence may state an invented figure (`dashboard.py:1126`), as uncertain;
  an answer that ran out of its budget is to be "flagged" (`reasoning/agent.py:251`) and may be called certain.
* Two overlapping `write_fact`s leave two active facts (`memory/store.py:104`).
* The trailing window cuts its first week, so a target that was met may be unmet later (`usage.py`).

## Not modelled, and why

`PROJECT.json` lists each component with its status and a note. Not modelled: the **contacts import** (matching and
cleaning text; what it commits is one upsert a contact, of which `Inbox` has the effect), the **tools registry** (static
declarations and read-only queries), **domain values** (types, settings, sessions: no state of their own), the
**evaluation harness** (offline measurement), **operator scripts** (set-up, reset, migrations a person
runs; no protocol with the running system) and the **web front end** (presentation of routes that are modelled).
Left out of components that are partly modelled: the two detectors that only read and emit, quotation and order
payloads, storing credentials, the Zoho routes, the health panel, which handler answers which question, the business
profile and customer summaries, sign-in and grants beyond the permission a decision needs, and paged lists.

## Plan

Done: the core (collections, bus, Inbox, alerts, runner, the sync's cursor), flags and outcomes, tokens and the
full sync, the way of rows into the canonical layer, the figures made of them, brief, health,
memory, the agent's loop and usage; the runner's halts with the alerts they raise; and proofs about every one of these.
What is left, in this order:

1. **Composition**: `Books` with `Chasing`, so that a rebuild that lags is seen in a chase.
2. **Detectors**: stale data and lapsed reorders as emitters of `EventBus`.
