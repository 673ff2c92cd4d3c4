------------------------------ MODULE Chasing ------------------------------
(***************************************************************************)
(* The collections process of one workspace, over days: the ledger the ERP *)
(* sync refreshes, the state and the promises vinayak/collections.py       *)
(* stores, the detectors that turn them into events, the consumer that     *)
(* turns events into proposals, and the person who decides a proposal.     *)
(*                                                                         *)
(* Promises are taken apart into what a transaction reads and what it      *)
(* commits, since two transactions may have one promise in hand.  Row      *)
(* locks are left out: they only order the commits, and every order is     *)
(* here.  The ladder watcher looks and raises in one step, one process     *)
(* consumes events and a decision is one step; EventBus and Inbox take the *)
(* last two apart.                                                         *)
(***************************************************************************)
EXTENDS Ladder, Sequences, FiniteSets

CONSTANTS
    Customers,
    Settlers,               \* who runs the promise watcher: the worker, a manual run
    Requesters,             \* the threads that record promises
    MaxRowsRead,            \* customers one pass of the ladder watcher reads
    MaxRungEventsPerPass,   \* events one pass of the ladder watcher may raise
    MaxEventAge,            \* days an event may wait for a consumer
    IdempotencyDays,        \* days a proposal blocks another for its customer
    Balances,               \* bound: the balances a sync may bring, 0 among them
    Amounts,                \* bound: the amounts people promise, NULL for "the balance"
    Dates,                  \* bound: the days people name in promises and pauses
    MaxDay,                 \* bound: the last day of the horizon
    MaxInputs,              \* bound: inputs from outside, crashes included
    MaxActions              \* bound: rows of the actions ledger

ASSUME ChasingAssumption ==
    /\ MaxRowsRead \in Nat \ {0}
    /\ MaxRungEventsPerPass \in Nat \ {0}
    /\ MaxEventAge \in Nat \ {0}
    /\ IdempotencyDays \in Nat \ {0}
    /\ Balances \subseteq Nat /\ 0 \in Balances
    /\ Amounts \subseteq Nat \cup {NULL}
    /\ Dates \subseteq Nat
    /\ MaxDay \in Nat /\ MaxInputs \in Nat /\ MaxActions \in Nat

VARIABLES
    today,        \* CURRENT_DATE
    ledger,       \* canon_ar_flat, summed by customer
    cs,           \* collections_state; a missing row reads as NoState
    promises,     \* promises, in the order they were committed
    events,       \* events
    actions,      \* actions of the tool collections.draft_chase
    chase_log,    \* chase_log
    pass,         \* per settler: the promises it has in hand
    request,      \* per requester: the promise it is recording, or NULL
    job,          \* the event the consumer is working on, or NULL
    inputs,       \* inputs taken: the bound, and the clock of created_at
    rivals,       \* history: customers whose promises were recorded side by side
    overtaken     \* history: promises closed while a pass had them in hand

stored  == <<ledger, cs, promises, events, actions, chase_log>>
inhand  == <<pass, request>>
history == <<rivals, overtaken>>
vars    == <<today, stored, inhand, job, inputs, history>>

-----------------------------------------------------------------------------
Days == 0..MaxDay

Account == [owed : Balances, due : Days]

ChaseState == [rung : Rungs, last_chased : Days \cup {NULL},
               chases_sent : Nat,
               paused_until : Nat \cup {NULL},
               disputed : BOOLEAN]

NoState == [rung |-> 0, last_chased |-> NULL, chases_sent |-> 0,
            paused_until |-> NULL, disputed |-> FALSE]

Promise == [customer : Customers, promised_on : Dates, amount : Amounts,
            balance : Balances, created_at : Nat,
            status : {"open", "kept", "broken", "cancelled"}]

\* What record_promise has read: the balance, and the open promises to cancel.
Request == [promise : Promise, saw : SUBSET Nat]

\* due were open when the pass chose them; judged of them have their verdict.
Pass == [stage : {"idle", "judging", "announcing"},
         due : SUBSET Nat, judged : SUBSET Nat, broken : SUBSET Nat]

Idle == [stage |-> "idle", due |-> {}, judged |-> {}, broken |-> {}]

\* ref is the rung of a rung event, the promise of a broken-promise event:
\* <<event_type, customer, ref>> is the row's dedupe_key.
Event == [event_type : {"invoice.overdue_rung", "promise.broken"},
          customer : Customers, ref : Nat, created : Days,
          status : {"pending", "processed", "expired"}]

Action == [customer : Customers, rung : Levels, outstanding : Balances,
           created : Days, proposed_by : {"agent", "user"},
           status : {"proposed", "approved", "executed", "rejected"}]

Chase == [customer : Customers, rung : Levels, action : Nat,
          sent : Days, balance : Balances]

Job == [event : Event, stage : {"void", "propose", "close"}]

TypeOK ==
    /\ today \in Days
    /\ ledger \in [Customers -> Account]
    /\ cs \in [Customers -> ChaseState]
    /\ promises \in Seq(Promise)
    /\ events \subseteq Event
    /\ actions \in Seq(Action)
    /\ chase_log \in Seq(Chase)
    /\ pass \in [Settlers -> Pass]
    /\ request \in [Requesters -> Request \cup {NULL}]
    /\ job \in Job \cup {NULL}
    /\ inputs \in 0..MaxInputs
    /\ rivals \subseteq Customers
    /\ overtaken \subseteq Nat

Init ==
    /\ today = 0
    /\ ledger = [c \in Customers |-> [owed |-> 0, due |-> 0]]
    /\ cs = [c \in Customers |-> NoState]
    /\ promises = <<>>
    /\ events = {}
    /\ actions = <<>>
    /\ chase_log = <<>>
    /\ pass = [s \in Settlers |-> Idle]
    /\ request = [r \in Requesters |-> NULL]
    /\ job = NULL
    /\ inputs = 0
    /\ rivals = {} /\ overtaken = {}

\* An input from outside the program spends one of the horizon's inputs.
Input == inputs < MaxInputs /\ inputs' = inputs + 1

-----------------------------------------------------------------------------
(* What the code reads. *)

OpenPromises(c) ==
    {i \in DOMAIN promises :
        promises[i].customer = c /\ promises[i].status = "open"}

\* The latest open promise, as DISTINCT ON ... ORDER BY created_at DESC gives it.
PromisedOn(c) ==
    IF OpenPromises(c) = {} THEN NULL
    ELSE promises[CHOOSE i \in OpenPromises(c) :
                     \A j \in OpenPromises(c) :
                         promises[j].created_at <= promises[i].created_at].promised_on

Recorded(type, c, ref) ==
    \E e \in events : e.event_type = type /\ e.customer = c /\ e.ref = ref

NewEvent(type, c, ref) ==
    [event_type |-> type, customer |-> c, ref |-> ref,
     created |-> today, status |-> "pending"]

Overdue(c) == ledger[c].owed >= MinAmount /\ ledger[c].due < today

Decision(c) ==
    decide(today - ledger[c].due, ledger[c].owed, cs[c], PromisedOn(c), today)

MayChase(c) == Overdue(c) /\ Decision(c).allowed

\* Which row the pass reads first: days late times the amount.
Priority(c) == (today - ledger[c].due) * ledger[c].owed

\* What detect_overdue_rung reads: the first MaxRowsRead of the overdue.
RowsRead ==
    LET all == {c \in Customers : Overdue(c)} IN
    {R \in SUBSET all :
        /\ Cardinality(R) = Smaller(MaxRowsRead, Cardinality(all))
        /\ \A c \in R, d \in all \ R : Priority(c) >= Priority(d)}

Live(a) == a.status \in {"proposed", "approved", "executed"}

\* Slip: an executed reminder no longer blocks the next.
RecentDuplicate_open(c) ==
    \E i \in DOMAIN actions :
        /\ actions[i].customer = c
        /\ actions[i].status \in {"proposed", "approved"}
        /\ actions[i].created > today - IdempotencyDays

RecentDuplicate(c) ==
    \E i \in DOMAIN actions :
        /\ actions[i].customer = c
        /\ Live(actions[i])
        /\ actions[i].created > today - IdempotencyDays

-----------------------------------------------------------------------------
(* The world: days pass, the ERP sync rewrites the receivables. *)

NextDay ==
    /\ today < MaxDay
    /\ today' = today + 1
    /\ UNCHANGED <<stored, inhand, job, inputs, history>>

\* A balance rises by a new invoice or falls by a payment; what is due first
\* is the oldest invoice still unpaid.
Sync(c, owed) ==
    /\ Input
    /\ owed # ledger[c].owed
    /\ ledger' = [ledger EXCEPT ![c] =
                     [owed |-> owed,
                      due  |-> IF owed = 0 THEN 0
                               ELSE IF ledger[c].owed = 0 THEN today
                               ELSE ledger[c].due]]
    /\ UNCHANGED <<today, cs, promises, events, actions, chase_log, inhand, job, history>>

(* What people tell it: routes/collections.py. *)

SetDispute(c, disputed) ==
    /\ Input
    /\ cs' = [cs EXCEPT ![c].disputed = disputed]
    /\ UNCHANGED <<today, ledger, promises, events, actions, chase_log, inhand, job, history>>

Pause(c, until) ==
    /\ Input
    /\ cs' = [cs EXCEPT ![c].paused_until = until]
    /\ UNCHANGED <<today, ledger, promises, events, actions, chase_log, inhand, job, history>>

\* record_promise, its reads: the balance, and the open promises its UPDATE
\* finds.  created_at is the moment the transaction began.
AskPromise(r, c, on, amount) ==
    /\ Input
    /\ request[r] = NULL
    /\ request' = [request EXCEPT ![r] =
          [promise |-> [customer |-> c, promised_on |-> on, amount |-> amount,
                        balance |-> ledger[c].owed, created_at |-> inputs + 1,
                        status |-> "open"],
           saw |-> OpenPromises(c)]]
    /\ UNCHANGED <<today, stored, pass, job, history>>

\* Promises a pass chose and has not settled yet.
InHand(s) == IF pass[s].stage = "judging" THEN pass[s].due ELSE {}

\* The status of some promises changes; whoever has them in hand is not told.
Overtake(closed, holders) ==
    overtaken' = overtaken \cup {i \in closed : \E s \in holders : i \in InHand(s)}

\* Slip: the open promises stay open.
CancelOpen_none(r) == promises

\* The UPDATE of record_promise: what it found and is still open is cancelled.
CancelOpen(r) ==
    [i \in DOMAIN promises |->
        IF i \in request[r].saw /\ promises[i].status = "open"
        THEN [promises[i] EXCEPT !.status = "cancelled"] ELSE promises[i]]

\* record_promise, its commit: nothing keeps another of the same customer out
\* (promises has no unique index), which would not see this one's row.
RecordPromise(r) ==
    /\ request[r] # NULL
    /\ LET p == request[r].promise IN
          /\ promises' = Append(CancelOpen(r), p)
          /\ cs' = [cs EXCEPT ![p.customer].paused_until =
                                  p.promised_on + PromiseGraceDays]
          /\ rivals' = IF \E q \in Requesters \ {r} :
                              request[q] # NULL /\ request[q].promise.customer = p.customer
                       THEN rivals \cup {p.customer} ELSE rivals
    /\ Overtake({i \in request[r].saw : promises[i].status = "open"}, Settlers)
    /\ request' = [request EXCEPT ![r] = NULL]
    /\ UNCHANGED <<today, ledger, events, actions, chase_log, pass, job, inputs>>

\* The request fails: nothing of it is stored.
AbandonPromise(r) ==
    /\ request[r] # NULL
    /\ request' = [request EXCEPT ![r] = NULL]
    /\ UNCHANGED <<today, stored, pass, job, inputs, history>>

-----------------------------------------------------------------------------
(* The watchers: brain/detectors.py. *)

Settled(c) ==
    /\ ledger[c].owed = 0
    /\ cs[c].rung > 0 \/ cs[c].chases_sent > 0

\* reset_if_settled: back to the bottom of the ladder, and no pause.
reset_if_settled ==
    [c \in Customers |->
        IF Settled(c)
        THEN [cs[c] EXCEPT !.rung = 0, !.chases_sent = 0, !.paused_until = NULL]
        ELSE cs[c]]

\* Customers this pass would raise and the dedupe key does not suppress.
Fresh ==
    {c \in Customers :
        /\ MayChase(c)
        /\ ~Recorded("invoice.overdue_rung", c, Decision(c).rung)}

\* Slip: the cap counts customers raised before as well.
Raised_counts_repeats(R) ==
    LET due == {c \in R : MayChase(c)} IN
    {T \cap Fresh : T \in {U \in SUBSET due :
        /\ Cardinality(U) = Smaller(MaxRungEventsPerPass, Cardinality(due))
        /\ \A c \in U, d \in due \ U : Priority(c) >= Priority(d)}}

\* Of the rows read, the most pressing customers, as many as one pass may raise.
Raised(R) ==
    LET fresh == R \cap Fresh IN
    {S \in SUBSET fresh :
        /\ Cardinality(S) = Smaller(MaxRungEventsPerPass, Cardinality(fresh))
        /\ \A c \in S, d \in fresh \ S : Priority(c) >= Priority(d)}

DetectOverdueRung ==
    /\ cs' = reset_if_settled
    /\ \E R \in RowsRead : \E S \in Raised(R) :
          events' = events \cup
             {NewEvent("invoice.overdue_rung", c, Decision(c).rung) : c \in S}
    /\ UNCHANGED <<today, ledger, promises, actions, chase_log, inhand, job, inputs,
                   history>>

\* Slip: the SELECT takes closed promises too.
DuePromises_closed ==
    {i \in DOMAIN promises : promises[i].promised_on + PromiseGraceDays <= today}

DuePromises ==
    {i \in DOMAIN promises :
        /\ promises[i].status = "open"
        /\ promises[i].promised_on + PromiseGraceDays <= today}

\* Kept when the balance came down by what was promised since the promise.
Kept(p) ==
    p.balance - ledger[p.customer].owed >= (IF p.amount = NULL THEN 1 ELSE p.amount)

\* settle_due_promises, its SELECT.
SelectDue(s) ==
    /\ pass[s].stage = "idle" /\ DuePromises # {}
    /\ pass' = [pass EXCEPT ![s] = [Idle EXCEPT !.stage = "judging", !.due = DuePromises]]
    /\ UNCHANGED <<today, stored, request, job, inputs, history>>

\* One promise is weighed against the balance of the moment.
JudgePromise(s, i) ==
    /\ i \in InHand(s) \ pass[s].judged
    /\ pass' = [pass EXCEPT ![s].judged = @ \cup {i},
                            ![s].broken = IF Kept(promises[i]) THEN @ ELSE @ \cup {i}]
    /\ UNCHANGED <<today, stored, request, job, inputs, history>>

Verdict(s, i) == IF i \in pass[s].broken THEN "broken" ELSE "kept"

\* settle_due_promises, its commit: UPDATE ... WHERE id, whatever the promise
\* has become since the SELECT.
SettleDuePromises(s) ==
    /\ pass[s].stage = "judging" /\ pass[s].judged = pass[s].due
    /\ promises' = [i \in DOMAIN promises |->
          IF i \in pass[s].due THEN [promises[i] EXCEPT !.status = Verdict(s, i)]
          ELSE promises[i]]
    /\ pass' = [pass EXCEPT ![s] =
          IF @.broken = {} THEN Idle
          ELSE [Idle EXCEPT !.stage = "announcing", !.broken = pass[s].broken]]
    /\ Overtake(pass[s].due, Settlers \ {s})
    /\ UNCHANGED <<today, ledger, cs, events, actions, chase_log, request, job, inputs,
                   rivals>>

\* detect_promise_broken: one event for each broken one.
EmitBrokenPromises(s) ==
    /\ pass[s].stage = "announcing"
    /\ events' = events \cup
         {NewEvent("promise.broken", promises[i].customer, i) : i \in
             {j \in pass[s].broken :
                 ~Recorded("promise.broken", promises[j].customer, j)}}
    /\ pass' = [pass EXCEPT ![s] = Idle]
    /\ UNCHANGED <<today, ledger, cs, promises, actions, chase_log, request, job, inputs,
                   history>>

-----------------------------------------------------------------------------
(* tools/executor.py: a proposal, never the act. *)

Proposal(c, level, by) ==
    [customer |-> c, rung |-> level, outstanding |-> ledger[c].owed,
     created |-> today, proposed_by |-> by, status |-> "proposed"]

\* The guard against repeats and the draft's own refusal.
MayPropose(c) == ~RecentDuplicate(c) /\ ledger[c].owed > 0

\* POST /actions/draft-chase: tone "gentle" (the default) is rung 1, "firm" 2.
DraftChase(c, level) ==
    /\ Input
    /\ MayPropose(c) /\ Len(actions) < MaxActions
    /\ actions' = Append(actions, Proposal(c, level, "user"))
    /\ UNCHANGED <<today, ledger, cs, promises, events, chase_log, inhand, job, history>>

(* The consumer: brain/consumer.py, one event at a time. *)

Aged(e) == e.created + MaxEventAge <= today

\* bus.expire_stale, then bus.pending.  Any pending event may come first: the
\* handlers of older ones may have failed and left them pending.
TakeEvent ==
    /\ job = NULL
    /\ \E e \in events :
          /\ e.status = "pending" /\ ~Aged(e)
          /\ job' = [event |-> e,
                     stage |-> IF e.event_type = "promise.broken" THEN "void"
                               ELSE "propose"]
    /\ events' = {IF e.status = "pending" /\ Aged(e)
                  THEN [e EXCEPT !.status = "expired"] ELSE e : e \in events}
    /\ UNCHANGED <<today, ledger, cs, promises, actions, chase_log, inhand, inputs,
                   history>>

\* A consumer pass that finds nothing to handle still expires.
ExpireStale ==
    /\ job = NULL
    /\ \E e \in events : e.status = "pending"
    /\ \A e \in events : e.status = "pending" => Aged(e)
    /\ events' = {IF e.status = "pending" THEN [e EXCEPT !.status = "expired"]
                  ELSE e : e \in events}
    /\ UNCHANGED <<today, ledger, cs, promises, actions, chase_log, inhand, job, inputs,
                   history>>

\* _handle_promise_broken, first transaction: the pause is void.
VoidPause ==
    /\ job # NULL /\ job.stage = "void"
    /\ cs' = [cs EXCEPT ![job.event.customer].paused_until = NULL]
    /\ job' = [job EXCEPT !.stage = "propose"]
    /\ UNCHANGED <<today, ledger, promises, events, actions, chase_log, inhand, inputs,
                   history>>

\* Slip: the customer's own rung, not one above it.
LevelFor_same(e) ==
    IF e.event_type = "invoice.overdue_rung" THEN e.ref
    ELSE Smaller(MaxRung, cs[e.customer].rung)

\* How firm the consumer is: the rung of the event, or one above the customer's.
LevelFor(e) ==
    IF e.event_type = "invoice.overdue_rung" THEN e.ref
    ELSE Smaller(MaxRung, Larger(2, Larger(1, cs[e.customer].rung) + 1))

\* execute() inserts the action and commits, or refuses (as a full ledger does
\* here, a bound).
Propose ==
    /\ job # NULL /\ job.stage = "propose"
    /\ LET c == job.event.customer IN
         actions' = IF MayPropose(c) /\ Len(actions) < MaxActions
                    THEN Append(actions, Proposal(c, LevelFor(job.event), "agent"))
                    ELSE actions
    /\ job' = [job EXCEPT !.stage = "close"]
    /\ UNCHANGED <<today, ledger, cs, promises, events, chase_log, inhand, inputs,
                   history>>

\* Slip: the event is left pending.
CloseEvent_forgets ==
    /\ job # NULL /\ job.stage = "close"
    /\ job' = NULL
    /\ UNCHANGED <<today, ledger, cs, promises, actions, events, chase_log, inhand, inputs,
                   history>>

\* mark_processed, with the outcome, in a transaction of its own.
CloseEvent ==
    /\ job # NULL /\ job.stage = "close"
    /\ events' = (events \ {job.event})
                   \cup {[job.event EXCEPT !.status = "processed"]}
    /\ job' = NULL
    /\ UNCHANGED <<today, ledger, cs, promises, actions, chase_log, inhand, inputs,
                   history>>

\* The handler raises, or its process dies: what was not committed is gone.
Crash ==
    /\ Input
    /\ job # NULL
    /\ job' = NULL
    /\ UNCHANGED <<today, stored, inhand, history>>

\* So it is with a pass, whose verdicts may be stored and never announced.
CrashPass(s) ==
    /\ Input
    /\ pass[s].stage # "idle"
    /\ pass' = [pass EXCEPT ![s] = Idle]
    /\ UNCHANGED <<today, stored, request, job, history>>

-----------------------------------------------------------------------------
(* A person decides: actions_decide in api/routes/dashboard.py. *)

Reject(i) ==
    /\ actions[i].status = "proposed"
    /\ actions' = [actions EXCEPT ![i].status = "rejected"]
    /\ UNCHANGED <<today, ledger, cs, promises, events, chase_log, inhand, job, inputs,
                   history>>

\* No address on file, no provider, or a transport error.
ApproveUndelivered(i) ==
    /\ actions[i].status \in {"proposed", "approved"}
    /\ actions' = [actions EXCEPT ![i].status = "approved"]
    /\ UNCHANGED <<today, ledger, cs, promises, events, chase_log, inhand, job, inputs,
                   history>>

\* Slip: the rung is counted up, whatever the reminder was.
record_chase_counts(i) ==
    LET a == actions[i] IN
    /\ chase_log' = Append(chase_log,
          [customer |-> a.customer, rung |-> a.rung, action |-> i,
           sent |-> today, balance |-> a.outstanding])
    /\ cs' = [cs EXCEPT ![a.customer].rung = Smaller(MaxRung, @ + 1),
                        ![a.customer].last_chased = today,
                        ![a.customer].chases_sent = @ + 1]

\* record_chase; balance is what the draft's payload said.
record_chase(i) ==
    LET a == actions[i] IN
    /\ chase_log' = Append(chase_log,
          [customer |-> a.customer, rung |-> a.rung, action |-> i,
           sent |-> today, balance |-> a.outstanding])
    /\ cs' = [cs EXCEPT ![a.customer].rung = Larger(@, a.rung),
                        ![a.customer].last_chased = today,
                        ![a.customer].chases_sent = @ + 1]

\* The message went out; the chase is logged, or the log's failure is only a
\* warning (and nothing reconciles it later).
ApproveDelivered(i) ==
    /\ actions[i].status \in {"proposed", "approved"}
    /\ actions' = [actions EXCEPT ![i].status = "executed"]
    /\ record_chase(i) \/ UNCHANGED <<chase_log, cs>>
    /\ UNCHANGED <<today, ledger, promises, events, inhand, job, inputs, history>>

-----------------------------------------------------------------------------
People(c) ==
    \/ \E owed \in Balances : Sync(c, owed)
    \/ \E disputed \in BOOLEAN : SetDispute(c, disputed)
    \/ \E until \in Dates : Pause(c, until)
    \/ \E r \in Requesters, on \in Dates, amount \in Amounts : AskPromise(r, c, on, amount)
    \/ \E level \in {1, 2} : DraftChase(c, level)

PromiseRequest(r) == RecordPromise(r) \/ AbandonPromise(r)

PromiseWatcher(s) ==
    \/ SelectDue(s)
    \/ \E i \in InHand(s) : JudgePromise(s, i)
    \/ SettleDuePromises(s)
    \/ EmitBrokenPromises(s)

Consumer == TakeEvent \/ ExpireStale \/ VoidPause \/ Propose \/ CloseEvent

Decide(i) == Reject(i) \/ ApproveUndelivered(i) \/ ApproveDelivered(i)

Next ==
    \/ NextDay
    \/ DetectOverdueRung
    \/ \E s \in Settlers : PromiseWatcher(s) \/ CrashPass(s)
    \/ \E r \in Requesters : PromiseRequest(r)
    \/ Consumer
    \/ Crash
    \/ \E c \in Customers : People(c)
    \/ \E i \in DOMAIN actions : Decide(i)

\* The worker runs every watcher at its interval (worker.py, runner.due);
\* nothing obliges a person to do anything.
Fairness ==
    /\ WF_vars(DetectOverdueRung)
    /\ \A s \in Settlers : WF_vars(PromiseWatcher(s))
    /\ WF_vars(Consumer)

Spec     == Init /\ [][Next]_vars
FairSpec == Spec /\ Fairness

-----------------------------------------------------------------------------
(* Safety. *)

\* The dedupe key is the identity of the fact (bus.py): however often the
\* watchers re-derive a fact, and whatever became of its event, it is
\* recorded once.
OneEventPerFact ==
    \A e, f \in events :
        (e.event_type = f.event_type /\ e.customer = f.customer /\ e.ref = f.ref)
            => e = f

\* record_promise: a new date supersedes the old one, so a customer is held to
\* two only if two promises were being recorded side by side; and a verdict is
\* only passed on a promise whose grace has run.
OneOpenPromise ==
    /\ \A c \in Customers \ rivals : \A i, j \in OpenPromises(c) : i = j
    /\ \A i \in DOMAIN promises :
          promises[i].status \in {"kept", "broken"}
              => promises[i].promised_on + PromiseGraceDays <= today

\* A promise.broken event, and the announcement still to be made, speak of a
\* promise of that customer that stands judged broken: neither a kept one nor
\* one superseded, unless it was closed after a pass had chosen it.
BrokenMeansBroken ==
    LET StandsBroken(i) == i \in overtaken \/ promises[i].status = "broken" IN
    /\ \A s \in Settlers : pass[s].stage = "announcing" =>
          \A i \in pass[s].broken : i \in DOMAIN promises /\ StandsBroken(i)
    /\ \A e \in events :
          e.event_type = "promise.broken" =>
              /\ e.ref \in DOMAIN promises /\ StandsBroken(e.ref)
              /\ promises[e.ref].customer = e.customer

\* A customer stands on a rung only because a reminder at that rung was
\* delivered to them: an approval that reached nobody moves no one up.
RungWasDelivered ==
    \A c \in Customers : cs[c].rung > 0 =>
        \E k \in DOMAIN chase_log :
            chase_log[k].customer = c /\ chase_log[k].rung = cs[c].rung

Chases(c) == {k \in DOMAIN chase_log : chase_log[k].customer = c}

\* What collections_state remembers of a customer is what chase_log says was
\* sent to them: escalation never counts a reminder the log does not have, the
\* cooldown runs from the day of one, and an entry carries the customer and
\* the rung of the action it was sent for.  (Inbox is about how often.)
StateIsOfTheLog ==
    /\ \A c \in Customers :
          /\ cs[c].chases_sent <= Cardinality(Chases(c))
          /\ IF Chases(c) = {} THEN cs[c].last_chased = NULL
             ELSE \E k \in Chases(c) : cs[c].last_chased = chase_log[k].sent
    /\ \A k \in DOMAIN chase_log :
          /\ chase_log[k].action \in DOMAIN actions
          /\ actions[chase_log[k].action].customer = chase_log[k].customer
          /\ actions[chase_log[k].action].rung = chase_log[k].rung

\* The executor's idempotency guard: whatever asks for it (an event, a broken
\* promise, a person), two proposals for one customer that were not rejected
\* are a whole window apart.  Here one asks at a time; EventBus is about two.
ProposalsAreSpaced ==
    \A i, j \in DOMAIN actions :
        (/\ i < j
         /\ actions[i].customer = actions[j].customer
         /\ Live(actions[i]) /\ Live(actions[j]))
            => actions[i].created + IdempotencyDays <= actions[j].created

\* Nobody is rushed: whatever was paused, promised, drafted by hand or cleared
\* between the raising and the drafting, the agent proposes a rung only to a
\* customer the rung below was delivered to, except the second after a promise
\* was announced broken.
AgentSkipsNoRung ==
    \A i \in DOMAIN actions :
        LET a == actions[i] IN
        a.proposed_by = "agent" =>
            \/ a.rung = 1
            \/ \E k \in DOMAIN chase_log :
                  chase_log[k].customer = a.customer /\ chase_log[k].rung + 1 >= a.rung
            \/ a.rung = 2 /\ \E e \in events :
                  e.event_type = "promise.broken" /\ e.customer = a.customer

\* Migration 022: the ladder only goes up while a balance stays unpaid.
LadderFallsOnlyWhenCleared ==
    [][\A c \in Customers : cs'[c].rung < cs[c].rung => ledger[c].owed = 0]_vars

\* A closed promise is closed, and its verdict, or its cancellation, is revisited
\* by nobody, unless it was passed while a pass had the promise in hand: that
\* pass then writes its own over it.
VerdictsAreFinal ==
    [][\A i \in DOMAIN promises : promises[i].status # "open" =>
          /\ promises'[i].status # "open"
          /\ i \notin overtaken => promises'[i] = promises[i]]_vars

\* Bus, log and ladder are written apart and tell one story: a fact is recorded
\* once, and what the ladder remembers is what was delivered.
RecordsAgree == OneEventPerFact /\ StateIsOfTheLog /\ RungWasDelivered

\* A customer is held to one promise, and what is said of it is what was judged.
PromisesAreHonest == OneOpenPromise /\ BrokenMeansBroken

\* Neither a verdict nor a rung is taken back while the balance stands.
NothingIsUndone == LadderFallsOnlyWhenCleared /\ VerdictsAreFinal

(* Liveness, when the worker keeps its schedule. *)

Backlog == \E e \in events : e.status = "pending"

\* No event is silently dropped: whatever was raised is handled or expires,
\* handlers that fail and workers that die notwithstanding.
BacklogIsCleared == Backlog ~> ~Backlog

Unraised(c) ==
    MayChase(c) /\ ~Recorded("invoice.overdue_rung", c, Decision(c).rung)

\* However ties are broken, the ladder watcher's query reads this customer's row.
InReach(c) ==
    /\ Overdue(c)
    /\ Cardinality({d \in Customers : Overdue(d) /\ Priority(d) >= Priority(c)})
          <= MaxRowsRead

\* The cap paces the asks and does not starve: whoever keeps deserving a
\* reminder, and keeps being among the rows the query reads, is raised, worst
\* first but everyone in the end.  (Below those rows nobody is ever looked at.)
EveryEarnedRungIsRaised ==
    \A c \in Customers :
        (Unraised(c) /\ InReach(c)) ~> (~Unraised(c) \/ ~InReach(c))

-----------------------------------------------------------------------------
(* What the repository says and this code does not do.                      *)

WasChased(c) == \E k \in DOMAIN chase_log : chase_log[k].customer = c

Proposed(c) == \E i \in DOMAIN actions :
                  actions[i].customer = c /\ actions[i].status = "proposed"

\* detectors.py, reset: a customer who has cleared starts again at the bottom,
\* so the next reminder they get is a first reminder.
ClearedCustomersStartAgain ==
    \A c \in Customers :
        (MayChase(c) /\ cs[c].rung = 0 /\ WasChased(c))
            ~> (Proposed(c) \/ ~MayChase(c))
=============================================================================
