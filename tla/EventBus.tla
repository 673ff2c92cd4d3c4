------------------------------ MODULE EventBus ------------------------------
(***************************************************************************)
(* The consumer pass of brain/consumer.py over the events table of         *)
(* brain/bus.py, statement by statement, by any number of processes: the   *)
(* worker's tick, a second worker, a person pressing "run now".            *)
(*                                                                         *)
(* A pass runs in one connection.  The first statement expires stale       *)
(* events, the second locks a batch (FOR UPDATE SKIP LOCKED); every commit *)
(* or rollback ends the transaction and with it all the locks, the batch's *)
(* among them.  locks and marks are a process's open transaction; the      *)
(* other tables are what is committed.  Row locks make a statement wait,   *)
(* which here is an action that is not enabled.                            *)
(*                                                                         *)
(* Everything happens inside one idempotency window: an event is handed    *)
(* out for 36 hours at most, a proposal blocks its like for five days.     *)
(***************************************************************************)
EXTENDS Integers, Sequences, FiniteSets

CONSTANTS
    Workers,       \* processes that may run a pass
    Askers,        \* API threads on which a person asks for a draft
    Facts,         \* events, numbered by age: 1 is the oldest
    Mixes,         \* what the events may be: for each its type, by what handles it
    CustomerOf,    \* the customer each is about
    AskedFor,      \* the customer each of those threads asks for
    BatchLimit,    \* consume's limit
    MaxActions,    \* bound: rows of the actions ledger
    MaxFaults      \* bound: handlers that raise, processes that die

Kinds     == {"chase", "promise", "hold", "noted", "unknown"}
Customers == {CustomerOf[e] : e \in Facts} \cup {AskedFor[a] : a \in Askers}

ASSUME EventBusAssumption ==
    /\ Workers \cap Askers = {} /\ IsFiniteSet(Workers \cup Askers)
    /\ Facts \subseteq Nat \ {0}
    /\ Mixes \subseteq [Facts -> Kinds]
    /\ DOMAIN CustomerOf = Facts /\ DOMAIN AskedFor = Askers
    /\ BatchLimit \in Nat \ {0}
    /\ MaxActions \in Nat /\ MaxFaults \in Nat

VARIABLES
    kind,      \* of each event, by what handles its type
    status,    \* of each event
    aged,      \* events past MAX_EVENT_AGE_HOURS
    closing,   \* how each was closed, for those that were
    actions,   \* the actions ledger
    pc,        \* where each process stands
    batch,     \* what is left of its batch
    made,      \* the action its handler made, 0 if none
    locks,     \* rows of events its transaction has locked
    marks,     \* closings its transaction has written, not committed
    crossed,   \* what has overlapped: "passes", or a pass and an "ask" (history)
    faults     \* how many faults have happened (bound only)

table == <<status, aged, closing, actions>>
vars  == <<kind, table, pc, batch, made, locks, marks, crossed, faults>>

-----------------------------------------------------------------------------
Reasons == {"proposed", "refused", "noted", "no handler", "expired"}

\* The closing of an event: processed_by and outcome.
Closing == [event : Facts, reason : Reasons, action : 0..MaxActions]

\* event is actions.event_id; asked_by says who called the executor.
Action == [tool : {"chase", "hold"}, customer : Customers, event : Facts \cup {0},
           status : {"proposed", "rejected", "executed"},
           asked_by : Workers \cup Askers]

TypeOK ==
    /\ kind \in [Facts -> Kinds]
    /\ status \in [Facts -> {"absent", "pending", "closed"}]
    /\ aged \subseteq Facts
    /\ closing \subseteq Closing
    /\ actions \in Seq(Action)
    /\ pc \in [Workers \cup Askers ->
                 {"idle", "fetch", "next", "check", "insert", "close"}]
    /\ batch \in [Workers -> SUBSET Facts]
    /\ made \in [Workers -> 0..Len(actions)]
    /\ locks \in [Workers -> SUBSET Facts]
    /\ marks \in [Workers -> SUBSET Closing]
    /\ crossed \subseteq {"passes", "ask"}
    /\ faults \in 0..MaxFaults

Init ==
    /\ kind \in Mixes
    /\ status = [e \in Facts |-> "absent"]
    /\ aged = {}
    /\ closing = {}
    /\ actions = <<>>
    /\ pc = [p \in Workers \cup Askers |-> "idle"]
    /\ batch = [w \in Workers |-> {}]
    /\ made = [w \in Workers |-> 0]
    /\ locks = [w \in Workers |-> {}]
    /\ marks = [w \in Workers |-> {}]
    /\ crossed = {}
    /\ faults = 0

Goto(p, label) == pc' = [pc EXCEPT ![p] = label]

-----------------------------------------------------------------------------
(* The world: detectors commit events, time passes, people decide. *)

Emit(e) ==
    /\ status[e] = "absent"
    /\ \A f \in Facts : f > e => status[f] = "absent"
    /\ status' = [status EXCEPT ![e] = "pending"]
    /\ UNCHANGED <<aged, closing, actions, pc, batch, made, locks, marks, crossed, faults>>

GrowOld(e) ==
    /\ status[e] # "absent" /\ e \notin aged
    /\ \A f \in Facts : f < e /\ status[f] # "absent" => f \in aged
    /\ aged' = aged \cup {e}
    /\ UNCHANGED <<status, closing, actions, pc, batch, made, locks, marks, crossed, faults>>

Decide(i) ==
    /\ actions[i].status = "proposed"
    /\ \E verdict \in {"rejected", "executed"} :
          actions' = [actions EXCEPT ![i].status = verdict]
    /\ UNCHANGED <<status, aged, closing, pc, batch, made, locks, marks, crossed, faults>>

-----------------------------------------------------------------------------
(* What a statement sees. *)

\* Another transaction holds the row.
LockedFrom(e, w) == \E v \in Workers \ {w} : e \in locks[v]

Closed(S) == {m.event : m \in S}

\* Slip: processed_at is not looked at.
Free_processed(w) ==
    {e \in Facts : /\ status[e] # "absent" /\ e \notin Closed(marks[w])
                   /\ ~LockedFrom(e, w)}

\* bus.pending, before its LIMIT.  NOW() is the transaction's, so the events
\* that were too old are just those it has marked.
Free(w) ==
    {e \in Facts : /\ status[e] = "pending" /\ e \notin Closed(marks[w])
                   /\ ~LockedFrom(e, w)}

Oldest(S) == CHOOSE e \in S : \A f \in S : e <= f

\* The event the loop is at.
Current(w) == Oldest(batch[w])

Tool(e) == IF kind[e] = "hold" THEN "hold" ELSE "chase"

\* Slip: the executor's guard overlooks what was executed.
Blocked_proposed(tool, c) ==
    \E i \in DOMAIN actions :
        /\ actions[i].tool = tool /\ actions[i].customer = c
        /\ actions[i].status = "proposed"

\* The executor's guard for a draft; the handler's own for a hold.
Blocked(tool, c) ==
    \E i \in DOMAIN actions :
        /\ actions[i].tool = tool /\ actions[i].customer = c
        /\ actions[i].status \in (IF tool = "chase" THEN {"proposed", "executed"}
                                  ELSE {"proposed"})

\* The open transaction of w, and the closings S, become visible; its locks go.
\* A later closing of the same row overwrites the earlier.
Commit(w, S) ==
    /\ status' = [e \in Facts |-> IF e \in Closed(S) THEN "closed" ELSE status[e]]
    /\ closing' = {m \in closing : m.event \notin Closed(S)} \cup S
    /\ locks' = [locks EXCEPT ![w] = {}]
    /\ marks' = [marks EXCEPT ![w] = {}]

\* What the open transaction of w wrote never was.
Rollback(w) ==
    /\ locks' = [locks EXCEPT ![w] = {}]
    /\ marks' = [marks EXCEPT ![w] = {}]

-----------------------------------------------------------------------------
(* consume: the two statements that open a pass. *)

Passing == {w \in Workers : pc[w] # "idle"}
Asking  == {a \in Askers : pc[a] # "idle"}

\* bus.expire_stale waits for rows another transaction holds.
ExpireStale(w) ==
    LET stale == {e \in aged : status[e] = "pending"} IN
    /\ pc[w] = "idle"
    /\ \A e \in stale : ~LockedFrom(e, w)
    /\ locks' = [locks EXCEPT ![w] = @ \cup stale]
    /\ marks' = [marks EXCEPT ![w] = @ \cup
                    {[event |-> e, reason |-> "expired", action |-> 0] : e \in stale}]
    /\ Goto(w, "fetch")
    /\ crossed' = crossed \cup (IF Passing \ {w} # {} THEN {"passes"} ELSE {})
                           \cup (IF Asking # {} THEN {"ask"} ELSE {})
    /\ UNCHANGED <<table, batch, made, faults>>

\* bus.pending: the oldest free events, locked.
Fetch(w) ==
    /\ pc[w] = "fetch"
    /\ batch' = [batch EXCEPT ![w] =
                    {e \in Free(w) : Cardinality({f \in Free(w) : f < e}) < BatchLimit}]
    /\ locks' = [locks EXCEPT ![w] = @ \cup batch'[w]]
    /\ Goto(w, "next")
    /\ UNCHANGED <<table, made, marks, crossed, faults>>

\* Slip: the runner leaves the transaction open.
EndPass_open(w) ==
    /\ pc[w] = "next" /\ batch[w] = {}
    /\ Goto(w, "idle")
    /\ UNCHANGED <<table, batch, made, locks, marks, crossed, faults>>

\* The batch is done: the runner commits.
EndPass(w) ==
    /\ pc[w] = "next" /\ batch[w] = {}
    /\ Commit(w, marks[w])
    /\ Goto(w, "idle")
    /\ UNCHANGED <<aged, actions, batch, made, crossed, faults>>

(* consume: one event. *)

At(w, label) == pc[w] = label /\ batch[w] # {}

\* An event type without a handler is closed and not committed.
Skip(w) ==
    LET e == Current(w) IN
    /\ At(w, "next") /\ kind[e] = "unknown" /\ ~LockedFrom(e, w)
    /\ locks' = [locks EXCEPT ![w] = @ \cup {e}]
    /\ marks' = [marks EXCEPT ![w] =
                    @ \cup {[event |-> e, reason |-> "no handler", action |-> 0]}]
    /\ batch' = [batch EXCEPT ![w] = @ \ {e}]
    /\ UNCHANGED <<table, pc, made, crossed, faults>>

\* _handle_noted does nothing.
Note(w) ==
    /\ At(w, "next") /\ kind[Current(w)] = "noted"
    /\ made' = [made EXCEPT ![w] = 0]
    /\ Goto(w, "close")
    /\ UNCHANGED <<table, batch, locks, marks, crossed, faults>>

\* _handle_promise_broken voids the pause and commits.
VoidPause(w) ==
    /\ At(w, "next") /\ kind[Current(w)] = "promise"
    /\ Commit(w, marks[w])
    /\ Goto(w, "check")
    /\ UNCHANGED <<aged, actions, batch, made, crossed, faults>>

\* Bound: no more drafts than the ledger has room for; the others are refused.
Room ==
    Len(actions) + Cardinality({p \in Workers \cup Askers : pc[p] = "insert"}) < MaxActions

\* The handler asks whether there is such a proposal already; the draft may be
\* refused as well (nothing outstanding, no customer).
CheckDuplicate(w) ==
    LET e == Current(w) IN
    /\ \/ At(w, "next") /\ kind[e] \in {"chase", "hold"}
       \/ At(w, "check")
    /\ made' = [made EXCEPT ![w] = 0]
    /\ \/ ~Blocked(Tool(e), CustomerOf[e]) /\ Room /\ Goto(w, "insert")
       \/ Goto(w, "close")
    /\ UNCHANGED <<table, batch, locks, marks, crossed, faults>>

Proposed(tool, c, e, by) ==
    [tool |-> tool, customer |-> c, event |-> e, status |-> "proposed", asked_by |-> by]

\* The proposal, committed: a hold names its event, a draft not yet.
Insert(w) ==
    LET e == Current(w) IN
    /\ At(w, "insert")
    /\ actions' = Append(actions, Proposed(Tool(e), CustomerOf[e],
                                           IF kind[e] = "hold" THEN e ELSE 0, w))
    /\ made' = [made EXCEPT ![w] = Len(actions')]
    /\ Commit(w, marks[w])
    /\ Goto(w, "close")
    /\ UNCHANGED <<aged, batch, crossed, faults>>

How(w) == [event |-> Current(w), action |-> made[w],
           reason |-> IF kind[Current(w)] = "noted" THEN "noted"
                      ELSE IF made[w] = 0 THEN "refused" ELSE "proposed"]

\* Slip: the link is committed before the event is closed.
Close_links_first(w) ==
    LET e == Current(w) IN
    /\ At(w, "close") /\ ~LockedFrom(e, w)
    /\ IF made[w] # 0 /\ actions[made[w]].event = 0
       THEN /\ actions' = [actions EXCEPT ![made[w]].event = e]
            /\ Commit(w, marks[w])
            /\ UNCHANGED <<aged, pc, batch>>
       ELSE /\ Commit(w, marks[w] \cup {How(w)})
            /\ batch' = [batch EXCEPT ![w] = @ \ {e}]
            /\ Goto(w, "next")
            /\ UNCHANGED <<actions, aged>>
    /\ UNCHANGED <<made, crossed, faults>>

\* The draft is tied to its event, the event marked, both committed.
Close(w) ==
    LET e == Current(w) IN
    /\ At(w, "close") /\ ~LockedFrom(e, w)
    /\ actions' = IF made[w] = 0 THEN actions
                  ELSE [actions EXCEPT ![made[w]].event = e]
    /\ Commit(w, marks[w] \cup {How(w)})
    /\ batch' = [batch EXCEPT ![w] = @ \ {e}]
    /\ Goto(w, "next")
    /\ UNCHANGED <<aged, made, crossed, faults>>

Fault == faults < MaxFaults /\ faults' = faults + 1

\* The handler raises, if only in tying its draft to the event: rollback, and
\* on with the batch.
Fail(w) ==
    /\ Fault
    /\ \/ At(w, "next") /\ kind[Current(w)] \in {"chase", "promise", "hold"}
       \/ At(w, "check") \/ At(w, "insert")
       \/ At(w, "close") /\ made[w] # 0 /\ kind[Current(w)] # "hold"
    /\ Rollback(w)
    /\ batch' = [batch EXCEPT ![w] = @ \ {Current(w)}]
    /\ Goto(w, "next")
    /\ UNCHANGED <<table, made, crossed>>

\* The process dies, or a statement outside the handler raises and takes the
\* pass with it.
Crash(w) ==
    /\ Fault
    /\ pc[w] # "idle"
    /\ Rollback(w)
    /\ batch' = [batch EXCEPT ![w] = {}]
    /\ Goto(w, "idle")
    /\ UNCHANGED <<table, made, crossed>>

-----------------------------------------------------------------------------
(* A person asks for a draft: the same executor on an API thread. *)

AskCheck(a) ==
    /\ pc[a] = "idle" /\ ~Blocked("chase", AskedFor[a]) /\ Room
    /\ Goto(a, "insert")
    /\ crossed' = IF Passing \cup Asking = {} THEN crossed ELSE crossed \cup {"ask"}
    /\ UNCHANGED <<table, batch, made, locks, marks, faults>>

AskInsert(a) ==
    /\ pc[a] = "insert"
    /\ actions' = Append(actions, Proposed("chase", AskedFor[a], 0, a))
    /\ Goto(a, "idle")
    /\ UNCHANGED <<status, aged, closing, batch, made, locks, marks, crossed, faults>>

-----------------------------------------------------------------------------
Step(w) ==
    \/ ExpireStale(w) \/ Fetch(w) \/ EndPass(w)
    \/ Skip(w) \/ Note(w) \/ VoidPause(w)
    \/ CheckDuplicate(w) \/ Insert(w) \/ Close(w)

World ==
    \/ \E e \in Facts : Emit(e) \/ GrowOld(e)
    \/ \E i \in DOMAIN actions : Decide(i)

Next ==
    /\ \/ World
       \/ \E w \in Workers : Step(w) \/ Fail(w) \/ Crash(w)
       \/ \E a \in Askers : AskCheck(a) \/ AskInsert(a)
    /\ UNCHANGED kind

\* The worker's tick runs the consumer again and again (registry.py, every 30
\* minutes), and a pass that has begun goes on.
Fairness == \A w \in Workers : WF_vars(Step(w) /\ UNCHANGED kind)

Spec     == Init /\ [][Next]_vars
FairSpec == Spec /\ Fairness

-----------------------------------------------------------------------------
(* Safety. *)

\* What still counts against another of its kind: a draft until it is
\* rejected, a hold until it is decided.
Counts(a) == a.status \in (IF a.tool = "chase" THEN {"proposed", "executed"}
                           ELSE {"proposed"})

\* One reminder and one hold a customer, whatever fails or dies between the
\* check, the insert and the closing, and however often a pass is repeated: as
\* long as one process at a time passes or asks.
OneLiveProposal == crossed = {} =>
    \A i, j \in DOMAIN actions :
        (/\ actions[i].tool = actions[j].tool
         /\ actions[i].customer = actions[j].customer
         /\ Counts(actions[i]) /\ Counts(actions[j])) => i = j

\* A draft is tied to an event exactly when the closing of that event names
\* it: neither is ever committed, rolled back or overwritten without the other,
\* as long as no two passes overlap.
DraftsAndClosingsAgree == "passes" \notin crossed =>
    /\ \A m \in closing : m.action # 0 =>
          m.action \in DOMAIN actions /\ actions[m.action].event = m.event
    /\ \A i \in DOMAIN actions :
          (actions[i].tool = "chase" /\ actions[i].event # 0) =>
              \E m \in closing : m.event = actions[i].event /\ m.action = i

\* However two passes cross, a closing that names an action names one that
\* exists, is about the event's customer and is tied to that event.
ClosingsNameTheirAction ==
    \A m \in closing : m.action # 0 =>
        /\ m.action \in DOMAIN actions
        /\ actions[m.action].event = m.event
        /\ actions[m.action].customer = CustomerOf[m.event]

\* The link between an event and its action reads the same from both ends.
LinksAgree == DraftsAndClosingsAgree /\ ClosingsNameTheirAction

\* What the repository says of two processes (bus.py), and this code does not do.
TwoProcessesProposeOnce ==
    "ask" \notin crossed =>
        \A i, j \in DOMAIN actions :
            (/\ actions[i].tool = actions[j].tool
             /\ actions[i].customer = actions[j].customer
             /\ Counts(actions[i]) /\ Counts(actions[j])) => i = j

\* The passes keep the life of an event as the bus promises it: whatever dies,
\* fails or is rolled back, what one transaction has closed no later one does.
Life == INSTANCE EventLife WITH Outcomes <- Closing, overlapped <- ("passes" \in crossed)
KeepsEventLife == Life!Spec

(* Liveness. *)

\* No pass waits for ever on the rows of another, and an event that was raised
\* is closed, with a reason, by some pass.
ConsumerGetsRound ==
    /\ \A w \in Workers : pc[w] # "idle" ~> pc[w] = "idle"
    /\ \A e \in Facts : status[e] = "pending" ~> status[e] = "closed"
=============================================================================
