------------------------------- MODULE Inbox --------------------------------
(***************************************************************************)
(* Deciding an action: POST /actions/{id}/decide (actions_decide in        *)
(* api/routes/dashboard.py), by any number of request threads at once.     *)
(*                                                                         *)
(* The route reads the row, sends the message and only then writes the     *)
(* row; the UPDATEs name the id and not the status, so what was read may   *)
(* be stale by the time it is acted on.  A step is one committed write, one *)
(* read, or the call of the mail provider.                                 *)
(***************************************************************************)
EXTENDS Integers, Sequences, FiniteSets

CONSTANTS
    Actions,        \* rows of the ledger, all proposed at the start
    Tool,           \* "draft" (a reminder) or "hold", of each
    CustomerOf,     \* entity_ref of each
    Deciders,       \* request threads
    Users,
    Grants,         \* what each user may approve: "messages", "money"
    MaxRequests,    \* bound: decisions asked for
    MaxCrashes,     \* bound: API processes that die
    LateAnswers     \* may the provider deliver and its answer be lost?

Customers == {CustomerOf[a] : a \in Actions}

ASSUME InboxAssumption ==
    /\ Tool \in [Actions -> {"draft", "hold"}]
    /\ DOMAIN CustomerOf = Actions
    /\ Grants \in [Users -> SUBSET {"messages", "money"}]
    /\ MaxRequests \in Nat /\ MaxCrashes \in Nat
    /\ LateAnswers \in BOOLEAN

VARIABLES
    status,       \* actions.status
    sent,         \* result.sent, as recorded
    contacts,     \* customers with an email on file
    outbox,       \* messages the provider delivered, in order
    chase_log,    \* the actions logged as chases, in order
    pc,           \* where each thread stands
    asked,        \* what it was asked
    answer,       \* what the provider told it
    orderly,      \* actions decided one at a time, uncut, on true answers (history)
    requests, crashes    \* bounds only

table  == <<status, sent, contacts, chase_log>>
bounds == <<requests, crashes>>
inboxVars   == <<table, outbox, pc, asked, answer, orderly, bounds>>

-----------------------------------------------------------------------------
Decision == [action : Actions, user : Users, decision : {"approve", "reject"},
            email : BOOLEAN]

AnyDecision == CHOOSE r \in Decision : TRUE

Message == [action : Actions, user : Users]

InboxTypeOK ==
    /\ status \in [Actions -> {"proposed", "approved", "executed", "rejected"}]
    /\ sent \in [Actions -> BOOLEAN]
    /\ contacts \subseteq Customers
    /\ outbox \in Seq(Message)
    /\ chase_log \in Seq({a \in Actions : Tool[a] = "draft"})
    /\ pc \in [Deciders -> {"idle", "read", "reject", "contact", "look_up",
                            "send", "record", "log"}]
    /\ asked \in [Deciders -> Decision \cup {AnyDecision}]
    /\ answer \in [Deciders -> BOOLEAN]
    /\ orderly \subseteq Actions
    /\ requests \in 0..MaxRequests /\ crashes \in 0..MaxCrashes

InboxInit ==
    /\ status = [a \in Actions |-> "proposed"]
    /\ sent = [a \in Actions |-> FALSE]
    /\ contacts \in SUBSET Customers
    /\ outbox = <<>> /\ chase_log = <<>>
    /\ pc = [d \in Deciders |-> "idle"]
    /\ asked = [d \in Deciders |-> AnyDecision]
    /\ answer = [d \in Deciders |-> FALSE]
    /\ orderly = Actions
    /\ requests = 0 /\ crashes = 0

Goto(d, label) == pc' = [pc EXCEPT ![d] = label]

Continue(d, label) == Goto(d, label) /\ UNCHANGED <<asked, answer>>

\* A request that is over leaves nothing behind.
Done(d) ==
    /\ Goto(d, "idle")
    /\ asked' = [asked EXCEPT ![d] = AnyDecision]
    /\ answer' = [answer EXCEPT ![d] = FALSE]

Deciding(d, a) == pc[d] # "idle" /\ asked[d].action = a

AskFor(d, r) ==
    /\ pc[d] = "idle" /\ requests < MaxRequests
    /\ asked' = [asked EXCEPT ![d] = r]
    /\ requests' = requests + 1
    /\ Goto(d, "read")
    /\ orderly' = IF \E e \in Deciders \ {d} : Deciding(e, r.action)
                  THEN orderly \ {r.action} ELSE orderly
    /\ UNCHANGED <<table, outbox, answer, crashes>>

\* Which grant approving an action takes: its gate is "human" for a hold.
Needed(a) == IF Tool[a] = "hold" THEN "money" ELSE "messages"

Granted(r) == r.decision = "approve" => Needed(r.action) \in Grants[r.user]

\* Slip: what was sent is sent again.
Decidable_again(r) ==
    \/ status[r.action] = "proposed"
    \/ status[r.action] \in {"approved", "executed"} /\ r.decision = "approve"

\* Proposed, or approved and known not to have been sent.
Decidable(r) ==
    \/ status[r.action] = "proposed"
    \/ status[r.action] = "approved" /\ r.decision = "approve" /\ ~sent[r.action]

\* The permission, then the row: 403 and 409 end the request.
Read(d) ==
    LET r == asked[d] IN
    /\ pc[d] = "read"
    /\ IF ~Granted(r) \/ ~Decidable(r) THEN Done(d)
       ELSE Continue(d, IF r.decision = "reject" THEN "reject"
                       ELSE IF r.email THEN "contact" ELSE "look_up")
    /\ UNCHANGED <<table, outbox, orderly, bounds>>

Reject(d) ==
    /\ pc[d] = "reject"
    /\ status' = [status EXCEPT ![asked[d].action] = "rejected"]
    /\ Done(d)
    /\ UNCHANGED <<sent, contacts, chase_log, outbox, orderly, bounds>>

\* notify.upsert_contact, committed on its own.
SaveContact(d) ==
    /\ pc[d] = "contact"
    /\ contacts' = contacts \cup {CustomerOf[asked[d].action]}
    /\ Continue(d, "look_up")
    /\ UNCHANGED <<status, sent, chase_log, outbox, orderly, bounds>>

\* Without an address the approval is recorded and nothing is sent.
LookUp(d) ==
    LET a == asked[d].action IN
    /\ pc[d] = "look_up"
    /\ IF CustomerOf[a] \in contacts
       THEN Continue(d, "send") /\ UNCHANGED <<status, sent>>
       ELSE /\ status' = [status EXCEPT ![a] = "approved"]
            /\ sent' = [sent EXCEPT ![a] = FALSE]
            /\ Done(d)
    /\ UNCHANGED <<contacts, chase_log, outbox, orderly, bounds>>

\* notify.send_email: delivered; not delivered; delivered, but the call failed
\* afterwards (a timeout), which it reports as not sent.
Send(d) ==
    LET r == asked[d] IN
    /\ pc[d] = "send"
    /\ \E delivered \in BOOLEAN, told \in BOOLEAN :
          /\ told => delivered
          /\ delivered /\ ~told => LateAnswers
          /\ outbox' = IF delivered
                       THEN Append(outbox, [action |-> r.action, user |-> r.user])
                       ELSE outbox
          /\ answer' = [answer EXCEPT ![d] = told]
          /\ orderly' = IF told = delivered THEN orderly ELSE orderly \ {r.action}
    /\ Goto(d, "record")
    /\ UNCHANGED <<table, asked, bounds>>

\* Slip: the chase is logged at approval.
Record_logs_always(d) ==
    LET a == asked[d].action IN
    /\ pc[d] = "record"
    /\ status' = [status EXCEPT ![a] = IF answer[d] THEN "executed" ELSE "approved"]
    /\ sent' = [sent EXCEPT ![a] = answer[d]]
    /\ IF Tool[a] = "draft" THEN Continue(d, "log") ELSE Done(d)
    /\ UNCHANGED <<contacts, chase_log, outbox, orderly, bounds>>

\* Slip: whatever was sent is logged as a chase.
Record_logs_holds(d) ==
    LET a == asked[d].action IN
    /\ pc[d] = "record"
    /\ status' = [status EXCEPT ![a] = IF answer[d] THEN "executed" ELSE "approved"]
    /\ sent' = [sent EXCEPT ![a] = answer[d]]
    /\ IF answer[d] THEN Continue(d, "log") ELSE Done(d)
    /\ UNCHANGED <<contacts, chase_log, outbox, orderly, bounds>>

\* What the provider said, committed.
Record(d) ==
    LET a == asked[d].action IN
    /\ pc[d] = "record"
    /\ status' = [status EXCEPT ![a] = IF answer[d] THEN "executed" ELSE "approved"]
    /\ sent' = [sent EXCEPT ![a] = answer[d]]
    /\ IF answer[d] /\ Tool[a] = "draft" THEN Continue(d, "log") ELSE Done(d)
    /\ UNCHANGED <<contacts, chase_log, outbox, orderly, bounds>>

\* record_chase, or a warning that it failed.
Log(d) ==
    /\ pc[d] = "log"
    /\ \/ chase_log' = Append(chase_log, asked[d].action)
       \/ UNCHANGED chase_log
    /\ Done(d)
    /\ UNCHANGED <<status, sent, contacts, outbox, orderly, bounds>>

\* The process dies with the request half done; nobody resumes it.
Crash(d) ==
    /\ pc[d] # "idle" /\ crashes < MaxCrashes
    /\ crashes' = crashes + 1
    /\ orderly' = orderly \ {asked[d].action}
    /\ Done(d)
    /\ UNCHANGED <<table, outbox, requests>>

\* Another route, an import or the Zoho sync puts an address on file.
AddContact(c) ==
    /\ contacts' = contacts \cup {c}
    /\ UNCHANGED <<status, sent, chase_log, outbox, pc, asked, answer, orderly, bounds>>

-----------------------------------------------------------------------------
Handle(d) ==
    \/ Read(d) \/ Reject(d) \/ SaveContact(d) \/ LookUp(d)
    \/ Send(d) \/ Record(d) \/ Log(d)

InboxNext ==
    \/ \E d \in Deciders, r \in Decision : AskFor(d, r)
    \/ \E d \in Deciders : Handle(d) \/ Crash(d)
    \/ \E c \in Customers : AddContact(c)

InboxSpec == InboxInit /\ [][InboxNext]_inboxVars

-----------------------------------------------------------------------------
(* Safety. *)

Deliveries(a) == Cardinality({k \in DOMAIN outbox : outbox[k].action = a})
Chases(a)     == Cardinality({k \in DOMAIN chase_log : chase_log[k] = a})

Delivered == {a \in Actions : Deliveries(a) > 0}

\* However decisions cross, fail or are cut off: an action is executed only if
\* its message went out, a customer has no more chases on record than
\* messages, and every message was sent by someone allowed to.
DeliveriesAreAccounted ==
    /\ \A a \in Actions :
          /\ status[a] = "executed" => a \in Delivered
          /\ Chases(a) <= Deliveries(a)
    /\ \A k \in DOMAIN outbox :
          Needed(outbox[k].action) \in Grants[outbox[k].user]

\* The route keeps the life of an action as promised, for every action that is
\* decided in an orderly way, whatever happens to the others beside it.
Lifecycle == INSTANCE ActionLifecycle WITH delivered <- Delivered
KeepsLifecycle == Lifecycle!Spec
=============================================================================
