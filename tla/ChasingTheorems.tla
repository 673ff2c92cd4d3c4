--------------------------- MODULE ChasingTheorems ---------------------------
(***************************************************************************)
(* The collections process for any number of customers, days, balances and *)
(* inputs.  TypeInv carries the types and the two facts that make them     *)
(* inductive; the safety invariants of Chasing are then inductive relative *)
(* to it, each for reasons of its own.                                     *)
(*                                                                         *)
(* The second half is about what may be said to a customer: no verdict on  *)
(* a promise changes and no promise is called broken that was not, unless  *)
(* two transactions had it in hand; the ladder falls only under a paid     *)
(* balance, and nobody is written to more firmly than they were led up to. *)
(***************************************************************************)
EXTENDS Chasing, LadderTheorems, FiniteSetTheorems

-----------------------------------------------------------------------------
(* Tables as sequences. *)

LEMMA SameRows ==
    ASSUME NEW S, NEW s \in Seq(S), NEW f \in [DOMAIN s -> S]
    PROVE  f \in Seq(S) /\ DOMAIN f = DOMAIN s /\ Len(f) = Len(s)
<1>1. DOMAIN s = 1..Len(s) /\ Len(s) \in Nat
  OBVIOUS
<1>2. f \in [1..Len(s) -> S]
  BY <1>1
<1> QED BY <1>1, <1>2

LEMMA OneRowMore ==
    ASSUME NEW S, NEW s \in Seq(S), NEW x \in S
    PROVE  /\ Append(s, x) \in Seq(S)
           /\ Len(s) \in Nat /\ DOMAIN s = 1..Len(s)
           /\ Len(Append(s, x)) = Len(s) + 1
           /\ DOMAIN Append(s, x) = 1..(Len(s) + 1)
           /\ \A i \in DOMAIN s : Append(s, x)[i] = s[i] /\ i # Len(s) + 1
           /\ Append(s, x)[Len(s) + 1] = x
OBVIOUS

-----------------------------------------------------------------------------
(* Types. *)

\* A rung event names a rung; a job works on an event of the table that no one
\* else closed; promises in hand exist, and one being recorded is open.
EventsSane == \A e \in events : e.event_type = "invoice.overdue_rung" => e.ref \in Levels
JobSane    == job # NULL => job.event \in events /\ job.event.status = "pending"
PassSane   == \A s \in Settlers :
                 /\ pass[s].due \subseteq DOMAIN promises
                 /\ pass[s].broken \subseteq DOMAIN promises
                 /\ pass[s].stage = "judging" => pass[s].broken \subseteq pass[s].due
RequestSane == \A r \in Requesters :
                 request[r] # NULL => request[r].promise.status = "open"

TypeInv == TypeOK /\ EventsSane /\ JobSane /\ PassSane /\ RequestSane

LEMMA InitTypeInv == Init => TypeInv
BY ChasingAssumption, LadderAssumption
   DEF Init, TypeInv, TypeOK, EventsSane, JobSane, PassSane, RequestSane, Pass, Idle,
       ChasingAssumption, LadderAssumption, Days, Account, ChaseState, NoState, Rungs,
       MaxRung

LEMMA BalancesAreNumbers == \A b \in Balances : b \in Nat
BY ChasingAssumption DEF ChasingAssumption

LEMMA DaysAreNumbers == \A d \in Days : d \in Nat
BY ChasingAssumption DEF ChasingAssumption, Days

LEMMA DatesAreNumbers == \A d \in Dates : d \in Nat /\ d + PromiseGraceDays \in Nat
BY ChasingAssumption, LadderAssumption DEF ChasingAssumption, LadderAssumption

LEMMA AccountSane ==
    ASSUME TypeOK, NEW c \in Customers
    PROVE  /\ today \in Nat
           /\ ledger[c].owed \in Balances /\ ledger[c].owed \in Nat
           /\ ledger[c].due \in Days /\ ledger[c].due \in Nat
<1>1. today \in Days /\ ledger[c] \in Account
  BY DEF TypeOK
<1> QED BY <1>1, BalancesAreNumbers, DaysAreNumbers DEF Account

\* Writing one field of a customer's state.
LEMMA FieldsOfChaseState ==
    ASSUME NEW st \in ChaseState
    PROVE  /\ \A d \in BOOLEAN : [st EXCEPT !.disputed = d] \in ChaseState
           /\ \A u \in Nat \cup {NULL} : [st EXCEPT !.paused_until = u] \in ChaseState
BY DEF ChaseState

\* What reset_if_settled makes of a customer's state.
LEMMA BottomOfLadder ==
    ASSUME NEW st \in ChaseState
    PROVE  [st EXCEPT !.rung = 0, !.chases_sent = 0, !.paused_until = NULL] \in ChaseState
<1> DEFINE lower == [st EXCEPT !.rung = 0, !.chases_sent = 0]
<1>1. [st EXCEPT !.rung = 0, !.chases_sent = 0, !.paused_until = NULL]
         = [lower EXCEPT !.paused_until = NULL]
  OBVIOUS
<1>2. 0 \in Rungs
  BY DEF Rungs, MaxRung
<1>3. lower \in ChaseState
  BY <1>2 DEF ChaseState
<1> HIDE DEF lower
<1> QED BY <1>1, <1>3, FieldsOfChaseState

\* A verdict, or a cancellation, changes a promise's status and nothing else.
LEMMA StatusOfPromise ==
    ASSUME NEW p \in Promise, NEW s \in {"kept", "broken", "cancelled"}
    PROVE  /\ [p EXCEPT !.status = s] \in Promise
           /\ [p EXCEPT !.status = s].status = s
           /\ [p EXCEPT !.status = s].customer = p.customer
           /\ [p EXCEPT !.status = s].promised_on = p.promised_on
BY DEF Promise

LEMMA StatusOfEvent ==
    ASSUME NEW e \in Event, NEW s \in {"processed", "expired"}
    PROVE  /\ [e EXCEPT !.status = s] \in Event
           /\ [e EXCEPT !.status = s].status = s
           /\ [e EXCEPT !.status = s].event_type = e.event_type
           /\ [e EXCEPT !.status = s].customer = e.customer
           /\ [e EXCEPT !.status = s].ref = e.ref
BY DEF Event

LEMMA DecisionSane ==
    ASSUME TypeOK, NEW c \in Customers, MayChase(c)
    PROVE  Decision(c).rung \in Levels
<1>1. today - ledger[c].due \in Int /\ ledger[c].owed \in Nat
  BY AccountSane
<1>2. cs[c].rung \in Rungs /\ cs[c].chases_sent \in Nat
  BY DEF TypeOK, ChaseState
<1> QED BY <1>1, <1>2, DecideRespectsHolds DEF Decision, MayChase

LEMMA ProposalSane ==
    ASSUME TypeOK, NEW c \in Customers, NEW level \in Levels, NEW by \in {"agent", "user"}
    PROVE  /\ Proposal(c, level, by) \in Action
           /\ Proposal(c, level, by).created = today
           /\ Proposal(c, level, by).customer = c
           /\ Proposal(c, level, by).status = "proposed"
<1>1. ledger[c].owed \in Balances /\ today \in Days
  BY AccountSane DEF TypeOK
<1> QED BY <1>1 DEF Proposal, Action

LEMMA PeopleTypeInv ==
    ASSUME TypeInv, NEW c \in Customers, People(c)
    PROVE  TypeInv'
<1> USE DEF TypeInv, TypeOK, EventsSane, JobSane, PassSane, RequestSane, inhand,
            history
<1>0. ASSUME Input PROVE inputs' \in 0..MaxInputs
  BY <1>0, ChasingAssumption DEF ChasingAssumption, Input
<1>1. ASSUME NEW owed \in Balances, Sync(c, owed) PROVE TypeInv'
  <2> DEFINE account == [owed |-> owed,
                         due  |-> IF owed = 0 THEN 0
                                  ELSE IF ledger[c].owed = 0 THEN today
                                  ELSE ledger[c].due]
  <2>1. 0 \in Days
    BY ChasingAssumption DEF ChasingAssumption, Days
  <2>2. account \in Account
    BY <2>1, AccountSane DEF Account
  <2>3. ledger' = [ledger EXCEPT ![c] = account]
    BY <1>1 DEF Sync
  <2> HIDE DEF account
  <2>4. ledger' \in [Customers -> Account]
    BY <2>2, <2>3
  <2> QED BY <1>0, <1>1, <2>4 DEF Sync
<1>2. ASSUME NEW disputed \in BOOLEAN, SetDispute(c, disputed) PROVE TypeInv'
  <2>1. cs' \in [Customers -> ChaseState]
    BY <1>2, FieldsOfChaseState DEF SetDispute
  <2> QED BY <1>0, <1>2, <2>1 DEF SetDispute
<1>3. ASSUME NEW until \in Dates, Pause(c, until) PROVE TypeInv'
  <2>1. cs' \in [Customers -> ChaseState]
    BY <1>3, FieldsOfChaseState, DatesAreNumbers DEF Pause
  <2> QED BY <1>0, <1>3, <2>1 DEF Pause
<1>4. ASSUME NEW r \in Requesters, NEW on \in Dates, NEW amount \in Amounts,
             AskPromise(r, c, on, amount)
      PROVE  TypeInv'
  <2> DEFINE p == [customer |-> c, promised_on |-> on, amount |-> amount,
                   balance |-> ledger[c].owed, created_at |-> inputs + 1,
                   status |-> "open"]
             asked == [promise |-> p, saw |-> OpenPromises(c)]
  <2>1. p \in Promise /\ p.status = "open"
    BY AccountSane, ChasingAssumption DEF Promise, ChasingAssumption
  <2> HIDE DEF p
  <2>2. DOMAIN promises \subseteq Nat
    OBVIOUS
  <2>3. asked \in Request /\ asked.promise.status = "open"
    BY <2>1, <2>2 DEF Request, OpenPromises
  <2>4. request' = [request EXCEPT ![r] = asked]
    BY <1>4 DEF AskPromise, p
  <2> HIDE DEF asked
  <2>5. request' \in [Requesters -> Request \cup {NULL}] /\ RequestSane'
    BY <2>3, <2>4
  <2> QED BY <1>0, <1>4, <2>5 DEF AskPromise, stored
<1>5. ASSUME NEW level \in {1, 2}, DraftChase(c, level) PROVE TypeInv'
  <2>1. Proposal(c, level, "user") \in Action
    BY ProposalSane DEF Levels, MaxRung
  <2>2. actions' \in Seq(Action)
    BY <1>5, <2>1, OneRowMore DEF DraftChase
  <2> QED BY <1>0, <1>5, <2>2 DEF DraftChase
<1> QED BY <1>1, <1>2, <1>3, <1>4, <1>5 DEF People

\* The rows the query reads, the cap and the order choose among what is fresh.
LEMMA WhatIsRaised ==
    ASSUME DetectOverdueRung
    PROVE  \E S \in SUBSET Fresh :
              events' = events \cup
                 {NewEvent("invoice.overdue_rung", c, Decision(c).rung) : c \in S}
BY DEF DetectOverdueRung, RowsRead, Raised

LEMMA LadderWatcherTypeInv ==
    ASSUME TypeInv, DetectOverdueRung
    PROVE  TypeInv'
<1> USE DEF TypeInv, TypeOK, EventsSane, JobSane, PassSane, RequestSane, inhand,
            history
<1>1. \A c \in Customers : reset_if_settled[c] \in ChaseState
  BY BottomOfLadder DEF reset_if_settled
<1>2. cs' \in [Customers -> ChaseState]
  BY <1>1 DEF DetectOverdueRung, reset_if_settled
<1>3. PICK S \in SUBSET Fresh :
         events' = events \cup
            {NewEvent("invoice.overdue_rung", c, Decision(c).rung) : c \in S}
  BY WhatIsRaised
<1>4. ASSUME NEW c \in S
      PROVE  /\ NewEvent("invoice.overdue_rung", c, Decision(c).rung) \in Event
             /\ NewEvent("invoice.overdue_rung", c, Decision(c).rung).ref \in Levels
  <2>1. c \in Customers /\ Decision(c).rung \in Levels
    BY <1>3, DecisionSane DEF Fresh
  <2> QED BY <2>1 DEF NewEvent, Event, Levels, MaxRung
<1>5. events \subseteq events' /\ events' \subseteq Event
  BY <1>3, <1>4
<1>6. \A e \in events' : e \in events \/ e.ref \in Levels
  BY <1>3, <1>4
<1> QED BY <1>2, <1>5, <1>6 DEF DetectOverdueRung

\* A settler's record after each of its steps.
LEMMA HandOfPass ==
    ASSUME pass \in [Settlers -> Pass], promises \in Seq(Promise), NEW s \in Settlers,
           PassSane
    PROVE  /\ DOMAIN promises \subseteq Nat
           /\ Idle \in Pass /\ Idle.due = {} /\ Idle.broken = {} /\ Idle.stage = "idle"
           /\ [Idle EXCEPT !.stage = "judging", !.due = DuePromises] \in Pass
           /\ \A i \in pass[s].due :
                 /\ [pass[s] EXCEPT !.judged = @ \cup {i}, !.broken = @ \cup {i}] \in Pass
                 /\ [pass[s] EXCEPT !.judged = @ \cup {i}, !.broken = @] \in Pass
           /\ [Idle EXCEPT !.stage = "announcing", !.broken = pass[s].broken] \in Pass
<1>1. DOMAIN promises \subseteq Nat
  OBVIOUS
<1>2. DuePromises \subseteq Nat
  BY <1>1 DEF DuePromises
<1>3. pass[s].due \subseteq Nat
  BY <1>1 DEF PassSane
<1> QED BY <1>1, <1>2, <1>3 DEF Pass, Idle

\* Every row of the table after a verdict or a cancellation.
LEMMA RowsRemain ==
    ASSUME promises \in Seq(Promise)
    PROVE  /\ \A s \in Settlers : SettleDuePromises(s) =>
                 promises' \in Seq(Promise) /\ DOMAIN promises' = DOMAIN promises
           /\ \A r \in Requesters :
                 /\ CancelOpen(r) \in Seq(Promise)
                 /\ DOMAIN CancelOpen(r) = DOMAIN promises
                 /\ Len(CancelOpen(r)) = Len(promises)
<1>1. \A i \in DOMAIN promises : promises[i] \in Promise
  OBVIOUS
<1>2. ASSUME NEW s \in Settlers, SettleDuePromises(s)
      PROVE  promises' \in Seq(Promise) /\ DOMAIN promises' = DOMAIN promises
  <2>1. promises' \in [DOMAIN promises -> Promise]
    BY <1>1, <1>2, StatusOfPromise DEF SettleDuePromises, Verdict
  <2> QED BY <2>1, SameRows
<1>3. ASSUME NEW r \in Requesters
      PROVE  /\ CancelOpen(r) \in Seq(Promise)
             /\ DOMAIN CancelOpen(r) = DOMAIN promises
             /\ Len(CancelOpen(r)) = Len(promises)
  <2>1. CancelOpen(r) \in [DOMAIN promises -> Promise]
    BY <1>1, StatusOfPromise DEF CancelOpen
  <2> QED BY <2>1, SameRows
<1> QED BY <1>2, <1>3

LEMMA PromisesTypeInv ==
    ASSUME TypeInv, NEW s \in Settlers, PromiseWatcher(s) \/ CrashPass(s)
    PROVE  TypeInv'
<1> USE DEF TypeInv, TypeOK, EventsSane, JobSane, PassSane, RequestSane, inhand,
            history
<1>0. \A x \in Pass :
          (/\ x.due \subseteq DOMAIN promises /\ x.broken \subseteq DOMAIN promises
           /\ x.stage = "judging" => x.broken \subseteq x.due)
          => /\ [pass EXCEPT ![s] = x] \in [Settlers -> Pass]
             /\ \A t \in Settlers :
                   /\ [pass EXCEPT ![s] = x][t].due \subseteq DOMAIN promises
                   /\ [pass EXCEPT ![s] = x][t].broken \subseteq DOMAIN promises
                   /\ [pass EXCEPT ![s] = x][t].stage = "judging" =>
                         [pass EXCEPT ![s] = x][t].broken \subseteq [pass EXCEPT ![s] = x][t].due
  OBVIOUS
<1>1. CASE SelectDue(s)
  <2> DEFINE x == [Idle EXCEPT !.stage = "judging", !.due = DuePromises]
  <2>1. x \in Pass /\ x.due = DuePromises /\ x.broken = {}
    BY HandOfPass DEF Idle
  <2>2. pass' = [pass EXCEPT ![s] = x] /\ DuePromises \subseteq DOMAIN promises
    BY <1>1 DEF SelectDue, DuePromises
  <2> HIDE DEF x
  <2>3. pass' \in [Settlers -> Pass] /\ PassSane'
    BY <1>0, <1>1, <2>1, <2>2 DEF SelectDue, stored
  <2> QED BY <1>1, <2>3 DEF SelectDue, stored
<1>2. ASSUME NEW i \in InHand(s), JudgePromise(s, i) PROVE TypeInv'
  <2> DEFINE x == [pass[s] EXCEPT !.judged = @ \cup {i},
                                  !.broken = IF Kept(promises[i]) THEN @ ELSE @ \cup {i}]
  <2>1. i \in pass[s].due /\ pass[s] \in Pass /\ pass[s].broken \subseteq pass[s].due
    BY <1>2 DEF InHand
  <2>2. /\ x \in Pass /\ x.due \subseteq DOMAIN promises
        /\ x.broken \subseteq DOMAIN promises /\ x.broken \subseteq x.due
    <3>1. CASE Kept(promises[i])
      <4>1. x = [pass[s] EXCEPT !.judged = @ \cup {i}, !.broken = @]
        BY <3>1
      <4>2. x.due = pass[s].due /\ x.broken = pass[s].broken
        BY <2>1, <3>1 DEF Pass
      <4>3. x \in Pass
        BY <2>1, <4>1, HandOfPass
      <4> QED BY <2>1, <4>2, <4>3
    <3>2. CASE ~Kept(promises[i])
      <4>1. x = [pass[s] EXCEPT !.judged = @ \cup {i}, !.broken = @ \cup {i}]
        BY <3>2
      <4>2. x.due = pass[s].due /\ x.broken = pass[s].broken \cup {i}
        BY <2>1, <3>2 DEF Pass
      <4>3. x \in Pass
        BY <2>1, <4>1, HandOfPass
      <4> QED BY <2>1, <4>2, <4>3
    <3> QED BY <3>1, <3>2
  <2>3. pass' = [pass EXCEPT ![s] = x]
    BY <1>2 DEF JudgePromise
  <2> HIDE DEF x
  <2>4. pass' \in [Settlers -> Pass] /\ PassSane'
    <3>1. promises' = promises
      BY <1>2 DEF JudgePromise, stored
    <3> QED BY <1>0, <2>2, <2>3, <3>1
  <2> QED BY <1>2, <2>4 DEF JudgePromise, stored
<1>3. CASE SettleDuePromises(s)
  <2> DEFINE x == IF pass[s].broken = {} THEN Idle
                  ELSE [Idle EXCEPT !.stage = "announcing", !.broken = pass[s].broken]
  <2>1. promises' \in Seq(Promise) /\ DOMAIN promises' = DOMAIN promises
    BY <1>3, RowsRemain
  <2>2. x \in Pass /\ x.due = {} /\ x.broken = pass[s].broken /\ x.stage # "judging"
    BY HandOfPass DEF Idle
  <2>3. pass' = [pass EXCEPT ![s] = x]
    BY <1>3 DEF SettleDuePromises
  <2> HIDE DEF x
  <2>4. pass' \in [Settlers -> Pass] /\ PassSane'
    BY <1>0, <2>1, <2>2, <2>3
  <2>5. overtaken' \subseteq Nat
    BY <1>3, HandOfPass DEF SettleDuePromises, Overtake
  <2> QED BY <1>3, <2>1, <2>4, <2>5 DEF SettleDuePromises
<1>4. CASE EmitBrokenPromises(s)
  <2> DEFINE said(i) == NewEvent("promise.broken", promises[i].customer, i)
  <2>1. \A i \in pass[s].broken : said(i) \in Event
                                  /\ said(i).event_type # "invoice.overdue_rung"
    <3>1. \A i \in pass[s].broken : promises[i] \in Promise /\ i \in Nat
      OBVIOUS
    <3> QED BY <3>1 DEF NewEvent, Event, Promise
  <2>2. \A e \in events' : e \in events \/ \E i \in pass[s].broken : e = said(i)
    BY <1>4 DEF EmitBrokenPromises
  <2> HIDE DEF said
  <2>3. events \subseteq events' /\ events' \subseteq Event
    BY <1>4, <2>1, <2>2 DEF EmitBrokenPromises
  <2>4. pass' \in [Settlers -> Pass] /\ PassSane'
    BY <1>0, <1>4, HandOfPass DEF EmitBrokenPromises
  <2> QED BY <1>4, <2>1, <2>2, <2>3, <2>4 DEF EmitBrokenPromises
<1>5. CASE CrashPass(s)
  <2>1. pass' \in [Settlers -> Pass] /\ PassSane'
    BY <1>0, <1>5, HandOfPass DEF CrashPass, stored
  <2>2. inputs' \in 0..MaxInputs
    BY <1>5, ChasingAssumption DEF CrashPass, Input, ChasingAssumption
  <2> QED BY <1>5, <2>1, <2>2 DEF CrashPass, stored
<1> QED BY <1>1, <1>2, <1>3, <1>4, <1>5 DEF PromiseWatcher

LEMMA RequestsTypeInv ==
    ASSUME TypeInv, NEW r \in Requesters, PromiseRequest(r)
    PROVE  TypeInv'
<1> USE DEF TypeInv, TypeOK, EventsSane, JobSane, PassSane, RequestSane, inhand,
            history
<1>1. request[r] # NULL /\ request[r] \in Request
  BY DEF PromiseRequest, RecordPromise, AbandonPromise
<1>2. request' \in [Requesters -> Request \cup {NULL}] /\ RequestSane'
  BY DEF PromiseRequest, RecordPromise, AbandonPromise
<1>3. CASE RecordPromise(r)
  <2> DEFINE p == request[r].promise
             until == p.promised_on + PromiseGraceDays
  <2>1. p \in Promise /\ p.customer \in Customers /\ p.promised_on \in Dates
    BY <1>1 DEF Request, Promise
  <2>2. until \in Nat
    BY <2>1, DatesAreNumbers
  <2>3. promises' = Append(CancelOpen(r), p) /\ cs' = [cs EXCEPT ![p.customer].paused_until = until]
    BY <1>3 DEF RecordPromise
  <2> HIDE DEF p, until
  <2>4. promises' \in Seq(Promise) /\ DOMAIN promises \subseteq DOMAIN promises'
    BY <2>1, <2>3, RowsRemain, OneRowMore
  <2>5. cs' \in [Customers -> ChaseState]
    BY <2>1, <2>2, <2>3, FieldsOfChaseState
  <2>6. overtaken' \subseteq Nat /\ rivals' \subseteq Customers
    <3>1. request[r].saw \subseteq Nat
      BY <1>1 DEF Request
    <3> QED BY <1>3, <2>1, <3>1 DEF RecordPromise, Overtake, p
  <2> QED BY <1>2, <1>3, <2>4, <2>5, <2>6 DEF RecordPromise
<1>4. CASE AbandonPromise(r)
  BY <1>2, <1>4 DEF AbandonPromise, stored
<1> QED BY <1>3, <1>4 DEF PromiseRequest

LEMMA LevelForSane ==
    ASSUME TypeInv, NEW e \in events
    PROVE  LevelFor(e) \in Levels
<1>1. CASE e.event_type = "invoice.overdue_rung"
  BY <1>1 DEF LevelFor, TypeInv, EventsSane
<1>2. CASE e.event_type # "invoice.overdue_rung"
  <2>1. cs[e.customer].rung \in 0..4
    BY DEF TypeInv, TypeOK, Event, ChaseState, Rungs, MaxRung
  <2> QED BY <1>2, <2>1 DEF LevelFor, Levels, MaxRung, Smaller, Larger
<1> QED BY <1>1, <1>2

\* The identity of an event: what its dedupe_key is made of.
SameFact(e, f) ==
    e.event_type = f.event_type /\ e.customer = f.customer /\ e.ref = f.ref

\* Expiring an event rewrites no fact.
LEMMA EventExpires ==
    ASSUME events \subseteq Event, NEW e \in events
    PROVE  /\ e \in Event /\ [e EXCEPT !.status = "expired"] \in Event
           /\ SameFact([e EXCEPT !.status = "expired"], e)
           /\ SameFact(e, e)
<1>1. e \in Event
  OBVIOUS
<1> QED BY <1>1, StatusOfEvent DEF SameFact

LEMMA ConsumerTypeInv ==
    ASSUME TypeInv, Consumer
    PROVE  TypeInv'
<1> USE DEF TypeInv, TypeOK, EventsSane, JobSane, PassSane, RequestSane, inhand,
            history
<1>1. CASE TakeEvent
  <2>1. PICK e \in events :
           /\ e.status = "pending" /\ ~Aged(e)
           /\ job' = [event |-> e,
                      stage |-> IF e.event_type = "promise.broken" THEN "void"
                                ELSE "propose"]
    BY <1>1 DEF TakeEvent
  <2>2. job' \in Job /\ job'.event = e
    BY <2>1 DEF Job
  <2>3. e \in events'
    BY <1>1, <2>1 DEF TakeEvent
  <2>4. \A f \in events' : f \in Event /\ \E g \in events : SameFact(f, g)
    BY <1>1, EventExpires DEF TakeEvent
  <2>5. events' \subseteq Event /\ EventsSane'
    BY <2>4 DEF SameFact
  <2> QED BY <1>1, <2>1, <2>2, <2>3, <2>5 DEF TakeEvent
<1>2. CASE ExpireStale
  <2>1. \A f \in events' : f \in Event /\ \E g \in events : SameFact(f, g)
    BY <1>2, EventExpires DEF ExpireStale
  <2>2. events' \subseteq Event /\ EventsSane'
    BY <2>1 DEF SameFact
  <2> QED BY <1>2, <2>2 DEF ExpireStale
<1>3. CASE VoidPause
  <2>1. job \in Job /\ job.event.customer \in Customers
    BY <1>3 DEF VoidPause, Job, Event
  <2>2. cs' \in [Customers -> ChaseState]
    BY <1>3, <2>1, FieldsOfChaseState DEF VoidPause
  <2>3. job' \in Job /\ job'.event = job.event
    BY <1>3, <2>1 DEF VoidPause, Job
  <2> QED BY <1>3, <2>2, <2>3 DEF VoidPause
<1>4. CASE Propose
  <2>1. job \in Job /\ job.event \in events /\ job.event.customer \in Customers
    BY <1>4 DEF Propose, Job, Event
  <2>2. Proposal(job.event.customer, LevelFor(job.event), "agent") \in Action
    BY <2>1, LevelForSane, ProposalSane
  <2>3. actions' \in Seq(Action)
    BY <1>4, <2>2, OneRowMore DEF Propose
  <2>4. job' \in Job /\ job'.event = job.event
    BY <1>4, <2>1 DEF Propose, Job
  <2> QED BY <1>4, <2>1, <2>3, <2>4 DEF Propose
<1>5. CASE CloseEvent
  <2>1. job.event \in events /\ job.event \in Event
    BY <1>5 DEF CloseEvent
  <2>2. /\ [job.event EXCEPT !.status = "processed"] \in Event
        /\ SameFact([job.event EXCEPT !.status = "processed"], job.event)
    BY <2>1, StatusOfEvent DEF SameFact
  <2>3. \A f \in events' : f \in Event /\ \E g \in events : SameFact(f, g)
    BY <1>5, <2>1, <2>2 DEF CloseEvent, SameFact
  <2>4. events' \subseteq Event /\ EventsSane'
    BY <2>3 DEF SameFact
  <2> QED BY <1>5, <2>4 DEF CloseEvent
<1> QED BY <1>1, <1>2, <1>3, <1>4, <1>5 DEF Consumer

\* What a decision writes to the ledger, and nothing else of it.
LEMMA StatusOfAction ==
    ASSUME actions \in Seq(Action), NEW i \in DOMAIN actions,
           NEW s \in {"approved", "executed", "rejected"},
           actions' = [actions EXCEPT ![i].status = s]
    PROVE  /\ actions' \in Seq(Action)
           /\ DOMAIN actions' = DOMAIN actions
           /\ Len(actions') = Len(actions)
           /\ actions'[i].status = s
           /\ \A j \in DOMAIN actions :
                 /\ j # i => actions'[j] = actions[j]
                 /\ actions'[j].customer = actions[j].customer
                 /\ actions'[j].rung = actions[j].rung
                 /\ actions'[j].created = actions[j].created
                 /\ actions'[j].outstanding = actions[j].outstanding
                 /\ actions'[j].proposed_by = actions[j].proposed_by
<1>1. \A j \in DOMAIN actions : actions[j] \in Action
  OBVIOUS
<1>2. ASSUME NEW a \in Action
      PROVE  /\ [a EXCEPT !.status = s] \in Action
             /\ [a EXCEPT !.status = s].status = s
             /\ [a EXCEPT !.status = s].customer = a.customer
             /\ [a EXCEPT !.status = s].rung = a.rung
             /\ [a EXCEPT !.status = s].created = a.created
             /\ [a EXCEPT !.status = s].outstanding = a.outstanding
             /\ [a EXCEPT !.status = s].proposed_by = a.proposed_by
  BY DEF Action
<1>3. /\ actions' \in [DOMAIN actions -> Action]
      /\ actions'[i] = [actions[i] EXCEPT !.status = s]
      /\ \A j \in DOMAIN actions : j # i => actions'[j] = actions[j]
  BY <1>1, <1>2
<1>4. actions' \in Seq(Action) /\ DOMAIN actions' = DOMAIN actions
      /\ Len(actions') = Len(actions)
  BY <1>3, SameRows
<1>5. /\ actions'[i].status = s
      /\ actions'[i].customer = actions[i].customer
      /\ actions'[i].rung = actions[i].rung
      /\ actions'[i].created = actions[i].created
      /\ actions'[i].outstanding = actions[i].outstanding
      /\ actions'[i].proposed_by = actions[i].proposed_by
  BY <1>1, <1>2, <1>3
<1> QED BY <1>3, <1>4, <1>5

\* What a delivered reminder writes: one line of the log, one customer's state.
LEMMA RecordedChase ==
    ASSUME TypeOK, NEW i \in DOMAIN actions, record_chase(i)
    PROVE  LET c == actions[i].customer IN
           /\ c \in Customers
           /\ cs' \in [Customers -> ChaseState]
           /\ \A d \in Customers : d # c => cs'[d] = cs[d]
           /\ cs'[c].rung = Larger(cs[c].rung, actions[i].rung)
           /\ cs'[c].last_chased = today
           /\ cs'[c].chases_sent = cs[c].chases_sent + 1
           /\ chase_log' \in Seq(Chase)
           /\ chase_log' = Append(chase_log,
                 [customer |-> c, rung |-> actions[i].rung, action |-> i,
                  sent |-> today, balance |-> actions[i].outstanding])
<1> DEFINE c == actions[i].customer
           st == [cs[c] EXCEPT !.rung = Larger(@, actions[i].rung),
                               !.last_chased = today,
                               !.chases_sent = @ + 1]
           line == [customer |-> c, rung |-> actions[i].rung, action |-> i,
                    sent |-> today, balance |-> actions[i].outstanding]
<1>1. actions[i] \in Action /\ i \in Nat /\ today \in Days
  BY DEF TypeOK
<1>2. c \in Customers /\ actions[i].rung \in Levels /\ line \in Chase
  BY <1>1 DEF Action, Chase
<1>3. cs[c] \in ChaseState
  BY <1>2 DEF TypeOK
<1>4. /\ st \in ChaseState /\ st.rung = Larger(cs[c].rung, actions[i].rung)
      /\ st.last_chased = today /\ st.chases_sent = cs[c].chases_sent + 1
  <2> DEFINE raised == [cs[c] EXCEPT !.rung = Larger(@, actions[i].rung),
                                     !.last_chased = today]
  <2>1. st = [raised EXCEPT !.chases_sent = @ + 1]
    OBVIOUS
  <2>2. Larger(cs[c].rung, actions[i].rung) \in Rungs
    BY <1>2, <1>3 DEF ChaseState, Rungs, Levels, MaxRung, Larger
  <2>3. /\ raised \in ChaseState /\ raised.rung = Larger(cs[c].rung, actions[i].rung)
        /\ raised.last_chased = today /\ raised.chases_sent = cs[c].chases_sent
    BY <1>1, <1>3, <2>2 DEF ChaseState
  <2> HIDE DEF raised
  <2>4. /\ [raised EXCEPT !.chases_sent = @ + 1] \in ChaseState
        /\ [raised EXCEPT !.chases_sent = @ + 1].rung = raised.rung
        /\ [raised EXCEPT !.chases_sent = @ + 1].last_chased = raised.last_chased
        /\ [raised EXCEPT !.chases_sent = @ + 1].chases_sent = raised.chases_sent + 1
    BY <2>3 DEF ChaseState
  <2> QED BY <2>1, <2>3, <2>4
<1>5. cs' = [cs EXCEPT ![c] = st]
  BY DEF record_chase
<1>6. chase_log' = Append(chase_log, line)
  BY DEF record_chase
<1>7. chase_log' \in Seq(Chase)
  BY <1>2, <1>6, OneRowMore DEF TypeOK
<1> HIDE DEF st, line
<1>8. /\ cs' \in [Customers -> ChaseState]
      /\ \A d \in Customers : d # c => cs'[d] = cs[d]
      /\ cs'[c] = st
  BY <1>2, <1>4, <1>5 DEF TypeOK
<1> QED BY <1>2, <1>4, <1>6, <1>7, <1>8 DEF line

LEMMA DecideTypeInv ==
    ASSUME TypeInv, NEW i \in DOMAIN actions, Decide(i)
    PROVE  TypeInv'
<1> USE DEF TypeInv, TypeOK, EventsSane, JobSane, PassSane, RequestSane, inhand,
            history
<1>1. CASE Reject(i)
  BY <1>1, StatusOfAction DEF Reject
<1>2. CASE ApproveUndelivered(i)
  BY <1>2, StatusOfAction DEF ApproveUndelivered
<1>3. CASE ApproveDelivered(i)
  <2>1. actions' \in Seq(Action)
    BY <1>3, StatusOfAction DEF ApproveDelivered
  <2>2. cs' \in [Customers -> ChaseState] /\ chase_log' \in Seq(Chase)
    BY <1>3, RecordedChase DEF ApproveDelivered
  <2> QED BY <1>3, <2>1, <2>2 DEF ApproveDelivered
<1> QED BY <1>1, <1>2, <1>3 DEF Decide

LEMMA NextTypeInv == TypeInv /\ [Next]_vars => TypeInv'
<1> SUFFICES ASSUME TypeInv, [Next]_vars PROVE TypeInv'
  OBVIOUS
<1>1. CASE NextDay
  <2>1. today' \in Days
    BY <1>1, ChasingAssumption DEF NextDay, TypeInv, TypeOK, Days, ChasingAssumption
  <2> QED BY <1>1, <2>1
          DEF NextDay, stored, inhand, history, TypeInv, TypeOK, EventsSane, JobSane,
              PassSane, RequestSane
<1>2. CASE Crash
  <2>1. inputs' \in 0..MaxInputs
    BY <1>2, ChasingAssumption DEF Crash, Input, TypeInv, TypeOK, ChasingAssumption
  <2> QED BY <1>2, <2>1
          DEF Crash, stored, inhand, history, TypeInv, TypeOK, EventsSane, JobSane,
              PassSane, RequestSane
<1>3. CASE UNCHANGED vars
  BY <1>3 DEF vars, stored, inhand, history, TypeInv, TypeOK, EventsSane, JobSane,
              PassSane, RequestSane
<1> QED BY <1>1, <1>2, <1>3, LadderWatcherTypeInv, PromisesTypeInv, RequestsTypeInv,
           ConsumerTypeInv, PeopleTypeInv, DecideTypeInv DEF Next

\* Every reachable state has its type, for any number of customers, days,
\* balances and inputs: in particular no handler ever computes a rung outside
\* the ladder and no row is written with a field of the wrong kind.
THEOREM TypeCorrect == Spec => [](TypeOK /\ TypeInv)
<1>1. TypeInv => TypeOK
  BY DEF TypeInv
<1> QED BY InitTypeInv, NextTypeInv, <1>1, PTL DEF Spec

-----------------------------------------------------------------------------
(* Which action writes which table. *)

LEMMA WhoWritesEvents ==
    [Next]_vars => \/ events' = events
                   \/ DetectOverdueRung
                   \/ \E s \in Settlers : EmitBrokenPromises(s)
                   \/ TakeEvent \/ ExpireStale \/ CloseEvent
BY DEF Next, vars, stored, NextDay, PromiseWatcher, SelectDue, JudgePromise,
       SettleDuePromises, CrashPass, PromiseRequest, RecordPromise, AbandonPromise,
       Consumer, VoidPause, Propose, Crash, People, Sync, SetDispute, Pause, AskPromise,
       DraftChase, Decide, Reject, ApproveUndelivered, ApproveDelivered

LEMMA WhoWritesActions ==
    [Next]_vars => \/ actions' = actions /\ chase_log' = chase_log
                   \/ Propose
                   \/ \E c \in Customers, level \in {1, 2} : DraftChase(c, level)
                   \/ \E i \in DOMAIN actions : Decide(i)
BY DEF Next, vars, stored, NextDay, DetectOverdueRung, PromiseWatcher, SelectDue,
       JudgePromise, SettleDuePromises, EmitBrokenPromises, CrashPass, PromiseRequest,
       RecordPromise, AbandonPromise, Consumer, TakeEvent, ExpireStale, VoidPause,
       CloseEvent, Crash, People, Sync, SetDispute, Pause, AskPromise

LEMMA TimeGoesOn ==
    ASSUME TypeInv, [Next]_vars
    PROVE  today' \in Nat /\ today \in Nat /\ today' >= today
<1>1. today \in Nat
  BY DaysAreNumbers DEF TypeInv, TypeOK
<1>2. today' = today \/ today' = today + 1
  BY DEF Next, vars, stored, NextDay, DetectOverdueRung, PromiseWatcher, SelectDue,
         JudgePromise, SettleDuePromises, EmitBrokenPromises, CrashPass, PromiseRequest,
         RecordPromise, AbandonPromise, Consumer, TakeEvent, ExpireStale, VoidPause,
         Propose, CloseEvent, Crash, People, Sync, SetDispute, Pause, AskPromise,
         DraftChase, Decide, Reject, ApproveUndelivered, ApproveDelivered
<1> QED BY <1>1, <1>2

-----------------------------------------------------------------------------
(* One event per fact. *)

\* The dedupe key makes the table a set of facts: a watcher may re-derive a
\* fact as often as it runs, and expiry and processing only mark the row.
THEOREM EventsAreFacts == Spec => []OneEventPerFact
<1>1. Init => OneEventPerFact
  BY DEF Init, OneEventPerFact
<1>2. TypeInv /\ OneEventPerFact /\ [Next]_vars => OneEventPerFact'
  <2> SUFFICES ASSUME TypeInv, OneEventPerFact, [Next]_vars,
                      NEW e \in events', NEW f \in events', SameFact(e, f)
               PROVE  e = f
    BY DEF OneEventPerFact, SameFact
  <2>0. /\ \A g, h \in events : SameFact(g, h) => g = h
        /\ events \subseteq Event
    BY DEF OneEventPerFact, SameFact, TypeInv, TypeOK
  <2>1. CASE DetectOverdueRung
    <3>1. PICK S \in SUBSET Fresh :
             events' = events \cup
                {NewEvent("invoice.overdue_rung", c, Decision(c).rung) : c \in S}
      BY <2>1, WhatIsRaised
    <3>2. ASSUME NEW c \in S, NEW g \in events
          PROVE  /\ ~SameFact(NewEvent("invoice.overdue_rung", c, Decision(c).rung), g)
                 /\ ~SameFact(g, NewEvent("invoice.overdue_rung", c, Decision(c).rung))
      BY <3>1 DEF Fresh, Recorded, SameFact, NewEvent
    <3>3. ASSUME NEW c \in S, NEW d \in S,
                 SameFact(NewEvent("invoice.overdue_rung", c, Decision(c).rung),
                          NewEvent("invoice.overdue_rung", d, Decision(d).rung))
          PROVE  c = d
      BY <3>3 DEF SameFact, NewEvent
    <3> QED BY <2>0, <3>1, <3>2, <3>3
  <2>2. ASSUME NEW s \in Settlers, EmitBrokenPromises(s) PROVE e = f
    <3> DEFINE Unsaid == {j \in pass[s].broken :
                             ~Recorded("promise.broken", promises[j].customer, j)}
               Said(i) == NewEvent("promise.broken", promises[i].customer, i)
    <3>1. events' = events \cup {Said(i) : i \in Unsaid}
      BY <2>2 DEF EmitBrokenPromises
    <3>2. ASSUME NEW i \in Unsaid, NEW g \in events
          PROVE  ~SameFact(Said(i), g) /\ ~SameFact(g, Said(i))
      BY DEF Recorded, SameFact, NewEvent
    <3>3. ASSUME NEW i \in Unsaid, NEW j \in Unsaid, SameFact(Said(i), Said(j))
          PROVE  i = j
      BY <3>3 DEF SameFact, NewEvent
    <3> HIDE DEF Unsaid, Said
    <3> QED BY <2>0, <3>1, <3>2, <3>3
  <2>3. CASE TakeEvent
    <3>1. PICK g \in events : e = IF g.status = "pending" /\ Aged(g)
                                  THEN [g EXCEPT !.status = "expired"] ELSE g
      BY <2>3 DEF TakeEvent
    <3>2. PICK h \in events : f = IF h.status = "pending" /\ Aged(h)
                                  THEN [h EXCEPT !.status = "expired"] ELSE h
      BY <2>3 DEF TakeEvent
    <3>3. SameFact(e, g) /\ SameFact(f, h)
      BY <2>0, <3>1, <3>2, EventExpires
    <3>4. g = h
      BY <2>0, <3>3 DEF SameFact
    <3> QED BY <3>1, <3>2, <3>4
  <2>4. CASE ExpireStale
    <3>1. PICK g \in events : e = IF g.status = "pending"
                                  THEN [g EXCEPT !.status = "expired"] ELSE g
      BY <2>4 DEF ExpireStale
    <3>2. PICK h \in events : f = IF h.status = "pending"
                                  THEN [h EXCEPT !.status = "expired"] ELSE h
      BY <2>4 DEF ExpireStale
    <3>3. SameFact(e, g) /\ SameFact(f, h)
      BY <2>0, <3>1, <3>2, EventExpires
    <3>4. g = h
      BY <2>0, <3>3 DEF SameFact
    <3> QED BY <3>1, <3>2, <3>4
  <2>5. CASE CloseEvent
    <3> DEFINE done == [job.event EXCEPT !.status = "processed"]
    <3>1. job.event \in events /\ job.event \in Event
      BY <2>0, <2>5 DEF CloseEvent, TypeInv, JobSane
    <3>2. SameFact(done, job.event)
      BY <3>1, StatusOfEvent DEF SameFact
    <3>3. events' = (events \ {job.event}) \cup {done}
      BY <2>5 DEF CloseEvent
    <3>4. ASSUME NEW g \in events \ {job.event}
          PROVE  ~SameFact(done, g) /\ ~SameFact(g, done)
      BY <2>0, <3>1, <3>2 DEF SameFact
    <3> HIDE DEF done
    <3> QED BY <2>0, <3>3, <3>4
  <2> QED BY <2>0, <2>1, <2>2, <2>3, <2>4, <2>5, WhoWritesEvents
<1> QED BY <1>1, <1>2, InitTypeInv, NextTypeInv, PTL DEF Spec

-----------------------------------------------------------------------------
(* The ladder and the log. *)

\* But for a delivered reminder, a step leaves the log and the day of the last
\* chase alone, and the rung and the count too, or puts them to zero.
LEMMA WhoWritesRungs ==
    ASSUME TypeInv, [Next]_vars
    PROVE  \/ \E i \in DOMAIN actions : ApproveDelivered(i) /\ record_chase(i)
           \/ /\ chase_log' = chase_log
              /\ \A c \in Customers :
                    /\ cs'[c].rung = cs[c].rung \/ cs'[c].rung = 0
                    /\ cs'[c].last_chased = cs[c].last_chased
                    /\ cs'[c].chases_sent = cs[c].chases_sent \/ cs'[c].chases_sent = 0
<1> DEFINE Kin(st, c) == /\ st.rung = cs[c].rung \/ st.rung = 0
                         /\ st.last_chased = cs[c].last_chased
                         /\ st.chases_sent = cs[c].chases_sent \/ st.chases_sent = 0
<1>0. cs \in [Customers -> ChaseState]
  BY DEF TypeInv, TypeOK
<1>1. CASE cs' = cs /\ chase_log' = chase_log
  BY <1>1
<1>2. CASE DetectOverdueRung
  <2>1. chase_log' = chase_log /\ cs' = reset_if_settled
    BY <1>2 DEF DetectOverdueRung
  <2>2. ASSUME NEW c \in Customers PROVE Kin(reset_if_settled[c], c)
    <3>1. ASSUME NEW st \in ChaseState
          PROVE  LET low == [st EXCEPT !.rung = 0, !.chases_sent = 0, !.paused_until = NULL]
                 IN  low.rung = 0 /\ low.chases_sent = 0 /\ low.last_chased = st.last_chased
      BY DEF ChaseState
    <3> QED BY <1>0, <3>1 DEF reset_if_settled
  <2> QED BY <2>1, <2>2
<1>3. ASSUME NEW c \in Customers, chase_log' = chase_log,
             \/ \E d \in BOOLEAN : cs' = [cs EXCEPT ![c].disputed = d]
             \/ \E u \in Nat \cup {NULL} : cs' = [cs EXCEPT ![c].paused_until = u]
      PROVE  \A d \in Customers : Kin(cs'[d], d)
  <2>1. ASSUME NEW st \in ChaseState
        PROVE  /\ \A d \in BOOLEAN :
                    LET new == [st EXCEPT !.disputed = d] IN
                    /\ new.rung = st.rung /\ new.chases_sent = st.chases_sent
                    /\ new.last_chased = st.last_chased
               /\ \A u \in Nat \cup {NULL} :
                    LET new == [st EXCEPT !.paused_until = u] IN
                    /\ new.rung = st.rung /\ new.chases_sent = st.chases_sent
                    /\ new.last_chased = st.last_chased
    BY DEF ChaseState
  <2>2. ASSUME NEW d \in BOOLEAN, cs' = [cs EXCEPT ![c].disputed = d]
        PROVE  \A e \in Customers : Kin(cs'[e], e)
    BY <1>0, <2>1, <2>2
  <2>3. ASSUME NEW u \in Nat \cup {NULL}, cs' = [cs EXCEPT ![c].paused_until = u]
        PROVE  \A e \in Customers : Kin(cs'[e], e)
    BY <1>0, <2>1, <2>3
  <2> QED BY <1>3, <2>2, <2>3
<1>4. ASSUME NEW c \in Customers, People(c)
      PROVE  chase_log' = chase_log /\ \A d \in Customers : Kin(cs'[d], d)
  <2>1. /\ chase_log' = chase_log
        /\ \/ cs' = cs
           \/ \E d \in BOOLEAN : cs' = [cs EXCEPT ![c].disputed = d]
           \/ \E u \in Dates : cs' = [cs EXCEPT ![c].paused_until = u]
    BY <1>4 DEF People, Sync, SetDispute, Pause, AskPromise, DraftChase, stored
  <2> QED BY <1>3, <2>1, DatesAreNumbers
<1>5. CASE VoidPause
  <2>1. job.event.customer \in Customers
    BY <1>5 DEF VoidPause, TypeInv, TypeOK, JobSane, Event
  <2> QED BY <1>3, <1>5, <2>1 DEF VoidPause
<1>6. ASSUME NEW r \in Requesters, RecordPromise(r)
      PROVE  chase_log' = chase_log /\ \A d \in Customers : Kin(cs'[d], d)
  <2>1. request[r].promise \in Promise
    BY <1>6 DEF RecordPromise, TypeInv, TypeOK, Request
  <2>2. /\ request[r].promise.customer \in Customers
        /\ request[r].promise.promised_on + PromiseGraceDays \in Nat
    BY <2>1, DatesAreNumbers DEF Promise
  <2> QED BY <1>3, <1>6, <2>2 DEF RecordPromise
<1>7. ASSUME NEW i \in DOMAIN actions, Decide(i)
      PROVE  \/ ApproveDelivered(i) /\ record_chase(i)
             \/ cs' = cs /\ chase_log' = chase_log
  BY <1>7 DEF Decide, Reject, ApproveUndelivered, ApproveDelivered
<1>8. \/ cs' = cs /\ chase_log' = chase_log
      \/ DetectOverdueRung \/ VoidPause
      \/ \E c \in Customers : People(c)
      \/ \E r \in Requesters : RecordPromise(r)
      \/ \E i \in DOMAIN actions : Decide(i)
  BY DEF Next, vars, stored, NextDay, PromiseWatcher, SelectDue, JudgePromise,
         SettleDuePromises, EmitBrokenPromises, CrashPass, PromiseRequest,
         AbandonPromise, Consumer, TakeEvent, ExpireStale, Propose, CloseEvent, Crash
<1> QED BY <1>1, <1>2, <1>4, <1>5, <1>6, <1>7, <1>8

\* Rows of the ledger keep whose they are and how firm.
LEMMA ActionsStay ==
    ASSUME TypeInv, [Next]_vars, NEW i \in DOMAIN actions
    PROVE  /\ i \in DOMAIN actions'
           /\ actions'[i].customer = actions[i].customer
           /\ actions'[i].rung = actions[i].rung
<1>0. actions \in Seq(Action)
  BY DEF TypeInv, TypeOK
<1>1. CASE actions' = actions
  BY <1>1
<1>2. ASSUME NEW a \in Action, actions' = Append(actions, a)
      PROVE  i \in DOMAIN actions' /\ actions'[i] = actions[i]
  BY <1>0, <1>2, OneRowMore
<1>3. CASE Propose
  <2>1. job \in Job /\ job.event \in events /\ job.event.customer \in Customers
    BY <1>3 DEF Propose, Job, Event, TypeInv, TypeOK, JobSane
  <2>2. Proposal(job.event.customer, LevelFor(job.event), "agent") \in Action
    BY <2>1, LevelForSane, ProposalSane DEF TypeInv
  <2> QED BY <1>1, <1>2, <1>3, <2>2 DEF Propose
<1>4. ASSUME NEW c \in Customers, NEW level \in {1, 2}, DraftChase(c, level)
      PROVE  i \in DOMAIN actions' /\ actions'[i] = actions[i]
  <2>1. Proposal(c, level, "user") \in Action
    BY ProposalSane DEF Levels, MaxRung, TypeInv
  <2> QED BY <1>2, <1>4, <2>1 DEF DraftChase
<1>5. ASSUME NEW j \in DOMAIN actions, Decide(j)
      PROVE  /\ i \in DOMAIN actions'
             /\ actions'[i].customer = actions[i].customer
             /\ actions'[i].rung = actions[i].rung
  <2>1. PICK st \in {"approved", "executed", "rejected"} :
           actions' = [actions EXCEPT ![j].status = st]
    BY <1>5 DEF Decide, Reject, ApproveUndelivered, ApproveDelivered
  <2> QED BY <1>0, <2>1, StatusOfAction
<1> QED BY <1>1, <1>3, <1>4, <1>5, WhoWritesActions

LEMMA ChasesAreFinite ==
    ASSUME chase_log \in Seq(Chase), NEW c
    PROVE  /\ IsFiniteSet(Chases(c)) /\ Cardinality(Chases(c)) \in Nat
           /\ Chases(c) \subseteq DOMAIN chase_log
<1>1. DOMAIN chase_log = 1..Len(chase_log) /\ Len(chase_log) \in Nat
  OBVIOUS
<1>2. IsFiniteSet(1..Len(chase_log))
  BY <1>1, FS_Interval
<1>3. Chases(c) \subseteq 1..Len(chase_log)
  BY <1>1 DEF Chases
<1> QED BY <1>1, <1>2, <1>3, FS_Subset, FS_CardinalityType

\* A delivered reminder is one more entry of its customer's, and of no other's.
LEMMA OneChaseMore ==
    ASSUME TypeInv, NEW i \in DOMAIN actions, record_chase(i), NEW c \in Customers
    PROVE  IF c = actions[i].customer
           THEN /\ Len(chase_log) + 1 \in Chases(c)'
                /\ chase_log'[Len(chase_log) + 1].sent = today
                /\ Cardinality(Chases(c)') = Cardinality(Chases(c)) + 1
           ELSE Chases(c)' = Chases(c) /\ \A k \in Chases(c) : chase_log'[k] = chase_log[k]
<1> DEFINE d == actions[i].customer
           line == [customer |-> d, rung |-> actions[i].rung, action |-> i,
                    sent |-> today, balance |-> actions[i].outstanding]
<1>0. chase_log \in Seq(Chase) /\ chase_log' = Append(chase_log, line)
  BY RecordedChase DEF TypeInv, TypeOK
<1>1. line \in Chase /\ line.customer = d /\ line.sent = today
  <2>1. actions[i] \in Action /\ i \in Nat /\ today \in Days
    BY DEF TypeInv, TypeOK
  <2> QED BY <2>1 DEF Action, Chase
<1> HIDE DEF line
<1>2. /\ DOMAIN chase_log' = DOMAIN chase_log \cup {Len(chase_log) + 1}
      /\ Len(chase_log) + 1 \notin DOMAIN chase_log
      /\ \A k \in DOMAIN chase_log : chase_log'[k] = chase_log[k]
      /\ chase_log'[Len(chase_log) + 1] = line
  BY <1>0, <1>1, OneRowMore
<1>3. CASE c = d
  <2>1. Chases(c)' = Chases(c) \cup {Len(chase_log) + 1}
    BY <1>1, <1>2, <1>3 DEF Chases
  <2>2. IsFiniteSet(Chases(c)) /\ Len(chase_log) + 1 \notin Chases(c)
    BY <1>0, <1>2, ChasesAreFinite DEF Chases
  <2>3. Cardinality(Chases(c) \cup {Len(chase_log) + 1}) = Cardinality(Chases(c)) + 1
    BY <2>2, FS_AddElement
  <2> QED BY <1>1, <1>2, <1>3, <2>1, <2>3
<1>4. CASE c # d
  BY <1>1, <1>2, <1>4 DEF Chases
<1> QED BY <1>3, <1>4

\* Recovery, escalation and the cooldown are reckoned from chase_log and from
\* collections_state: the second never says more than the first.
THEOREM TheLadderIsOfTheLog == Spec => []StateIsOfTheLog
<1>1. Init => StateIsOfTheLog
  <2> SUFFICES ASSUME Init PROVE StateIsOfTheLog
    OBVIOUS
  <2>1. \A c \in Customers : Chases(c) = {}
    BY DEF Init, Chases
  <2>2. Cardinality({}) = 0
    BY FS_EmptySet
  <2>3. \A c \in Customers : cs[c].chases_sent = 0 /\ cs[c].last_chased = NULL
    BY DEF Init, NoState
  <2>4. DOMAIN chase_log = {}
    BY DEF Init
  <2>5. \A c \in Customers : Cardinality(Chases(c)) = 0
    BY <2>1, <2>2
  <2> QED BY <2>1, <2>3, <2>4, <2>5 DEF StateIsOfTheLog
<1>2. TypeInv /\ StateIsOfTheLog /\ [Next]_vars => StateIsOfTheLog'
  <2> SUFFICES ASSUME TypeInv, StateIsOfTheLog, [Next]_vars PROVE StateIsOfTheLog'
    OBVIOUS
  <2>0. /\ actions \in Seq(Action) /\ chase_log \in Seq(Chase)
        /\ \A c \in Customers : cs[c].chases_sent \in Nat
    BY DEF TypeInv, TypeOK, ChaseState
  <2>1. CASE /\ chase_log' = chase_log
             /\ \A c \in Customers :
                   /\ cs'[c].last_chased = cs[c].last_chased
                   /\ cs'[c].chases_sent = cs[c].chases_sent \/ cs'[c].chases_sent = 0
    <3>1. \A c \in Customers : Chases(c)' = Chases(c) /\ Cardinality(Chases(c)) \in Nat
      BY <2>0, <2>1, ChasesAreFinite DEF Chases
    <3>2. ASSUME NEW c \in Customers
          PROVE  /\ cs'[c].chases_sent <= Cardinality(Chases(c)')
                 /\ IF Chases(c)' = {} THEN cs'[c].last_chased = NULL
                    ELSE \E k \in Chases(c)' : cs'[c].last_chased = chase_log'[k].sent
      <4>1. /\ cs[c].chases_sent <= Cardinality(Chases(c))
            /\ IF Chases(c) = {} THEN cs[c].last_chased = NULL
               ELSE \E k \in Chases(c) : cs[c].last_chased = chase_log[k].sent
        BY DEF StateIsOfTheLog
      <4>2. /\ Chases(c)' = Chases(c) /\ Cardinality(Chases(c)) \in Nat
            /\ cs'[c].last_chased = cs[c].last_chased
            /\ cs'[c].chases_sent = cs[c].chases_sent \/ cs'[c].chases_sent = 0
        BY <2>1, <3>1
      <4>3. cs'[c].chases_sent <= Cardinality(Chases(c)')
        BY <4>1, <4>2
      <4> QED BY <2>1, <4>1, <4>2, <4>3
    <3>3. ASSUME NEW k \in DOMAIN chase_log'
          PROVE  /\ chase_log'[k].action \in DOMAIN actions'
                 /\ actions'[chase_log'[k].action].customer = chase_log'[k].customer
                 /\ actions'[chase_log'[k].action].rung = chase_log'[k].rung
      BY <2>1, ActionsStay DEF StateIsOfTheLog
    <3> QED BY <3>2, <3>3 DEF StateIsOfTheLog
  <2>2. ASSUME NEW i \in DOMAIN actions, ApproveDelivered(i), record_chase(i)
        PROVE  StateIsOfTheLog'
    <3> DEFINE d == actions[i].customer
               line == [customer |-> d, rung |-> actions[i].rung, action |-> i,
                        sent |-> today, balance |-> actions[i].outstanding]
    <3>1. /\ d \in Customers
          /\ \A c \in Customers : c # d => cs'[c] = cs[c]
          /\ cs'[d].last_chased = today /\ cs'[d].chases_sent = cs[d].chases_sent + 1
          /\ chase_log' = Append(chase_log, line)
      BY <2>2, RecordedChase DEF TypeInv
    <3>2. ASSUME NEW c \in Customers
          PROVE  /\ cs'[c].chases_sent <= Cardinality(Chases(c)')
                 /\ IF Chases(c)' = {} THEN cs'[c].last_chased = NULL
                    ELSE \E k \in Chases(c)' : cs'[c].last_chased = chase_log'[k].sent
      <4>1. /\ cs[c].chases_sent <= Cardinality(Chases(c))
            /\ IF Chases(c) = {} THEN cs[c].last_chased = NULL
               ELSE \E k \in Chases(c) : cs[c].last_chased = chase_log[k].sent
        BY DEF StateIsOfTheLog
      <4>2. CASE c = d
        <5>1. /\ Len(chase_log) + 1 \in Chases(c)'
              /\ chase_log'[Len(chase_log) + 1].sent = today
              /\ Cardinality(Chases(c)') = Cardinality(Chases(c)) + 1
          BY <2>2, <4>2, OneChaseMore
        <5>2. Cardinality(Chases(c)) \in Nat /\ cs[c].chases_sent \in Nat
          BY <2>0, ChasesAreFinite
        <5> QED BY <3>1, <4>1, <4>2, <5>1, <5>2
      <4>3. CASE c # d
        <5>1. Chases(c)' = Chases(c) /\ \A k \in Chases(c) : chase_log'[k] = chase_log[k]
          BY <2>2, <4>3, OneChaseMore
        <5>2. cs'[c] = cs[c]
          BY <3>1, <4>3
        <5> QED BY <4>1, <5>1, <5>2
      <4> QED BY <4>2, <4>3
    <3>3. line \in Chase /\ line.customer = d /\ line.rung = actions[i].rung /\ line.action = i
      <4>1. actions[i] \in Action /\ i \in Nat /\ today \in Days
        BY DEF TypeInv, TypeOK
      <4> QED BY <4>1 DEF Action, Chase
    <3> HIDE DEF line
    <3>4. /\ DOMAIN chase_log' = DOMAIN chase_log \cup {Len(chase_log) + 1}
          /\ \A k \in DOMAIN chase_log : chase_log'[k] = chase_log[k]
          /\ chase_log'[Len(chase_log) + 1] = line
      BY <2>0, <3>1, <3>3, OneRowMore
    <3>5. ASSUME NEW k \in DOMAIN chase_log'
          PROVE  /\ chase_log'[k].action \in DOMAIN actions'
                 /\ actions'[chase_log'[k].action].customer = chase_log'[k].customer
                 /\ actions'[chase_log'[k].action].rung = chase_log'[k].rung
      <4>1. CASE k \in DOMAIN chase_log
        BY <3>4, <4>1, ActionsStay DEF StateIsOfTheLog
      <4>2. CASE k = Len(chase_log) + 1
        BY <2>2, <3>3, <3>4, <4>2, ActionsStay
      <4> QED BY <3>4, <4>1, <4>2
    <3> QED BY <3>2, <3>5 DEF StateIsOfTheLog
  <2> QED BY <2>1, <2>2, WhoWritesRungs
<1> QED BY <1>1, <1>2, InitTypeInv, NextTypeInv, PTL DEF Spec

\* Whatever is approved, undelivered, rejected or retried: a customer is on a
\* rung because a reminder at that rung went out to them.
THEOREM RungsAreDelivered == Spec => []RungWasDelivered
<1>1. Init => RungWasDelivered
  BY DEF Init, RungWasDelivered, NoState
<1>2. TypeInv /\ RungWasDelivered /\ [Next]_vars => RungWasDelivered'
  <2> SUFFICES ASSUME TypeInv, RungWasDelivered, [Next]_vars,
                      NEW c \in Customers, cs'[c].rung > 0
               PROVE  \E k \in DOMAIN chase_log' :
                         chase_log'[k].customer = c /\ chase_log'[k].rung = cs'[c].rung
    BY DEF RungWasDelivered
  <2>0. chase_log \in Seq(Chase)
    BY DEF TypeInv, TypeOK
  <2>1. CASE /\ chase_log' = chase_log
             /\ \A d \in Customers : cs'[d].rung = cs[d].rung \/ cs'[d].rung = 0
    BY <2>0, <2>1 DEF RungWasDelivered
  <2>2. ASSUME NEW i \in DOMAIN actions, record_chase(i)
        PROVE  \E k \in DOMAIN chase_log' :
                  chase_log'[k].customer = c /\ chase_log'[k].rung = cs'[c].rung
    <3> DEFINE d == actions[i].customer
               line == [customer |-> d, rung |-> actions[i].rung, action |-> i,
                        sent |-> today, balance |-> actions[i].outstanding]
    <3>1. /\ \A e \in Customers : e # d => cs'[e] = cs[e]
          /\ cs'[d].rung = Larger(cs[d].rung, actions[i].rung)
          /\ chase_log' = Append(chase_log, line)
      BY <2>2, RecordedChase DEF TypeInv
    <3>2. line \in Chase
      <4>1. actions[i] \in Action /\ i \in Nat /\ today \in Days
        BY DEF TypeInv, TypeOK
      <4> QED BY <4>1 DEF Action, Chase
    <3>3. line.customer = d /\ line.rung = actions[i].rung
      OBVIOUS
    <3> HIDE DEF line
    <3>4. /\ Len(chase_log) + 1 \in DOMAIN chase_log'
          /\ chase_log'[Len(chase_log) + 1] = line
          /\ \A k \in DOMAIN chase_log : k \in DOMAIN chase_log' /\ chase_log'[k] = chase_log[k]
      BY <2>0, <3>1, <3>2, OneRowMore
    <3>5. CASE c = d /\ cs'[c].rung = actions[i].rung
      BY <3>3, <3>4, <3>5
    <3>6. CASE cs'[c].rung = cs[c].rung
      BY <3>4, <3>6 DEF RungWasDelivered
    <3> QED BY <3>1, <3>5, <3>6 DEF Larger
  <2> QED BY <2>1, <2>2, WhoWritesRungs
<1> QED BY <1>1, <1>2, InitTypeInv, NextTypeInv, PTL DEF Spec

-----------------------------------------------------------------------------
(* The idempotency window. *)

\* Proposals are stamped with the day they were made.
CreatedInThePast == \A i \in DOMAIN actions : actions[i].created <= today

Spaced == ProposalsAreSpaced /\ CreatedInThePast

LEMMA CreatedSane == TypeOK => \A i \in DOMAIN actions : actions[i].created \in Nat
<1> SUFFICES ASSUME TypeOK, NEW i \in DOMAIN actions PROVE actions[i].created \in Nat
  OBVIOUS
<1>1. actions[i] \in Action
  BY DEF TypeOK
<1>2. actions[i].created \in Days
  BY <1>1 DEF Action
<1> QED BY <1>2, DaysAreNumbers

LEMMA AppendSpaced ==
    ASSUME TypeInv, Spaced, today' = today, NEW c \in Customers, NEW level \in Levels,
           NEW by \in {"agent", "user"}, ~RecentDuplicate(c),
           actions' = Append(actions, Proposal(c, level, by))
    PROVE  Spaced'
<1> DEFINE a == Proposal(c, level, by)
<1>1. a \in Action /\ a.created = today /\ a.customer = c
  BY ProposalSane DEF TypeInv
<1> HIDE DEF a
<1>2. actions \in Seq(Action) /\ today \in Nat /\ IdempotencyDays \in Nat
  BY DaysAreNumbers, ChasingAssumption DEF TypeInv, TypeOK, ChasingAssumption
<1>3. /\ DOMAIN actions' = 1..(Len(actions) + 1) /\ DOMAIN actions = 1..Len(actions)
      /\ Len(actions) \in Nat
      /\ \A i \in DOMAIN actions : actions'[i] = actions[i] /\ i # Len(actions) + 1
      /\ actions'[Len(actions) + 1] = a
  BY <1>1, <1>2, OneRowMore DEF a
<1>4. \A i \in DOMAIN actions : actions[i].created \in Nat
  BY CreatedSane DEF TypeInv
<1>5. CreatedInThePast'
  BY <1>1, <1>2, <1>3 DEF Spaced, CreatedInThePast
<1>6. ASSUME NEW i \in DOMAIN actions', NEW j \in DOMAIN actions', i < j,
             actions'[i].customer = actions'[j].customer,
             Live(actions'[i]), Live(actions'[j])
      PROVE  actions'[i].created + IdempotencyDays <= actions'[j].created
  <2>1. CASE j \in DOMAIN actions
    BY <1>3, <1>6, <2>1 DEF Spaced, ProposalsAreSpaced
  <2>2. CASE j = Len(actions) + 1
    <3>1. i \in DOMAIN actions /\ actions'[i] = actions[i] /\ actions'[j] = a
      BY <1>3, <1>6, <2>2
    <3>2. ~(actions[i].created > today - IdempotencyDays)
      BY <1>1, <1>6, <3>1 DEF RecentDuplicate
    <3> QED BY <1>1, <1>2, <1>4, <3>1, <3>2
  <2> QED BY <1>3, <2>1, <2>2
<1> QED BY <1>5, <1>6 DEF Spaced, ProposalsAreSpaced

\* Whatever asks for it, an event or a person, one at a time, and whatever is
\* decided meanwhile: two reminders for one customer that were not rejected are
\* a window apart.
THEOREM NoCustomerIsProposedTwice == Spec => []ProposalsAreSpaced
<1>1. Init => Spaced
  BY DEF Init, Spaced, ProposalsAreSpaced, CreatedInThePast
<1>2. TypeInv /\ Spaced /\ [Next]_vars => Spaced'
  <2> SUFFICES ASSUME TypeInv, Spaced, [Next]_vars PROVE Spaced'
    OBVIOUS
  <2>0. /\ actions \in Seq(Action) /\ today' >= today /\ today \in Nat /\ today' \in Nat
        /\ \A i \in DOMAIN actions : actions[i].created \in Nat
    BY TimeGoesOn, CreatedSane DEF TypeInv, TypeOK
  <2>1. CASE actions' = actions
    BY <2>0, <2>1 DEF Spaced, ProposalsAreSpaced, CreatedInThePast
  <2>2. CASE Propose
    <3>1. job.event \in events /\ job.event.customer \in Customers
      BY <2>2 DEF Propose, Event, TypeInv, TypeOK, JobSane
    <3>2. CASE actions' = actions
      BY <2>1, <3>2
    <3>3. CASE actions' # actions
      BY <2>2, <3>1, <3>3, LevelForSane, AppendSpaced DEF Propose, MayPropose
    <3> QED BY <3>2, <3>3
  <2>3. ASSUME NEW c \in Customers, NEW level \in {1, 2}, DraftChase(c, level)
        PROVE  Spaced'
    <3>1. level \in Levels
      BY DEF Levels, MaxRung
    <3> QED BY <2>3, <3>1, AppendSpaced DEF DraftChase, MayPropose
  <2>4. ASSUME NEW i \in DOMAIN actions, NEW s \in {"approved", "executed", "rejected"},
               s = "rejected" \/ Live(actions[i]), today' = today,
               actions' = [actions EXCEPT ![i].status = s]
        PROVE  Spaced'
    <3>1. /\ DOMAIN actions' = DOMAIN actions
          /\ actions'[i].status = s
          /\ \A j \in DOMAIN actions :
                /\ j # i => actions'[j] = actions[j]
                /\ actions'[j].customer = actions[j].customer
                /\ actions'[j].created = actions[j].created
      BY <2>0, <2>4, StatusOfAction
    <3>2. \A j \in DOMAIN actions : Live(actions'[j]) => Live(actions[j])
      BY <2>4, <3>1 DEF Live
    <3> QED BY <2>4, <3>1, <3>2 DEF Spaced, ProposalsAreSpaced, CreatedInThePast
  <2>5. ASSUME NEW i \in DOMAIN actions, Decide(i) PROVE Spaced'
    BY <2>4, <2>5 DEF Decide, Reject, ApproveUndelivered, ApproveDelivered, Live
  <2> QED BY <2>1, <2>2, <2>3, <2>5, WhoWritesActions
<1>3. Spaced => ProposalsAreSpaced
  BY DEF Spaced
<1> QED BY <1>1, <1>2, <1>3, InitTypeInv, NextTypeInv, PTL DEF Spec

-----------------------------------------------------------------------------
(* Promises between two transactions. *)

LEMMA WhoWritesPromises ==
    [Next]_vars => \/ promises' = promises /\ overtaken' = overtaken /\ rivals' = rivals
                   \/ \E s \in Settlers : SettleDuePromises(s)
                   \/ \E r \in Requesters : RecordPromise(r)
BY DEF Next, vars, stored, history, NextDay, DetectOverdueRung, PromiseWatcher,
       SelectDue, JudgePromise, EmitBrokenPromises, CrashPass, PromiseRequest,
       AbandonPromise, Consumer, TakeEvent, ExpireStale, VoidPause, Propose, CloseEvent,
       Crash, People, Sync, SetDispute, Pause, AskPromise, DraftChase, Decide, Reject,
       ApproveUndelivered, ApproveDelivered

\* A row a pass has in hand gets the pass's verdict, the others stay.
LEMMA SettledRow ==
    ASSUME TypeInv, NEW s \in Settlers, SettleDuePromises(s), NEW i \in DOMAIN promises'
    PROVE  /\ i \in DOMAIN promises /\ promises[i] \in Promise
           /\ promises'[i].promised_on = promises[i].promised_on
           /\ promises'[i].customer = promises[i].customer
           /\ \/ i \notin InHand(s) /\ promises'[i] = promises[i]
              \/ i \in InHand(s) /\ promises'[i].status = Verdict(s, i)
<1>1. i \in DOMAIN promises
  BY DEF SettleDuePromises
<1>2. promises[i] \in Promise
  BY <1>1 DEF TypeInv, TypeOK
<1>3. promises'[i] = IF i \in pass[s].due
                     THEN [promises[i] EXCEPT !.status = Verdict(s, i)] ELSE promises[i]
  BY <1>1 DEF SettleDuePromises
<1>4. Verdict(s, i) \in {"kept", "broken"} /\ InHand(s) = pass[s].due
  BY DEF Verdict, InHand, SettleDuePromises
<1> QED BY <1>1, <1>2, <1>3, <1>4, StatusOfPromise

\* A new promise comes after the old ones, of which those it found open and
\* that still are get cancelled.
LEMMA RecordedRow ==
    ASSUME TypeInv, NEW r \in Requesters, RecordPromise(r), NEW i \in DOMAIN promises'
    PROVE  \/ /\ i \in DOMAIN promises /\ promises'[i] = promises[i]
              /\ i \in request[r].saw => promises[i].status # "open"
           \/ /\ i \in DOMAIN promises /\ promises[i].status = "open"
              /\ i \in request[r].saw
              /\ promises'[i].status = "cancelled"
              /\ promises'[i].promised_on = promises[i].promised_on
              /\ promises'[i].customer = promises[i].customer
           \/ /\ i = Len(promises) + 1 /\ i \notin DOMAIN promises
              /\ promises'[i].customer = request[r].promise.customer
              /\ promises'[i].status = "open"
<1> DEFINE p == request[r].promise
<1>0. promises \in Seq(Promise)
  BY DEF TypeInv, TypeOK
<1>1. p \in Promise /\ p.status = "open" /\ promises' = Append(CancelOpen(r), p)
  BY DEF RecordPromise, TypeInv, TypeOK, Request, RequestSane
<1>2. /\ CancelOpen(r) \in Seq(Promise) /\ DOMAIN CancelOpen(r) = DOMAIN promises
      /\ Len(CancelOpen(r)) = Len(promises)
  BY <1>0, RowsRemain
<1>3. CASE i \in DOMAIN promises
  <2>1. promises'[i] = CancelOpen(r)[i] /\ promises[i] \in Promise
    BY <1>0, <1>1, <1>2, <1>3, OneRowMore
  <2>2. CancelOpen(r)[i] = IF i \in request[r].saw /\ promises[i].status = "open"
                           THEN [promises[i] EXCEPT !.status = "cancelled"]
                           ELSE promises[i]
    BY <1>3 DEF CancelOpen
  <2> QED BY <1>3, <2>1, <2>2, StatusOfPromise
<1>4. CASE i \notin DOMAIN promises
  <2>1. i = Len(promises) + 1 /\ promises'[i] = p
    BY <1>1, <1>2, <1>4, OneRowMore
  <2> QED BY <1>1, <1>4, <2>1
<1> QED BY <1>3, <1>4

\* Promises are never removed, moved to another day or handed to another
\* customer, and none reopens; the history of what was overtaken only grows.
LEMMA PromisesStay ==
    ASSUME TypeInv, [Next]_vars, NEW i \in DOMAIN promises
    PROVE  /\ i \in DOMAIN promises'
           /\ promises'[i].customer = promises[i].customer
           /\ promises'[i].promised_on = promises[i].promised_on
           /\ promises[i].status # "open" => promises'[i].status # "open"
           /\ overtaken \subseteq overtaken'
<1>0. promises \in Seq(Promise) /\ promises[i] \in Promise
  BY DEF TypeInv, TypeOK
<1>1. CASE promises' = promises /\ overtaken' = overtaken
  BY <1>1
<1>2. ASSUME NEW s \in Settlers, SettleDuePromises(s)
      PROVE  /\ i \in DOMAIN promises'
             /\ promises'[i].customer = promises[i].customer
             /\ promises'[i].promised_on = promises[i].promised_on
             /\ promises[i].status # "open" => promises'[i].status # "open"
             /\ overtaken \subseteq overtaken'
  <2>1. i \in DOMAIN promises' /\ overtaken \subseteq overtaken'
    BY <1>2 DEF SettleDuePromises, Overtake
  <2>2. Verdict(s, i) # "open"
    BY DEF Verdict
  <2> QED BY <1>2, <2>1, <2>2, SettledRow
<1>3. ASSUME NEW r \in Requesters, RecordPromise(r)
      PROVE  /\ i \in DOMAIN promises'
             /\ promises'[i].customer = promises[i].customer
             /\ promises'[i].promised_on = promises[i].promised_on
             /\ promises[i].status # "open" => promises'[i].status # "open"
             /\ overtaken \subseteq overtaken'
  <2>1. overtaken \subseteq overtaken'
    BY <1>3 DEF RecordPromise, Overtake
  <2>2. i \in DOMAIN promises'
    <3>1. /\ CancelOpen(r) \in Seq(Promise) /\ DOMAIN CancelOpen(r) = DOMAIN promises
          /\ request[r].promise \in Promise
      BY <1>0, <1>3, RowsRemain DEF RecordPromise, TypeInv, TypeOK, Request
    <3> QED BY <1>3, <3>1, OneRowMore DEF RecordPromise
  <2> QED BY <1>3, <2>1, <2>2, RecordedRow
<1> QED BY <1>1, <1>2, <1>3, WhoWritesPromises

\* What a pass has in hand it chose while it was open and its grace had run;
\* whatever closed since then is noted as overtaken.
HandsFair ==
    \A s \in Settlers : \A i \in InHand(s) :
        /\ promises[i].promised_on + PromiseGraceDays <= today
        /\ promises[i].status = "open" \/ i \in overtaken

\* A pass takes promises in hand by choosing them, lets go of them, or keeps
\* those it has.
LEMMA WhoTakes ==
    ASSUME TypeInv, [Next]_vars, NEW s \in Settlers
    PROVE  \/ InHand(s)' = InHand(s) /\ ~SettleDuePromises(s)
           \/ InHand(s)' = {}
           \/ SelectDue(s) /\ InHand(s)' = DuePromises
<1>0. pass \in [Settlers -> Pass]
  BY DEF TypeInv, TypeOK
<1>1. CASE pass' = pass
  <2>1. CASE SettleDuePromises(s)
    <3>1. pass'[s] = IF pass[s].broken = {} THEN Idle
                     ELSE [Idle EXCEPT !.stage = "announcing", !.broken = pass[s].broken]
      BY <1>0, <2>1 DEF SettleDuePromises
    <3> QED BY <3>1 DEF InHand, Idle
  <2> QED BY <1>1, <2>1 DEF InHand
<1>2. ASSUME NEW t \in Settlers, PromiseWatcher(t) \/ CrashPass(t), t # s
      PROVE  InHand(s)' = InHand(s)
  <2>1. pass'[s] = pass[s]
    BY <1>0, <1>2 DEF PromiseWatcher, SelectDue, JudgePromise, SettleDuePromises,
                      EmitBrokenPromises, CrashPass
  <2> QED BY <2>1 DEF InHand
<1>3. CASE SelectDue(s)
  <2>1. pass'[s] = [Idle EXCEPT !.stage = "judging", !.due = DuePromises]
    BY <1>0, <1>3 DEF SelectDue
  <2>2. pass'[s].stage = "judging" /\ pass'[s].due = DuePromises
    BY <2>1 DEF Idle
  <2> QED BY <1>3, <2>2 DEF InHand
<1>4. ASSUME NEW i \in InHand(s), JudgePromise(s, i)
      PROVE  InHand(s)' = InHand(s) /\ ~SettleDuePromises(s)
  <2>1. /\ pass'[s] = [pass[s] EXCEPT !.judged = @ \cup {i},
                          !.broken = IF Kept(promises[i]) THEN @ ELSE @ \cup {i}]
        /\ i \in InHand(s) \ pass[s].judged
    BY <1>0, <1>4 DEF JudgePromise
  <2>2. pass[s] \in Pass
    BY <1>0
  <2>3. pass'[s].stage = pass[s].stage /\ pass'[s].due = pass[s].due
    BY <2>1, <2>2 DEF Pass
  <2>4. ~SettleDuePromises(s)
    BY <2>1 DEF SettleDuePromises, InHand
  <2> QED BY <2>3, <2>4 DEF InHand
<1>5. ASSUME SettleDuePromises(s) \/ EmitBrokenPromises(s) \/ CrashPass(s)
      PROVE  InHand(s)' = {}
  <2>1. \/ pass'[s] = Idle
        \/ pass'[s] = [Idle EXCEPT !.stage = "announcing", !.broken = pass[s].broken]
    <3>1. CASE SettleDuePromises(s)
      <4>1. pass' = [pass EXCEPT ![s] =
                        IF pass[s].broken = {} THEN Idle
                        ELSE [Idle EXCEPT !.stage = "announcing", !.broken = pass[s].broken]]
        BY <3>1 DEF SettleDuePromises
      <4> HIDE DEF Idle
      <4> QED BY <1>0, <4>1
    <3>2. CASE EmitBrokenPromises(s) \/ CrashPass(s)
      <4>1. pass' = [pass EXCEPT ![s] = Idle]
        BY <3>2 DEF EmitBrokenPromises, CrashPass
      <4> QED BY <1>0, <4>1
    <3> QED BY <1>5, <3>1, <3>2
  <2>2. pass'[s] = Idle => pass'[s].stage = "idle"
    BY DEF Idle
  <2>3. /\ [Idle EXCEPT !.stage = "announcing", !.broken = pass[s].broken].stage = "announcing"
    BY DEF Idle
  <2> QED BY <2>1, <2>2, <2>3 DEF InHand
<1>6. pass' = pass \/ \E t \in Settlers : PromiseWatcher(t) \/ CrashPass(t)
  BY DEF Next, vars, stored, inhand, NextDay, DetectOverdueRung, PromiseRequest,
         RecordPromise, AbandonPromise, Consumer, TakeEvent, ExpireStale, VoidPause,
         Propose, CloseEvent, Crash, People, Sync, SetDispute, Pause, AskPromise,
         DraftChase, Decide, Reject, ApproveUndelivered, ApproveDelivered
<1>7. SettleDuePromises(s) => InHand(s)' = {}
  BY <1>5
<1> QED BY <1>1, <1>2, <1>3, <1>4, <1>5, <1>6, <1>7 DEF PromiseWatcher

LEMMA HandsStayFair == TypeInv /\ HandsFair /\ [Next]_vars => HandsFair'
<1> SUFFICES ASSUME TypeInv, HandsFair, [Next]_vars,
                    NEW s \in Settlers, NEW i \in InHand(s)'
             PROVE  /\ promises'[i].promised_on + PromiseGraceDays <= today'
                    /\ promises'[i].status = "open" \/ i \in overtaken'
  BY DEF HandsFair
<1>0. /\ today \in Nat /\ today' \in Nat /\ today' >= today
      /\ PromiseGraceDays \in Nat
  BY TimeGoesOn, LadderAssumption DEF LadderAssumption
<1>1. CASE SelectDue(s) /\ InHand(s)' = DuePromises
  <2>1. promises' = promises /\ today' = today /\ i \in DuePromises
    BY <1>1 DEF SelectDue, stored
  <2> QED BY <2>1 DEF DuePromises
<1>2. CASE InHand(s)' = InHand(s) /\ ~SettleDuePromises(s)
  <2>1. /\ i \in InHand(s) /\ i \in DOMAIN promises
        /\ promises[i].promised_on + PromiseGraceDays <= today
        /\ promises[i].status = "open" \/ i \in overtaken
    BY <1>2 DEF HandsFair, InHand, TypeInv, PassSane
  <2>2. promises[i].promised_on \in Nat
    <3>1. promises[i] \in Promise
      BY <2>1 DEF TypeInv, TypeOK
    <3> QED BY <3>1, DatesAreNumbers DEF Promise
  <2>3. /\ promises'[i].promised_on = promises[i].promised_on
        /\ overtaken \subseteq overtaken'
        /\ i \in DOMAIN promises'
    BY <2>1, PromisesStay
  <2>4. ASSUME promises[i].status = "open" PROVE promises'[i].status = "open" \/ i \in overtaken'
    <3>1. CASE promises' = promises
      BY <2>4, <3>1
    <3>2. ASSUME NEW t \in Settlers, SettleDuePromises(t)
          PROVE  promises'[i].status = "open" \/ i \in overtaken'
      <4>1. t # s
        BY <1>2, <3>2
      <4>2. CASE i \notin InHand(t)
        BY <2>3, <2>4, <3>2, <4>2, SettledRow
      <4>3. CASE i \in InHand(t)
        <5>1. i \in pass[t].due
          BY <4>3 DEF InHand
        <5> QED BY <2>1, <3>2, <4>1, <5>1 DEF SettleDuePromises, Overtake
      <4> QED BY <4>2, <4>3
    <3>3. ASSUME NEW r \in Requesters, RecordPromise(r)
          PROVE  promises'[i].status = "open" \/ i \in overtaken'
      <4>1. CASE i \in request[r].saw
        BY <2>1, <2>4, <3>3, <4>1 DEF RecordPromise, Overtake
      <4>2. CASE i \notin request[r].saw
        BY <2>1, <2>3, <2>4, <3>3, <4>2, RecordedRow
      <4> QED BY <4>1, <4>2
    <3> QED BY <3>1, <3>2, <3>3, WhoWritesPromises
  <2> QED BY <1>0, <2>1, <2>2, <2>3, <2>4
<1> QED BY <1>1, <1>2, WhoTakes

LEMMA HandsAreFair == Spec => [](TypeInv /\ HandsFair)
<1>1. Init => HandsFair
  BY DEF Init, HandsFair, InHand, Idle
<1> QED BY <1>1, HandsStayFair, InitTypeInv, NextTypeInv, PTL DEF Spec

\* One step: what closed while no pass had it in hand stays as it is.
LEMMA ClosedStays ==
    ASSUME TypeInv, HandsFair, [Next]_vars, NEW i \in DOMAIN promises,
           promises[i].status # "open", i \notin overtaken
    PROVE  promises'[i] = promises[i]
<1>0. i \in DOMAIN promises'
  BY PromisesStay
<1>1. CASE promises' = promises
  BY <1>1
<1>2. ASSUME NEW s \in Settlers, SettleDuePromises(s) PROVE promises'[i] = promises[i]
  <2>1. i \notin InHand(s)
    BY DEF HandsFair
  <2> QED BY <1>0, <1>2, <2>1, SettledRow
<1>3. ASSUME NEW r \in Requesters, RecordPromise(r) PROVE promises'[i] = promises[i]
  <2>1. promises \in Seq(Promise)
    BY DEF TypeInv, TypeOK
  <2> QED BY <1>0, <1>3, <2>1, RecordedRow
<1> QED BY <1>1, <1>2, <1>3, WhoWritesPromises

\* Kept, broken and cancelled are final, for any number of passes and of
\* requests side by side: a closed promise never reopens, and its verdict is
\* written over only by a pass that chose it before it closed.
THEOREM VerdictsStand == Spec => VerdictsAreFinal
<1>1. TypeInv /\ HandsFair /\ [Next]_vars =>
          [\A i \in DOMAIN promises : promises[i].status # "open" =>
              /\ promises'[i].status # "open"
              /\ i \notin overtaken => promises'[i] = promises[i]]_vars
  BY PromisesStay, ClosedStays
<1> QED BY <1>1, HandsAreFair, PTL DEF Spec, VerdictsAreFinal

-----------------------------------------------------------------------------
(* One open promise. *)

\* A request that has no rival found every promise of its customer that is open.
Unrivalled ==
    \A r \in Requesters : request[r] # NULL =>
        LET c == request[r].promise.customer IN
        c \notin rivals => OpenPromises(c) \subseteq request[r].saw

\* No open promise comes to be but by RecordPromise, for its customer.
LEMMA OpenOnes ==
    ASSUME TypeInv, [Next]_vars, NEW c, NEW i \in OpenPromises(c)'
    PROVE  \/ i \in OpenPromises(c)
           \/ \E r \in Requesters : /\ RecordPromise(r)
                                    /\ request[r].promise.customer = c
<1>1. i \in DOMAIN promises' /\ promises'[i].customer = c /\ promises'[i].status = "open"
  BY DEF OpenPromises
<1>2. CASE promises' = promises
  BY <1>1, <1>2 DEF OpenPromises
<1>3. ASSUME NEW s \in Settlers, SettleDuePromises(s) PROVE i \in OpenPromises(c)
  <2>1. Verdict(s, i) # "open"
    BY DEF Verdict
  <2> QED BY <1>1, <1>3, <2>1, SettledRow DEF OpenPromises
<1>4. ASSUME NEW r \in Requesters, RecordPromise(r)
      PROVE  i \in OpenPromises(c) \/ request[r].promise.customer = c
  BY <1>1, <1>4, RecordedRow DEF OpenPromises
<1> QED BY <1>2, <1>3, <1>4, WhoWritesPromises

LEMMA RivalsStay == [Next]_vars => rivals \subseteq rivals'
<1> SUFFICES ASSUME [Next]_vars PROVE rivals \subseteq rivals'
  OBVIOUS
<1>1. \A s \in Settlers : SettleDuePromises(s) => rivals' = rivals
  BY DEF SettleDuePromises
<1>2. \A r \in Requesters : RecordPromise(r) => rivals \subseteq rivals'
  BY DEF RecordPromise
<1> QED BY <1>1, <1>2, WhoWritesPromises

LEMMA WhoRequests ==
    ASSUME TypeInv, [Next]_vars, NEW q \in Requesters
    PROVE  \/ request'[q] = request[q]
           \/ request'[q] = NULL
           \/ \E c \in Customers, on \in Dates, amount \in Amounts : AskPromise(q, c, on, amount)
<1>0. request \in [Requesters -> Request \cup {NULL}]
  BY DEF TypeInv, TypeOK
<1>1. CASE request' = request
  BY <1>1
<1>2. ASSUME NEW r \in Requesters, PromiseRequest(r)
      PROVE  request'[q] = request[q] \/ request'[q] = NULL
  BY <1>0, <1>2 DEF PromiseRequest, RecordPromise, AbandonPromise
<1>3. ASSUME NEW r \in Requesters, NEW c \in Customers, NEW on \in Dates,
             NEW amount \in Amounts, AskPromise(r, c, on, amount)
      PROVE  request'[q] = request[q] \/ AskPromise(q, c, on, amount)
  BY <1>0, <1>3 DEF AskPromise
<1>4. \/ request' = request
      \/ \E r \in Requesters : PromiseRequest(r)
      \/ \E r \in Requesters, c \in Customers, on \in Dates, amount \in Amounts :
            AskPromise(r, c, on, amount)
  BY DEF Next, vars, stored, inhand, NextDay, DetectOverdueRung, PromiseWatcher, SelectDue,
         JudgePromise, SettleDuePromises, EmitBrokenPromises, CrashPass, Consumer,
         TakeEvent, ExpireStale, VoidPause, Propose, CloseEvent, Crash, People, Sync,
         SetDispute, Pause, DraftChase, Decide, Reject, ApproveUndelivered,
         ApproveDelivered
<1> QED BY <1>1, <1>2, <1>3, <1>4

LEMMA UnrivalledStays == TypeInv /\ Unrivalled /\ [Next]_vars => Unrivalled'
<1> SUFFICES ASSUME TypeInv, Unrivalled, [Next]_vars,
                    NEW q \in Requesters, request'[q] # NULL,
                    NEW c, c = request'[q].promise.customer, c \notin rivals',
                    NEW i \in OpenPromises(c)'
             PROVE  i \in request'[q].saw
  BY DEF Unrivalled
<1>1. ASSUME NEW d \in Customers, NEW on \in Dates, NEW amount \in Amounts,
             AskPromise(q, d, on, amount)
      PROVE  i \in request'[q].saw
  <2>1. /\ request'[q].promise.customer = d /\ request'[q].saw = OpenPromises(d)
        /\ promises' = promises
    BY <1>1 DEF AskPromise, stored, TypeInv, TypeOK
  <2>2. i \in OpenPromises(c)
    BY <2>1 DEF OpenPromises
  <2> QED BY <2>1, <2>2
<1>2. CASE request'[q] = request[q]
  <2>1. c \notin rivals /\ OpenPromises(c) \subseteq request[q].saw
    BY <1>2, RivalsStay DEF Unrivalled
  <2>2. ASSUME NEW r \in Requesters, RecordPromise(r), request[r].promise.customer = c
        PROVE  FALSE
    <3>1. r # q
      BY <1>2, <2>2 DEF RecordPromise, TypeInv, TypeOK
    <3>2. c \in rivals'
      BY <1>2, <2>2, <3>1 DEF RecordPromise
    <3> QED BY <1>2, <3>2
  <2> QED BY <1>2, <2>1, <2>2, OpenOnes
<1> QED BY <1>1, <1>2, WhoRequests

LEMMA OneOpenHolds ==
    TypeInv /\ HandsFair /\ Unrivalled /\ OneOpenPromise /\ [Next]_vars => OneOpenPromise'
<1> SUFFICES ASSUME TypeInv, HandsFair, Unrivalled, OneOpenPromise, [Next]_vars
             PROVE  OneOpenPromise'
  OBVIOUS
<1>1. ASSUME NEW d \in Customers, d \notin rivals',
             NEW i \in OpenPromises(d)', NEW j \in OpenPromises(d)'
      PROVE  i = j
  <2>0. d \notin rivals
    BY <1>1, RivalsStay
  <2>1. CASE i \in OpenPromises(d) /\ j \in OpenPromises(d)
    BY <2>0, <2>1 DEF OneOpenPromise
  <2>2. ASSUME NEW r \in Requesters, RecordPromise(r), request[r].promise.customer = d
        PROVE  i = j
    <3>1. OpenPromises(d) \subseteq request[r].saw
      BY <2>0, <2>2 DEF Unrivalled, RecordPromise
    <3>2. ASSUME NEW k \in OpenPromises(d)' PROVE k = Len(promises) + 1
      <4>1. /\ k \in DOMAIN promises' /\ promises'[k].status = "open"
            /\ promises'[k].customer = d
        BY DEF OpenPromises
      <4>2. ~(k \in DOMAIN promises /\ promises'[k] = promises[k])
             \/ k \in request[r].saw
        BY <3>1, <4>1 DEF OpenPromises
      <4> QED BY <2>2, <4>1, <4>2, RecordedRow
    <3> QED BY <3>2
  <2> QED BY <2>1, <2>2, OpenOnes
<1>2. ASSUME NEW i \in DOMAIN promises', promises'[i].status \in {"kept", "broken"}
      PROVE  promises'[i].promised_on + PromiseGraceDays <= today'
  <2>0. today \in Nat /\ today' \in Nat /\ today' >= today
    BY TimeGoesOn
  <2>1. ASSUME i \in DOMAIN promises, promises'[i] = promises[i]
        PROVE  promises'[i].promised_on + PromiseGraceDays <= today
    BY <1>2, <2>1 DEF OneOpenPromise
  <2>2. promises'[i].promised_on + PromiseGraceDays <= today
    <3>1. CASE promises' = promises
      BY <1>2, <2>1, <3>1
    <3>2. ASSUME NEW s \in Settlers, SettleDuePromises(s)
          PROVE  promises'[i].promised_on + PromiseGraceDays <= today
      <4>1. CASE i \in InHand(s)
        BY <1>2, <3>2, <4>1, SettledRow DEF HandsFair
      <4>2. CASE i \notin InHand(s)
        BY <1>2, <2>1, <3>2, <4>2, SettledRow
      <4> QED BY <4>1, <4>2
    <3>3. ASSUME NEW r \in Requesters, RecordPromise(r)
          PROVE  i \in DOMAIN promises /\ promises'[i] = promises[i]
      BY <1>2, <3>3, RecordedRow
    <3> QED BY <2>1, <3>1, <3>2, <3>3, WhoWritesPromises
  <2>3. promises'[i].promised_on \in Nat
    <3>1. promises' \in Seq(Promise)
      BY NextTypeInv DEF TypeInv, TypeOK
    <3>2. promises'[i] \in Promise
      BY <1>2, <3>1
    <3>3. promises'[i].promised_on \in Dates
      BY <3>2 DEF Promise
    <3> QED BY <3>3, DatesAreNumbers
  <2>4. PromiseGraceDays \in Nat
    BY LadderAssumption DEF LadderAssumption
  <2> QED BY <2>0, <2>2, <2>3, <2>4
<1> QED BY <1>1, <1>2 DEF OneOpenPromise

\* A customer whose promises were not being recorded side by side is held to
\* one date, and no promise is judged before the date and its grace.
THEOREM OneIsOpen == Spec => []OneOpenPromise
<1>1. Init => OneOpenPromise /\ Unrivalled
  BY DEF Init, OneOpenPromise, OpenPromises, Unrivalled
<1> QED BY <1>1, OneOpenHolds, UnrivalledStays, HandsAreFair, NextTypeInv, PTL DEF Spec

-----------------------------------------------------------------------------
(* Where an event comes from. *)

\* An event of the table states a fact that was in it before, a rung a
\* customer may be chased at, or a promise the pass is about to announce.
LEMMA EventsComeFrom ==
    ASSUME TypeInv, [Next]_vars, NEW e \in events'
    PROVE  \/ \E g \in events : SameFact(e, g)
           \/ /\ DetectOverdueRung /\ e.event_type = "invoice.overdue_rung"
              /\ e.customer \in Customers /\ MayChase(e.customer)
              /\ e.ref = Decision(e.customer).rung
           \/ \E s \in Settlers :
                 /\ EmitBrokenPromises(s) /\ e.event_type = "promise.broken"
                 /\ e.ref \in pass[s].broken /\ e.customer = promises[e.ref].customer
<1>0. events \subseteq Event /\ \A g \in events : SameFact(g, g)
  BY DEF TypeInv, TypeOK, SameFact
<1>1. CASE events' = events
  BY <1>0, <1>1
<1>2. CASE DetectOverdueRung
  <2>1. PICK S \in SUBSET Fresh :
           events' = events \cup
              {NewEvent("invoice.overdue_rung", c, Decision(c).rung) : c \in S}
    BY <1>2, WhatIsRaised
  <2>2. ASSUME NEW c \in S, e = NewEvent("invoice.overdue_rung", c, Decision(c).rung)
        PROVE  /\ e.event_type = "invoice.overdue_rung"
               /\ e.customer \in Customers /\ MayChase(e.customer)
               /\ e.ref = Decision(e.customer).rung
    BY <2>1, <2>2 DEF NewEvent, Fresh
  <2> QED BY <1>0, <1>2, <2>1, <2>2
<1>3. ASSUME NEW s \in Settlers, EmitBrokenPromises(s)
      PROVE  \/ \E g \in events : SameFact(e, g)
             \/ /\ e.event_type = "promise.broken" /\ e.ref \in pass[s].broken
                /\ e.customer = promises[e.ref].customer
  <2>1. ASSUME NEW i \in pass[s].broken,
               e = NewEvent("promise.broken", promises[i].customer, i)
        PROVE  /\ e.event_type = "promise.broken" /\ e.ref \in pass[s].broken
               /\ e.customer = promises[e.ref].customer
    BY <2>1 DEF NewEvent
  <2>2. \/ e \in events
        \/ \E i \in pass[s].broken :
              e = NewEvent("promise.broken", promises[i].customer, i)
    BY <1>3 DEF EmitBrokenPromises
  <2> QED BY <1>0, <2>1, <2>2
<1>4. CASE TakeEvent \/ ExpireStale
  <2>1. PICK g \in events : e = g \/ e = [g EXCEPT !.status = "expired"]
    BY <1>4 DEF TakeEvent, ExpireStale
  <2> QED BY <1>0, <2>1, EventExpires
<1>5. CASE CloseEvent
  <2>1. job.event \in events /\ job.event \in Event
    BY <1>0, <1>5 DEF CloseEvent, TypeInv, JobSane
  <2>2. e \in events \/ e = [job.event EXCEPT !.status = "processed"]
    BY <1>5 DEF CloseEvent
  <2>3. SameFact([job.event EXCEPT !.status = "processed"], job.event)
    BY <2>1, StatusOfEvent DEF SameFact
  <2> QED BY <1>0, <2>1, <2>2, <2>3
<1> QED BY <1>1, <1>2, <1>3, <1>4, <1>5, WhoWritesEvents

-----------------------------------------------------------------------------
(* Broken means broken. *)

\* What may be announced and announcing: closed as broken, or closed by another
\* while a pass had it in hand.
StandsBroken(i) == i \in overtaken \/ promises[i].status = "broken"

\* It stays so.
LEMMA BrokenStands ==
    ASSUME TypeInv, HandsFair, [Next]_vars, NEW i \in DOMAIN promises, StandsBroken(i)
    PROVE  /\ i \in DOMAIN promises' /\ StandsBroken(i)'
           /\ promises'[i].customer = promises[i].customer
<1>1. /\ i \in DOMAIN promises' /\ promises'[i].customer = promises[i].customer
      /\ overtaken \subseteq overtaken'
  BY PromisesStay
<1>2. CASE i \in overtaken
  BY <1>1, <1>2 DEF StandsBroken
<1>3. CASE i \notin overtaken
  <2>1. promises[i].status = "broken"
    BY <1>3 DEF StandsBroken
  <2>2. promises'[i] = promises[i]
    BY <1>3, <2>1, ClosedStays
  <2> QED BY <1>1, <2>1, <2>2 DEF StandsBroken
<1> QED BY <1>2, <1>3

\* A pass announces what it already was to announce, or what it has just
\* written broken.
LEMMA WhoAnnounces ==
    ASSUME TypeInv, [Next]_vars, NEW s \in Settlers, pass'[s].stage = "announcing"
    PROVE  \/ pass'[s] = pass[s]
           \/ SettleDuePromises(s) /\ pass'[s].broken = pass[s].broken
<1>0. pass \in [Settlers -> Pass]
  BY DEF TypeInv, TypeOK
<1>1. CASE pass' = pass
  BY <1>1
<1>2. ASSUME NEW t \in Settlers, PromiseWatcher(t) \/ CrashPass(t), t # s
      PROVE  pass'[s] = pass[s]
  BY <1>0, <1>2 DEF PromiseWatcher, SelectDue, JudgePromise, SettleDuePromises,
                    EmitBrokenPromises, CrashPass
<1>3. ASSUME SelectDue(s) PROVE FALSE
  <2>1. pass'[s] = [Idle EXCEPT !.stage = "judging", !.due = DuePromises]
    BY <1>0, <1>3 DEF SelectDue
  <2>2. pass'[s].stage = "judging"
    BY <2>1 DEF Idle
  <2> QED BY <2>2
<1>4. ASSUME NEW i \in InHand(s), JudgePromise(s, i) PROVE FALSE
  <2>1. /\ pass'[s] = [pass[s] EXCEPT !.judged = @ \cup {i},
                          !.broken = IF Kept(promises[i]) THEN @ ELSE @ \cup {i}]
        /\ pass[s] \in Pass /\ pass[s].stage = "judging"
    BY <1>0, <1>4 DEF JudgePromise, InHand
  <2>2. pass'[s].stage = "judging"
    BY <2>1 DEF Pass
  <2> QED BY <2>2
<1>5. ASSUME SettleDuePromises(s) PROVE pass'[s].broken = pass[s].broken
  <2>1. pass' = [pass EXCEPT ![s] =
                    IF pass[s].broken = {} THEN Idle
                    ELSE [Idle EXCEPT !.stage = "announcing", !.broken = pass[s].broken]]
    BY <1>5 DEF SettleDuePromises
  <2>2. pass'[s] = IF pass[s].broken = {} THEN Idle
                   ELSE [Idle EXCEPT !.stage = "announcing", !.broken = pass[s].broken]
    <3> HIDE DEF Idle
    <3> QED BY <1>0, <2>1
  <2>3. Idle.stage # "announcing"
    BY DEF Idle
  <2>4. [Idle EXCEPT !.stage = "announcing", !.broken = pass[s].broken].broken
           = pass[s].broken
    BY DEF Idle
  <2> QED BY <2>2, <2>3, <2>4
<1>6. ASSUME EmitBrokenPromises(s) \/ CrashPass(s) PROVE FALSE
  <2>1. pass' = [pass EXCEPT ![s] = Idle]
    BY <1>6 DEF EmitBrokenPromises, CrashPass
  <2>2. pass'[s].stage = "idle"
    BY <1>0, <2>1 DEF Idle
  <2> QED BY <2>2
<1>7. pass' = pass \/ \E t \in Settlers : PromiseWatcher(t) \/ CrashPass(t)
  BY DEF Next, vars, stored, inhand, NextDay, DetectOverdueRung, PromiseRequest,
         RecordPromise, AbandonPromise, Consumer, TakeEvent, ExpireStale, VoidPause,
         Propose, CloseEvent, Crash, People, Sync, SetDispute, Pause, AskPromise,
         DraftChase, Decide, Reject, ApproveUndelivered, ApproveDelivered
<1> QED BY <1>1, <1>2, <1>3, <1>4, <1>5, <1>6, <1>7 DEF PromiseWatcher

LEMMA BrokenHolds ==
    TypeInv /\ HandsFair /\ BrokenMeansBroken /\ [Next]_vars => BrokenMeansBroken'
<1> SUFFICES ASSUME TypeInv, HandsFair, BrokenMeansBroken, [Next]_vars
             PROVE  BrokenMeansBroken'
  OBVIOUS
<1>0. promises \in Seq(Promise) /\ events \subseteq Event
  BY DEF TypeInv, TypeOK
<1>1. ASSUME NEW s \in Settlers, pass[s].stage = "announcing", NEW i \in pass[s].broken
      PROVE  i \in DOMAIN promises /\ StandsBroken(i)
  BY <1>1 DEF BrokenMeansBroken, StandsBroken
<1>2. ASSUME NEW s \in Settlers, pass'[s].stage = "announcing", NEW i \in pass'[s].broken
      PROVE  i \in DOMAIN promises' /\ StandsBroken(i)'
  <2>1. CASE pass'[s] = pass[s]
    BY <1>1, <1>2, <2>1, BrokenStands
  <2>2. CASE SettleDuePromises(s) /\ pass'[s].broken = pass[s].broken
    <3>1. i \in pass[s].broken /\ pass[s].stage = "judging"
      BY <1>2, <2>2 DEF SettleDuePromises
    <3>2. i \in DOMAIN promises /\ i \in InHand(s)
      BY <3>1 DEF TypeInv, PassSane, InHand
    <3>3. i \in DOMAIN promises'
      BY <3>2, PromisesStay
    <3>4. promises'[i].status = Verdict(s, i) /\ Verdict(s, i) = "broken"
      BY <2>2, <3>1, <3>2, <3>3, SettledRow DEF Verdict
    <3> QED BY <3>3, <3>4 DEF StandsBroken
  <2> QED BY <1>2, <2>1, <2>2, WhoAnnounces
<1>3. ASSUME NEW e \in events', e.event_type = "promise.broken"
      PROVE  /\ e.ref \in DOMAIN promises' /\ StandsBroken(e.ref)'
             /\ promises'[e.ref].customer = e.customer
  <2>1. ASSUME NEW g \in events, SameFact(e, g)
        PROVE  /\ e.ref \in DOMAIN promises /\ StandsBroken(e.ref)
               /\ promises[e.ref].customer = e.customer
    BY <1>3, <2>1 DEF SameFact, BrokenMeansBroken, StandsBroken
  <2>2. ASSUME NEW s \in Settlers, EmitBrokenPromises(s), e.ref \in pass[s].broken,
               e.customer = promises[e.ref].customer
        PROVE  /\ e.ref \in DOMAIN promises /\ StandsBroken(e.ref)
               /\ promises[e.ref].customer = e.customer
    BY <1>1, <2>2 DEF EmitBrokenPromises
  <2>3. /\ e.ref \in DOMAIN promises /\ StandsBroken(e.ref)
        /\ promises[e.ref].customer = e.customer
    BY <1>3, <2>1, <2>2, EventsComeFrom
  <2> QED BY <2>3, BrokenStands
<1> QED BY <1>2, <1>3 DEF BrokenMeansBroken, StandsBroken

\* No customer is told of a broken promise that was kept, superseded or is
\* still open, however passes, crashes and new promises fall, unless the
\* promise was closed after a pass had chosen it.
THEOREM BrokenIsBroken == Spec => []BrokenMeansBroken
<1>1. Init => BrokenMeansBroken
  BY DEF Init, BrokenMeansBroken, Idle
<1> QED BY <1>1, BrokenHolds, HandsAreFair, NextTypeInv, PTL DEF Spec

-----------------------------------------------------------------------------
(* The ladder. *)

LEMMA WhoLowersRungs ==
    ASSUME TypeInv, [Next]_vars
    PROVE  \/ DetectOverdueRung
           \/ \E i \in DOMAIN actions : record_chase(i)
           \/ \A c \in Customers : cs'[c].rung = cs[c].rung
<1>0. cs \in [Customers -> ChaseState]
  BY DEF TypeInv, TypeOK
<1>1. CASE cs' = cs
  BY <1>1
<1>2. ASSUME NEW c \in Customers, NEW st \in ChaseState, st.rung = cs[c].rung,
             cs' = [cs EXCEPT ![c] = st]
      PROVE  \A d \in Customers : cs'[d].rung = cs[d].rung
  BY <1>0, <1>2
<1>3. ASSUME NEW c \in Customers, NEW u \in Nat \cup {NULL},
             cs' = [cs EXCEPT ![c].paused_until = u]
      PROVE  \A d \in Customers : cs'[d].rung = cs[d].rung
  <2>1. cs[c] \in ChaseState
    BY <1>0
  <2>2. [cs[c] EXCEPT !.paused_until = u].rung = cs[c].rung
    BY <2>1 DEF ChaseState
  <2> QED BY <1>2, <1>3, <2>1, <2>2, FieldsOfChaseState
<1>4. ASSUME NEW c \in Customers, NEW d \in BOOLEAN, cs' = [cs EXCEPT ![c].disputed = d]
      PROVE  \A e \in Customers : cs'[e].rung = cs[e].rung
  <2>1. cs[c] \in ChaseState
    BY <1>0
  <2>2. [cs[c] EXCEPT !.disputed = d].rung = cs[c].rung
    BY <2>1 DEF ChaseState
  <2> QED BY <1>2, <1>4, <2>1, <2>2, FieldsOfChaseState
<1>5. ASSUME NEW c \in Customers, People(c)
      PROVE  \/ cs' = cs
             \/ \E d \in BOOLEAN : cs' = [cs EXCEPT ![c].disputed = d]
             \/ \E u \in Dates : cs' = [cs EXCEPT ![c].paused_until = u]
  BY <1>5 DEF People, Sync, SetDispute, Pause, AskPromise, DraftChase, stored
<1>6. CASE VoidPause
  <2>1. job.event.customer \in Customers
    BY <1>6 DEF VoidPause, TypeInv, TypeOK, JobSane, Event
  <2> QED BY <1>3, <1>6, <2>1 DEF VoidPause
<1>7. ASSUME NEW r \in Requesters, RecordPromise(r)
      PROVE  \A d \in Customers : cs'[d].rung = cs[d].rung
  <2>1. request[r].promise \in Promise
    BY <1>7 DEF RecordPromise, TypeInv, TypeOK, Request
  <2>2. /\ request[r].promise.customer \in Customers
        /\ request[r].promise.promised_on + PromiseGraceDays \in Nat
    BY <2>1, DatesAreNumbers DEF Promise
  <2> QED BY <1>3, <1>7, <2>2 DEF RecordPromise
<1>8. ASSUME NEW i \in DOMAIN actions, Decide(i) PROVE record_chase(i) \/ cs' = cs
  BY <1>8 DEF Decide, Reject, ApproveUndelivered, ApproveDelivered
<1>9. \/ cs' = cs \/ DetectOverdueRung \/ VoidPause
      \/ \E c \in Customers : People(c)
      \/ \E r \in Requesters : RecordPromise(r)
      \/ \E i \in DOMAIN actions : Decide(i)
  BY DEF Next, vars, stored, NextDay, PromiseWatcher, SelectDue, JudgePromise,
         SettleDuePromises, EmitBrokenPromises, CrashPass, PromiseRequest,
         AbandonPromise, Consumer, TakeEvent, ExpireStale, Propose, CloseEvent, Crash
<1> QED BY <1>1, <1>3, <1>4, <1>5, <1>6, <1>7, <1>8, <1>9, DatesAreNumbers

\* Only the reset of the ladder watcher takes a rung away, and it looks at the
\* balance in the same transaction; a delivery keeps the greater of two rungs.
THEOREM OnlyTheClearedFall == Spec => LadderFallsOnlyWhenCleared
<1>1. TypeInv /\ [Next]_vars =>
          [\A c \in Customers : cs'[c].rung < cs[c].rung => ledger[c].owed = 0]_vars
  <2> SUFFICES ASSUME TypeInv, [Next]_vars, NEW c \in Customers,
                      cs'[c].rung < cs[c].rung
               PROVE  ledger[c].owed = 0
    OBVIOUS
  <2>0. cs \in [Customers -> ChaseState] /\ cs[c].rung \in Nat
    <3>1. cs \in [Customers -> ChaseState] /\ cs[c] \in ChaseState
      BY DEF TypeInv, TypeOK
    <3> QED BY <3>1 DEF ChaseState, Rungs, MaxRung
  <2>1. ASSUME NEW i \in DOMAIN actions, record_chase(i) PROVE FALSE
    <3>1. /\ actions[i].customer \in Customers
          /\ \A d \in Customers : d # actions[i].customer => cs'[d] = cs[d]
          /\ cs'[actions[i].customer].rung =
                Larger(cs[actions[i].customer].rung, actions[i].rung)
      BY <2>1, RecordedChase DEF TypeInv
    <3>2. actions[i].rung \in Nat
      <4>1. actions[i] \in Action
        BY <2>1 DEF TypeInv, TypeOK
      <4> QED BY <4>1 DEF Action, Levels, MaxRung
    <3> QED BY <2>0, <3>1, <3>2 DEF Larger
  <2>2. CASE DetectOverdueRung
    <3>1. cs'[c] = IF Settled(c)
                   THEN [cs[c] EXCEPT !.rung = 0, !.chases_sent = 0, !.paused_until = NULL]
                   ELSE cs[c]
      BY <2>2 DEF DetectOverdueRung, reset_if_settled
    <3> QED BY <2>0, <3>1 DEF Settled
  <2> QED BY <2>0, <2>1, <2>2, WhoLowersRungs
<1> QED BY <1>1, InitTypeInv, NextTypeInv, PTL DEF Spec, LadderFallsOnlyWhenCleared

-----------------------------------------------------------------------------
(* Nobody is rushed. *)

\* The customer has had the reminder below.
Reached(c, r) ==
    \/ r = 1
    \/ \E k \in DOMAIN chase_log :
          chase_log[k].customer = c /\ chase_log[k].rung + 1 >= r

LetDown(c) == \E e \in events : e.event_type = "promise.broken" /\ e.customer = c

\* An event keeps the rung it was raised at while the customer's own may fall;
\* the log of what was delivered only grows.
RaisedInReach ==
    \A e \in events : e.event_type = "invoice.overdue_rung" => Reached(e.customer, e.ref)

Patient == RungWasDelivered /\ RaisedInReach /\ AgentSkipsNoRung

LEMMA ReachStays ==
    ASSUME TypeInv, [Next]_vars, NEW c, NEW r, Reached(c, r)
    PROVE  Reached(c, r)'
<1>1. \A k \in DOMAIN chase_log : k \in DOMAIN chase_log' /\ chase_log'[k] = chase_log[k]
  <2>1. CASE chase_log' = chase_log
    BY <2>1
  <2>2. ASSUME NEW i \in DOMAIN actions, record_chase(i)
        PROVE  \A k \in DOMAIN chase_log :
                  k \in DOMAIN chase_log' /\ chase_log'[k] = chase_log[k]
    <3> DEFINE line == [customer |-> actions[i].customer, rung |-> actions[i].rung,
                        action |-> i, sent |-> today, balance |-> actions[i].outstanding]
    <3>1. chase_log \in Seq(Chase) /\ actions[i] \in Action /\ i \in Nat /\ today \in Days
      BY <2>2 DEF TypeInv, TypeOK
    <3>2. line \in Chase
      BY <3>1 DEF Action, Chase
    <3>3. chase_log' = Append(chase_log, line)
      BY <2>2 DEF record_chase
    <3> HIDE DEF line
    <3> QED BY <3>1, <3>2, <3>3, OneRowMore
  <2> QED BY <2>1, <2>2, WhoWritesRungs
<1> QED BY <1>1 DEF Reached

\* Events are closed, never removed.
LEMMA LetDownStays ==
    ASSUME TypeInv, [Next]_vars, NEW c, LetDown(c)
    PROVE  LetDown(c)'
<1>0. events \subseteq Event
  BY DEF TypeInv, TypeOK
<1>1. PICK e \in events : e.event_type = "promise.broken" /\ e.customer = c
  BY DEF LetDown
<1>2. CASE e \in events'
  BY <1>1, <1>2 DEF LetDown
<1>3. ASSUME NEW st \in {"processed", "expired"}, [e EXCEPT !.status = st] \in events'
      PROVE  LetDown(c)'
  <2> DEFINE f == [e EXCEPT !.status = st]
  <2>1. f.event_type = "promise.broken" /\ f.customer = c
    BY <1>0, <1>1 DEF Event
  <2> QED BY <1>3, <2>1 DEF LetDown
<1>4. CASE DetectOverdueRung
  BY <1>2, <1>4, WhatIsRaised
<1>5. ASSUME NEW s \in Settlers, EmitBrokenPromises(s) PROVE LetDown(c)'
  BY <1>2, <1>5 DEF EmitBrokenPromises
<1>6. CASE TakeEvent \/ ExpireStale
  <2>1. e \in events' \/ [e EXCEPT !.status = "expired"] \in events'
    BY <1>6 DEF TakeEvent, ExpireStale
  <2> QED BY <1>2, <1>3, <2>1
<1>7. CASE CloseEvent
  <2>1. e \in events' \/ [e EXCEPT !.status = "processed"] \in events'
    BY <1>7 DEF CloseEvent
  <2> QED BY <1>2, <1>3, <2>1
<1> QED BY <1>2, <1>4, <1>5, <1>6, <1>7, WhoWritesEvents

\* One above where a customer stands is in reach, since they stand on a rung
\* that was delivered.
LEMMA OneAboveIsReached ==
    ASSUME TypeInv, RungWasDelivered, NEW c \in Customers, NEW r \in Levels,
           r <= cs[c].rung + 1
    PROVE  Reached(c, r)
<1>1. cs[c].rung \in 0..4 /\ r \in 1..4
  BY DEF TypeInv, TypeOK, ChaseState, Rungs, Levels, MaxRung
<1>2. CASE cs[c].rung = 0
  BY <1>1, <1>2 DEF Reached
<1>3. CASE cs[c].rung > 0
  <2>1. PICK k \in DOMAIN chase_log :
           chase_log[k].customer = c /\ chase_log[k].rung = cs[c].rung
    BY <1>3 DEF RungWasDelivered
  <2> QED BY <1>1, <2>1 DEF Reached
<1> QED BY <1>1, <1>2, <1>3

LEMMA EventsInReach ==
    TypeInv /\ RungWasDelivered /\ RaisedInReach /\ [Next]_vars => RaisedInReach'
<1> SUFFICES ASSUME TypeInv, RungWasDelivered, RaisedInReach, [Next]_vars,
                    NEW e \in events', e.event_type = "invoice.overdue_rung"
             PROVE  Reached(e.customer, e.ref)'
  BY DEF RaisedInReach
<1>1. ASSUME NEW g \in events, SameFact(e, g) PROVE Reached(e.customer, e.ref)
  BY <1>1 DEF RaisedInReach, SameFact
<1>2. ASSUME e.customer \in Customers, MayChase(e.customer),
             e.ref = Decision(e.customer).rung
      PROVE  Reached(e.customer, e.ref)
  <2>1. e.ref \in Levels
    BY <1>2, DecisionSane DEF TypeInv
  <2>2. /\ today - ledger[e.customer].due \in Int /\ ledger[e.customer].owed \in Nat
        /\ cs[e.customer].rung \in Rungs /\ cs[e.customer].chases_sent \in Nat
    BY <1>2, AccountSane DEF TypeInv, TypeOK, ChaseState
  <2>3. e.ref <= cs[e.customer].rung + 1
    BY <1>2, <2>2, DecideRespectsHolds DEF Decision, MayChase
  <2> QED BY <1>2, <2>1, <2>3, OneAboveIsReached
<1>3. Reached(e.customer, e.ref)
  BY <1>1, <1>2, EventsComeFrom
<1> QED BY <1>3, ReachStays

\* What the consumer drafts for an event is in reach when it drafts it.
LEMMA DraftInReach ==
    ASSUME TypeInv, Patient, NEW e \in events
    PROVE  \/ Reached(e.customer, LevelFor(e))
           \/ LevelFor(e) = 2 /\ LetDown(e.customer)
<1>1. CASE e.event_type = "invoice.overdue_rung"
  BY <1>1 DEF LevelFor, Patient, RaisedInReach
<1>2. CASE e.event_type # "invoice.overdue_rung"
  <2>1. e.customer \in Customers /\ e.event_type = "promise.broken"
    BY <1>2 DEF TypeInv, TypeOK, Event
  <2>2. cs[e.customer].rung \in 0..4
    BY <2>1 DEF TypeInv, TypeOK, ChaseState, Rungs, MaxRung
  <2>3. LetDown(e.customer)
    BY <2>1 DEF LetDown
  <2>4. CASE cs[e.customer].rung = 0
    BY <1>2, <2>3, <2>4 DEF LevelFor, Smaller, Larger, MaxRung
  <2>5. CASE cs[e.customer].rung > 0
    <3>1. LevelFor(e) <= cs[e.customer].rung + 1
      BY <1>2, <2>2, <2>5 DEF LevelFor, Smaller, Larger, MaxRung
    <3> QED BY <2>1, <3>1, LevelForSane, OneAboveIsReached DEF Patient
  <2> QED BY <2>2, <2>4, <2>5
<1> QED BY <1>1, <1>2

LEMMA AgentHolds == TypeInv /\ Patient /\ [Next]_vars => AgentSkipsNoRung'
<1> SUFFICES ASSUME TypeInv, Patient, [Next]_vars,
                    NEW i \in DOMAIN actions', actions'[i].proposed_by = "agent",
                    NEW d, d = actions'[i].customer, NEW r, r = actions'[i].rung
             PROVE  Reached(d, r)' \/ (r = 2 /\ LetDown(d)')
  BY DEF AgentSkipsNoRung, Reached, LetDown
<1>0. actions \in Seq(Action)
  BY DEF TypeInv, TypeOK
<1> DEFINE Led(c, l) == Reached(c, l) \/ (l = 2 /\ LetDown(c))
<1>1. ASSUME NEW j \in DOMAIN actions, actions[j].proposed_by = "agent"
      PROVE  Led(actions[j].customer, actions[j].rung)
  BY <1>1 DEF Patient, AgentSkipsNoRung, Reached, LetDown
<1> HIDE DEF Led
<1>2. ASSUME i \in DOMAIN actions, actions'[i].customer = actions[i].customer,
             actions'[i].rung = actions[i].rung,
             actions'[i].proposed_by = actions[i].proposed_by
      PROVE  Led(d, r)
  <2>1. Led(actions[i].customer, actions[i].rung)
    BY <1>1, <1>2
  <2> QED BY <1>2, <2>1
<1>3. ASSUME NEW c \in Customers, NEW level \in Levels, NEW by \in {"agent", "user"},
             actions' = Append(actions, Proposal(c, level, by)),
             by = "agent" => Led(c, level)
      PROVE  Led(d, r)
  <2> DEFINE a == Proposal(c, level, by)
  <2>1. a \in Action /\ a.customer = c /\ a.rung = level /\ a.proposed_by = by
    BY ProposalSane DEF Proposal, TypeInv
  <2> HIDE DEF a
  <2>2. (i \in DOMAIN actions /\ actions'[i] = actions[i]) \/ actions'[i] = a
    BY <1>0, <1>3, <2>1, OneRowMore DEF a
  <2> QED BY <1>2, <1>3, <2>1, <2>2
<1>4. ASSUME actions' = actions PROVE Led(d, r)
  <2>1. i \in DOMAIN actions /\ actions'[i] = actions[i]
    BY <1>4
  <2> QED BY <1>2, <2>1
<1>5. ASSUME Propose PROVE Led(d, r)
  <2>1. job.event \in events /\ job.event.customer \in Customers
    BY <1>5 DEF Propose, Event, TypeInv, TypeOK, JobSane
  <2>2. LevelFor(job.event) \in Levels
    BY <2>1, LevelForSane
  <2>3. Led(job.event.customer, LevelFor(job.event))
    BY <2>1, DraftInReach DEF Led
  <2>4. \/ actions' = actions
        \/ actions' = Append(actions, Proposal(job.event.customer, LevelFor(job.event), "agent"))
    BY <1>5 DEF Propose
  <2> QED BY <1>3, <1>4, <2>1, <2>2, <2>3, <2>4
<1>6. ASSUME NEW c \in Customers, NEW level \in {1, 2}, DraftChase(c, level)
      PROVE  Led(d, r)
  <2>1. level \in Levels
    BY DEF Levels, MaxRung
  <2> QED BY <1>3, <1>6, <2>1 DEF DraftChase
<1>7. ASSUME NEW j \in DOMAIN actions, Decide(j) PROVE Led(d, r)
  <2>1. PICK s \in {"approved", "executed", "rejected"} :
           actions' = [actions EXCEPT ![j].status = s]
    BY <1>7 DEF Decide, Reject, ApproveUndelivered, ApproveDelivered
  <2>2. /\ i \in DOMAIN actions
        /\ actions'[i].customer = actions[i].customer
        /\ actions'[i].rung = actions[i].rung
        /\ actions'[i].proposed_by = actions[i].proposed_by
    BY <1>0, <2>1, StatusOfAction
  <2> QED BY <1>2, <2>2
<1>8. Led(d, r)
  BY <1>4, <1>5, <1>6, <1>7, WhoWritesActions
<1>9. /\ Reached(d, r) => Reached(d, r)'
      /\ LetDown(d) => LetDown(d)'
  BY ReachStays, LetDownStays
<1> QED BY <1>8, <1>9 DEF Led

\* Whatever was promised, broken, paused, drafted by hand or cleared between
\* the raising of an event and its draft: the agent writes at a rung only to
\* those who had the reminder below, but for the second rung after a promise
\* that was announced broken.
THEOREM NobodyIsRushed == Spec => []AgentSkipsNoRung
<1>1. Init => RaisedInReach /\ AgentSkipsNoRung
  BY DEF Init, RaisedInReach, AgentSkipsNoRung
<1>2. TypeInv /\ RungWasDelivered /\ RaisedInReach /\ AgentSkipsNoRung /\ [Next]_vars
          => AgentSkipsNoRung'
  BY AgentHolds DEF Patient
<1> QED BY <1>1, <1>2, EventsInReach, InitTypeInv, NextTypeInv, RungsAreDelivered,
           PTL DEF Spec

\* Bus, log and ladder tell one story.
THEOREM TheRecordsAgree == Spec => []RecordsAgree
BY EventsAreFacts, TheLadderIsOfTheLog, RungsAreDelivered, PTL DEF RecordsAgree

\* One promise is open, and what is announced as broken is, but for what was
\* recorded side by side or closed while a pass had it in hand.
THEOREM PromisesAreTrue == Spec => []PromisesAreHonest
BY OneIsOpen, BrokenIsBroken, PTL DEF PromisesAreHonest

\* Rungs stand, and so do verdicts that no pass has in hand.
THEOREM WhatIsDoneStands == Spec => NothingIsUndone
BY OnlyTheClearedFall, VerdictsStand DEF NothingIsUndone
=============================================================================
