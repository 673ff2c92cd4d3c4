--------------------------- MODULE WorkerTheorems ---------------------------
(***************************************************************************)
(* What the worker keeps however its passes fail, die and overlap: the     *)
(* consumer (EventBus), proved for any number of processes, events,        *)
(* customers and actions, and the watcher runner (WatcherRunner), for any  *)
(* number of watchers and of API threads.                                  *)
(***************************************************************************)
EXTENDS MCWorker, AlertsTheorems, FiniteSetTheorems, SequenceTheorems, WellFoundedInduction, TLAPS

Procs == Workers \cup Askers
Labels    == {"idle", "fetch", "next", "check", "insert", "close"}
Inserting == {p \in Procs : pc[p] = "insert"}

\* A draft that is on its way has a row of the ledger kept for it.
RoomIsKept == Len(actions) + Cardinality(Inserting) <= MaxActions

TypeInv == TypeOK /\ RoomIsKept

-----------------------------------------------------------------------------
(* Operators of the model. *)

\* The oldest of some events is one of them.
LEMMA OldestIsOne ==
    ASSUME NEW S \in SUBSET Facts, S # {}
    PROVE  Oldest(S) \in S
<1>1. S \subseteq Nat
  BY EventBusAssumption
<1> DEFINE R == OpToRel(<, Nat)
<1>0. IsWellFoundedOn(R, Nat)
  BY NatLessThanWellFounded
<1>2. \A x, y \in Nat : y < x => <<y, x>> \in R
  BY DEF OpToRel
<1> HIDE DEF R
<1>3. PICK e \in S : \A y \in S : ~(<<y, e>> \in R)
  BY <1>0, <1>1, WFMin, Zenon
<1>4. \A f \in S : e <= f
  <2> TAKE f \in S
  <2>1. ~(f < e)
    BY <1>1, <1>2, <1>3
  <2>2. QED
    BY <1>1, <2>1
<1>5. QED
  BY <1>4 DEF Oldest

\* The event a pass is at is in its batch.
LEMMA CurrentIsInBatch ==
    ASSUME TypeOK, NEW w \in Workers, batch[w] # {}
    PROVE  Current(w) \in batch[w] /\ Current(w) \in Facts
BY OldestIsOne DEF Current, TypeOK

\* A row more at the end of the ledger.
LEMMA RowMore ==
    ASSUME NEW s \in Seq(Action), NEW a \in Action
    PROVE  /\ Append(s, a) \in Seq(Action) /\ Len(s) \in Nat
           /\ Len(Append(s, a)) = Len(s) + 1
           /\ DOMAIN s = 1..Len(s)
           /\ DOMAIN Append(s, a) = DOMAIN s \cup {Len(s) + 1} /\ Len(s) + 1 \notin DOMAIN s
           /\ \A i \in DOMAIN s : Append(s, a)[i] = s[i]
           /\ Append(s, a)[Len(s) + 1] = a
BY AppendProperties, LenProperties

\* A row rewritten.
LEMMA RowRewritten ==
    ASSUME NEW s \in Seq(Action), NEW i \in DOMAIN s, NEW a \in Action
    PROVE  /\ [s EXCEPT ![i] = a] \in Seq(Action)
           /\ Len([s EXCEPT ![i] = a]) = Len(s) /\ Len(s) \in Nat
           /\ DOMAIN s = 1..Len(s) /\ DOMAIN [s EXCEPT ![i] = a] = DOMAIN s
BY ExceptSeq, LenProperties

\* One process fewer, one more, among those that insert.
LEMMA InsertingChanges ==
    ASSUME TypeOK, NEW p \in Procs, NEW label \in Labels, Goto(p, label)
    PROVE  /\ Cardinality(Inserting) \in Nat /\ Cardinality(Inserting') \in Nat
           /\ label = "insert" => Cardinality(Inserting') <= Cardinality(Inserting) + 1
           /\ label # "insert" => Cardinality(Inserting') <= Cardinality(Inserting)
           /\ pc[p] = "insert" /\ label # "insert" =>
                 Cardinality(Inserting') = Cardinality(Inserting) - 1
<1>1. Inserting' = IF label = "insert" THEN Inserting \cup {p} ELSE Inserting \ {p}
  BY DEF Inserting, Goto, TypeOK, Procs, Labels
<1>2. IsFiniteSet(Inserting)
  BY EventBusAssumption, FS_Subset DEF Inserting, Procs
<1>3. CASE label = "insert"
  <2>1. /\ Cardinality(Inserting) \in Nat /\ Cardinality(Inserting \cup {p}) \in Nat
        /\ \/ Cardinality(Inserting \cup {p}) = Cardinality(Inserting)
           \/ Cardinality(Inserting \cup {p}) = Cardinality(Inserting) + 1
    BY <1>2, FS_AddElement, FS_CardinalityType
  <2>2. QED
    BY <1>1, <1>3, <2>1
<1>4. CASE label # "insert"
  <2>1. p \in Inserting <=> pc[p] = "insert"
    BY DEF Inserting
  <2>2. /\ Cardinality(Inserting) \in Nat
        /\ Cardinality(Inserting \ {p}) = IF p \in Inserting THEN Cardinality(Inserting) - 1
                                                            ELSE Cardinality(Inserting)
    BY <1>2, FS_RemoveElement, FS_CardinalityType
  <2>3. Cardinality(Inserting \ {p}) \in Nat
    BY <1>2, FS_RemoveElement, FS_CardinalityType
  <2> QED
    BY <1>1, <1>4, <2>1, <2>2, <2>3
<1>5. QED
  BY <1>3, <1>4

-----------------------------------------------------------------------------
(* Types, and room for what is about to be inserted. *)

LEMMA CommitKeepsTypes ==
    ASSUME TypeOK, NEW w \in Workers, NEW S \in SUBSET Closing, Commit(w, S)
    PROVE  /\ status' \in [Facts -> {"absent", "pending", "closed"}]
           /\ closing' \subseteq Closing
           /\ locks' \in [Workers -> SUBSET Facts]
           /\ marks' \in [Workers -> SUBSET Closing]
BY DEF Commit, TypeOK

LEMMA RollbackKeepsTypes ==
    ASSUME TypeOK, NEW w \in Workers, Rollback(w)
    PROVE  /\ locks' \in [Workers -> SUBSET Facts]
           /\ marks' \in [Workers -> SUBSET Closing]
BY DEF Rollback, TypeOK

LEMMA GotoKeepsTypes ==
    ASSUME TypeOK, NEW p \in Procs, NEW label \in Labels, Goto(p, label)
    PROVE  pc' \in [Workers \cup Askers -> Labels]
BY DEF Goto, TypeOK, Procs, Labels

\* How a pass closes its event fits the columns.
LEMMA HowFits ==
    ASSUME TypeInv, NEW w \in Workers, batch[w] # {}
    PROVE  How(w) \in Closing
<1>1. Current(w) \in Facts
  BY CurrentIsInBatch DEF TypeInv
<1>2. Len(actions) \in Nat /\ Cardinality(Inserting) \in Nat
  <2>1. IsFiniteSet(Inserting)
    BY EventBusAssumption, FS_Subset DEF Inserting, Procs
  <2>2. QED
    BY <2>1, FS_CardinalityType, LenProperties DEF TypeInv, TypeOK
<1>3. made[w] \in 0..MaxActions
  BY <1>2, EventBusAssumption DEF TypeInv, TypeOK, RoomIsKept
<1>4. QED
  BY <1>1, <1>3 DEF How, Closing, Reasons

\* The types of what a step leaves alone.
TableTyped == /\ status \in [Facts -> {"absent", "pending", "closed"}]
              /\ aged \subseteq Facts /\ closing \subseteq Closing
              /\ actions \in Seq(Action)

PassTyped == /\ pc \in [Workers \cup Askers -> Labels]
             /\ batch \in [Workers -> SUBSET Facts]
             /\ made \in [Workers -> 0..Len(actions)]
             /\ locks \in [Workers -> SUBSET Facts]
             /\ marks \in [Workers -> SUBSET Closing]

OtherTyped == kind \in [Facts -> Kinds] /\ crossed \subseteq {"passes", "ask"}
              /\ faults \in 0..MaxFaults

LEMMA TypesInParts ==
    /\ TypeOK <=> TableTyped /\ PassTyped /\ OtherTyped
    /\ TypeOK' <=> TableTyped' /\ PassTyped' /\ OtherTyped'
BY DEF TypeOK, TableTyped, PassTyped, OtherTyped, Labels

LEMMA WorldKeepsTypes ==
    ASSUME TypeInv, World, kind' = kind
    PROVE  TypeInv'
<1>1. RoomIsKept' <=> Len(actions') + Cardinality(Inserting') <= MaxActions
  BY DEF RoomIsKept
<1>2. Inserting' = Inserting
  BY DEF Inserting, World, Emit, GrowOld, Decide
<1>3. ASSUME NEW e \in Facts, Emit(e) \/ GrowOld(e)
      PROVE  TypeInv'
  BY <1>1, <1>2, <1>3 DEF TypeInv, RoomIsKept, Emit, GrowOld, TypeOK
<1>4. ASSUME NEW i \in DOMAIN actions, Decide(i)
      PROVE  TypeInv'
  <2>1. PICK outcome \in {"rejected", "executed"} :
           actions' = [actions EXCEPT ![i] = [actions[i] EXCEPT !.status = outcome]]
    BY <1>4 DEF Decide
  <2>2. actions[i] \in Action
    BY DEF TypeInv, TypeOK
  <2>3. [actions[i] EXCEPT !.status = outcome] \in Action
    BY <2>2 DEF Action
  <2>4. actions' \in Seq(Action) /\ Len(actions') = Len(actions)
    BY <2>1, <2>3, RowRewritten DEF TypeInv, TypeOK
  <2>5. QED
    BY <1>1, <1>2, <1>4, <2>4 DEF TypeInv, RoomIsKept, Decide, TypeOK
<1>5. QED
  BY <1>3, <1>4 DEF World

\* A process that does not go to insert, and adds no row, leaves room.
LEMMA RoomStays ==
    ASSUME TypeInv, NEW p \in Procs, NEW label \in Labels \ {"insert"}, Goto(p, label),
           Len(actions') = Len(actions)
    PROVE  RoomIsKept'
<1>1. Len(actions) \in Nat
  BY LenProperties DEF TypeInv, TypeOK
<1>2. label \in Labels /\ label # "insert"
  OBVIOUS
<1>3. /\ Cardinality(Inserting) \in Nat /\ Cardinality(Inserting') \in Nat
      /\ Cardinality(Inserting') <= Cardinality(Inserting)
  BY <1>2, InsertingChanges DEF TypeInv
<1>4. QED
  BY <1>1, <1>3, EventBusAssumption DEF TypeInv, RoomIsKept

LEMMA NobodyMoves ==
    ASSUME TypeInv, pc' = pc, actions' = actions
    PROVE  RoomIsKept'
BY DEF TypeInv, RoomIsKept, Inserting

\* The row written takes the room that was kept.
LEMMA RoomIsUsed ==
    ASSUME TypeInv, NEW p \in Procs, NEW label \in Labels \ {"insert"}, Goto(p, label),
           pc[p] = "insert", NEW a \in Action, actions' = Append(actions, a)
    PROVE  /\ actions' \in Seq(Action) /\ Len(actions') = Len(actions) + 1
           /\ Len(actions) \in Nat /\ RoomIsKept'
<1>1. /\ actions' \in Seq(Action) /\ Len(actions') = Len(actions) + 1 /\ Len(actions) \in Nat
  BY RowMore DEF TypeInv, TypeOK
<1>2. label \in Labels /\ label # "insert"
  OBVIOUS
<1>3. /\ Cardinality(Inserting) \in Nat /\ Cardinality(Inserting') \in Nat
      /\ Cardinality(Inserting') = Cardinality(Inserting) - 1
  BY <1>2, InsertingChanges DEF TypeInv
<1>4. QED
  BY <1>1, <1>3, EventBusAssumption DEF TypeInv, RoomIsKept

LEMMA RoomIsTaken ==
    ASSUME TypeInv, NEW p \in Procs, Goto(p, "insert"), Room, actions' = actions
    PROVE  RoomIsKept'
<1>1. Len(actions) \in Nat
  BY LenProperties DEF TypeInv, TypeOK
<1>2. /\ Cardinality(Inserting) \in Nat /\ Cardinality(Inserting') \in Nat
      /\ Cardinality(Inserting') <= Cardinality(Inserting) + 1
  BY InsertingChanges DEF TypeInv, Labels
<1>3. Len(actions) + Cardinality(Inserting) < MaxActions
  BY DEF Room, Inserting, Procs
<1>4. QED
  BY <1>1, <1>2, <1>3, EventBusAssumption DEF RoomIsKept

\* The proposal of a pass is a row of the ledger.
LEMMA ProposalFits ==
    ASSUME TypeInv, NEW w \in Workers, batch[w] # {}
    PROVE  Proposed(Tool(Current(w)), CustomerOf[Current(w)],
                    IF kind[Current(w)] = "hold" THEN Current(w) ELSE 0, w) \in Action
<1>1. Current(w) \in Facts
  BY CurrentIsInBatch DEF TypeInv
<1>2. CustomerOf[Current(w)] \in Customers
  BY <1>1 DEF Customers
<1>3. QED
  BY <1>1, <1>2 DEF Proposed, Action, Tool

LEMMA StepKeepsTypes ==
    ASSUME TypeInv, NEW w \in Workers, Step(w), kind' = kind
    PROVE  TypeInv'
<1> w \in Procs
  BY DEF Procs
<1> USE TypesInParts DEF TypeInv
<1>1. CASE ExpireStale(w)
  <2>1. pc' \in [Workers \cup Askers -> Labels] /\ RoomIsKept'
    BY <1>1, GotoKeepsTypes, RoomStays DEF ExpireStale, table, Labels
  <2> DEFINE stale   == {e \in aged : status[e] = "pending"}
             expired == {[event |-> e, reason |-> "expired", action |-> 0] : e \in stale}
  <2>2. stale \subseteq Facts
    BY DEF TableTyped
  <2>3. expired \subseteq Closing
    <3> SUFFICES ASSUME NEW e \in Facts
                 PROVE  [event |-> e, reason |-> "expired", action |-> 0] \in Closing
      BY <2>2
    <3>1. 0 \in 0..MaxActions
      BY EventBusAssumption
    <3>2. QED
      BY <3>1 DEF Closing, Reasons
  <2>4. /\ locks' = [locks EXCEPT ![w] = @ \cup stale]
        /\ marks' = [marks EXCEPT ![w] = @ \cup expired]
        /\ UNCHANGED <<table, batch, made, faults>> /\ crossed' \subseteq crossed \cup {"passes", "ask"}
    BY <1>1 DEF ExpireStale
  <2> HIDE DEF stale, expired
  <2>5. QED
    BY <2>1, <2>2, <2>3, <2>4 DEF table, TableTyped, PassTyped, OtherTyped
<1>2. CASE Fetch(w)
  <2>1. pc' \in [Workers \cup Askers -> Labels] /\ RoomIsKept'
    BY <1>2, GotoKeepsTypes, RoomStays DEF Fetch, table, Labels
  <2>2. Free(w) \subseteq Facts
    BY DEF Free
  <2>3. QED
    BY <1>2, <2>1, <2>2 DEF Fetch, table, TableTyped, PassTyped, OtherTyped
<1>3. CASE EndPass(w)
  <2>1. pc' \in [Workers \cup Askers -> Labels] /\ RoomIsKept'
    BY <1>3, GotoKeepsTypes, RoomStays DEF EndPass, Labels
  <2>2. marks[w] \subseteq Closing
    BY DEF PassTyped
  <2>3. QED
    BY <1>3, <2>1, <2>2, CommitKeepsTypes DEF EndPass, TableTyped, PassTyped, OtherTyped
<1>4. CASE Skip(w)
  <2>1. Current(w) \in Facts
    BY <1>4, CurrentIsInBatch DEF Skip, At
  <2>2. [event |-> Current(w), reason |-> "no handler", action |-> 0] \in Closing
    BY <2>1, EventBusAssumption DEF Closing, Reasons
  <2>3. RoomIsKept'
    BY <1>4, NobodyMoves DEF Skip, table
  <2>4. QED
    BY <1>4, <2>1, <2>2, <2>3 DEF Skip, table, TableTyped, PassTyped, OtherTyped
<1>5. CASE Note(w)
  <2>1. pc' \in [Workers \cup Askers -> Labels] /\ RoomIsKept'
    BY <1>5, GotoKeepsTypes, RoomStays DEF Note, table, Labels
  <2>2. 0 \in 0..Len(actions)
    BY LenProperties DEF TableTyped
  <2>3. QED
    BY <1>5, <2>1, <2>2 DEF Note, table, TableTyped, PassTyped, OtherTyped
<1>6. CASE VoidPause(w)
  <2>1. pc' \in [Workers \cup Askers -> Labels] /\ RoomIsKept'
    BY <1>6, GotoKeepsTypes, RoomStays DEF VoidPause, Labels
  <2>2. marks[w] \subseteq Closing
    BY DEF PassTyped
  <2>3. QED
    BY <1>6, <2>1, <2>2, CommitKeepsTypes DEF VoidPause, TableTyped, PassTyped, OtherTyped
<1>7. CASE CheckDuplicate(w)
  <2>1. (Room /\ Goto(w, "insert")) \/ Goto(w, "close")
    BY <1>7 DEF CheckDuplicate
  <2>2. pc' \in [Workers \cup Askers -> Labels] /\ RoomIsKept'
    BY <1>7, <2>1, GotoKeepsTypes, RoomStays, RoomIsTaken DEF CheckDuplicate, table, Labels
  <2>3. 0 \in 0..Len(actions)
    BY LenProperties DEF TableTyped
  <2>4. QED
    BY <1>7, <2>2, <2>3 DEF CheckDuplicate, table, TableTyped, PassTyped, OtherTyped
<1>8. CASE Insert(w)
  <2>1. pc[w] = "insert" /\ batch[w] # {} /\ Goto(w, "close") /\ Commit(w, marks[w])
    BY <1>8 DEF Insert, At
  <2>2. /\ actions' \in Seq(Action) /\ Len(actions') = Len(actions) + 1
        /\ Len(actions) \in Nat /\ RoomIsKept'
    BY <1>8, <2>1, ProposalFits, RoomIsUsed DEF Insert, Labels
  <2>3. made' \in [Workers -> 0..Len(actions')]
    BY <1>8, <2>2 DEF Insert, PassTyped
  <2>4. marks[w] \subseteq Closing
    BY DEF PassTyped
  <2>5. pc' \in [Workers \cup Askers -> Labels]
    BY <2>1, GotoKeepsTypes DEF Labels
  <2>6. QED
    BY <1>8, <2>1, <2>2, <2>3, <2>4, <2>5, CommitKeepsTypes
    DEF Insert, TableTyped, PassTyped, OtherTyped
<1>9. CASE Close(w)
  <2>1. /\ pc[w] = "close" /\ batch[w] # {} /\ Goto(w, "next")
        /\ Commit(w, marks[w] \cup {How(w)})
    BY <1>9 DEF Close, At
  <2>2. actions' \in Seq(Action) /\ Len(actions') = Len(actions)
    <3>1. CASE made[w] = 0
      BY <1>9, <3>1 DEF Close, TableTyped
    <3>2. CASE made[w] # 0
      <4>1. made[w] \in DOMAIN actions
        BY <3>2, LenProperties DEF PassTyped, TableTyped
      <4>2. actions[made[w]] \in Action /\ Current(w) \in Facts
        BY <2>1, <4>1, CurrentIsInBatch DEF TableTyped
      <4>3. [actions[made[w]] EXCEPT !.event = Current(w)] \in Action
        BY <4>2 DEF Action
      <4>4. actions' = [actions EXCEPT ![made[w]] =
                                [actions[made[w]] EXCEPT !.event = Current(w)]]
        BY <1>9, <3>2 DEF Close
      <4>5. QED
        BY <4>1, <4>3, <4>4, RowRewritten DEF TableTyped
    <3>3. QED
      BY <3>1, <3>2
  <2>3. pc' \in [Workers \cup Askers -> Labels] /\ RoomIsKept'
    BY <2>1, <2>2, GotoKeepsTypes, RoomStays DEF Labels
  <2>4. marks[w] \cup {How(w)} \subseteq Closing
    BY <2>1, HowFits DEF PassTyped
  <2>5. batch' \in [Workers -> SUBSET Facts] /\ UNCHANGED <<aged, made, crossed, faults>>
    BY <1>9 DEF Close, PassTyped
  <2>6. QED
    BY <2>1, <2>2, <2>3, <2>4, <2>5, CommitKeepsTypes DEF TableTyped, PassTyped, OtherTyped
<1>10. QED
  BY <1>1, <1>2, <1>3, <1>4, <1>5, <1>6, <1>7, <1>8, <1>9 DEF Step

LEMMA FaultKeepsTypes ==
    ASSUME TypeInv, NEW w \in Workers, Fail(w) \/ Crash(w), kind' = kind
    PROVE  TypeInv'
<1> w \in Procs
  BY DEF Procs
<1> USE TypesInParts DEF TypeInv
<1>1. Goto(w, "next") \/ Goto(w, "idle")
  BY DEF Fail, Crash
<1>2. pc' \in [Workers \cup Askers -> Labels] /\ RoomIsKept'
  BY <1>1, GotoKeepsTypes, RoomStays DEF Fail, Crash, table, Labels
<1>3. batch' \in [Workers -> SUBSET Facts] /\ UNCHANGED <<table, made, crossed>> /\ Rollback(w)
  BY DEF Fail, Crash, PassTyped
<1>4. faults' \in 0..MaxFaults
  <2>1. faults < MaxFaults /\ faults' = faults + 1 /\ faults \in 0..MaxFaults
    BY DEF Fail, Crash, Fault, OtherTyped
  <2>2. QED
    BY <2>1, EventBusAssumption
<1>5. QED
  BY <1>2, <1>3, <1>4, RollbackKeepsTypes DEF table, TableTyped, PassTyped, OtherTyped

LEMMA AskKeepsTypes ==
    ASSUME TypeInv, NEW a \in Askers, AskCheck(a) \/ AskInsert(a), kind' = kind
    PROVE  TypeInv'
<1> a \in Procs
  BY DEF Procs
<1> USE TypesInParts DEF TypeInv
<1>1. CASE AskCheck(a)
  <2>1. pc' \in [Workers \cup Askers -> Labels] /\ RoomIsKept'
    BY <1>1, GotoKeepsTypes, RoomIsTaken DEF AskCheck, table, Labels
  <2>2. QED
    BY <1>1, <2>1 DEF AskCheck, table, TableTyped, PassTyped, OtherTyped
<1>2. CASE AskInsert(a)
  <2>1. Proposed("chase", AskedFor[a], 0, a) \in Action
    <3>1. AskedFor[a] \in Customers
      BY DEF Customers
    <3>2. QED
      BY <3>1 DEF Proposed, Action
  <2>2. /\ actions' \in Seq(Action) /\ Len(actions') = Len(actions) + 1
        /\ Len(actions) \in Nat /\ RoomIsKept'
    BY <1>2, <2>1, RoomIsUsed DEF AskInsert, Labels
  <2>3. pc' \in [Workers \cup Askers -> Labels]
    BY <1>2, GotoKeepsTypes DEF AskInsert, Labels
  <2>4. made' \in [Workers -> 0..Len(actions')]
    BY <1>2, <2>2 DEF AskInsert, PassTyped
  <2>5. QED
    BY <1>2, <2>2, <2>3, <2>4 DEF AskInsert, TableTyped, PassTyped, OtherTyped
<1>3. QED
  BY <1>1, <1>2

LEMMA TypesAtFirst == Init => TypeInv
<1> SUFFICES ASSUME Init PROVE TypeInv
  OBVIOUS
<1>1. TypeOK
  BY EventBusAssumption DEF Init, TypeOK, Kinds
<1>2. Inserting = {} /\ Len(actions) = 0
  BY DEF Init, Inserting, Procs
<1>3. QED
  BY <1>1, <1>2, FS_EmptySet, EventBusAssumption DEF TypeInv, RoomIsKept

LEMMA TypesStay == TypeInv /\ [Next]_vars => TypeInv'
<1> SUFFICES ASSUME TypeInv, [Next]_vars PROVE TypeInv'
  OBVIOUS
<1>1. CASE UNCHANGED vars
  BY <1>1 DEF vars, table, TypeInv, TypeOK, RoomIsKept, Inserting
<1>2. CASE Next
  BY <1>2, WorldKeepsTypes, StepKeepsTypes, FaultKeepsTypes, AskKeepsTypes DEF Next
<1>3. QED
  BY <1>1, <1>2

\* Every variable keeps its type, and the ledger never grows beyond its bound.
THEOREM TypeCorrect == Spec => []TypeInv
<1>1. QED
  BY TypesAtFirst, TypesStay, PTL DEF Spec

-----------------------------------------------------------------------------
(* One live proposal of a kind for a customer.                             *)
(*                                                                         *)
(* As long as nothing has overlapped, one process at a time is off idle;   *)
(* what it saw of the ledger when it checked is therefore what it adds to. *)

OneAtATime == crossed = {} =>
    \A p, q \in Procs : pc[p] # "idle" /\ pc[q] # "idle" => p = q

CheckHolds == crossed = {} =>
    /\ \A w \in Workers : pc[w] = "insert" =>
          ~Blocked(Tool(Current(w)), CustomerOf[Current(w)])
    /\ \A a \in Askers : pc[a] = "insert" => ~Blocked("chase", AskedFor[a])

OneLiveInv == OneAtATime /\ CheckHolds /\ OneLiveProposal


\* No two rows of a ledger that count are alike.
Unlike(ledger) ==
    \A i, j \in DOMAIN ledger :
        (/\ ledger[i].tool = ledger[j].tool
         /\ ledger[i].customer = ledger[j].customer
         /\ Counts(ledger[i]) /\ Counts(ledger[j])) => i = j

LEMMA LiveIsUnlike == OneLiveProposal <=> (crossed = {} => Unlike(actions))
BY DEF OneLiveProposal, Unlike

\* Who takes a step when nothing has overlapped is alone before and after.
LEMMA OthersAreIdle ==
    ASSUME TypeOK, OneAtATime, NEW p \in Procs, NEW label \in Labels, Goto(p, label),
           crossed' = {} => crossed = {} /\ (pc[p] = "idle" => Passing \cup Asking \subseteq {p})
    PROVE  crossed' = {} => \A q \in Procs : q # p => pc'[q] = "idle"
<1>1. SUFFICES ASSUME crossed' = {}, NEW q \in Procs, q # p
               PROVE  pc'[q] = "idle"
  OBVIOUS
<1>2. pc'[q] = pc[q]
  BY <1>1 DEF Goto, TypeOK, Procs
<1>3. CASE pc[p] = "idle"
  BY <1>1, <1>2, <1>3 DEF Passing, Asking, Procs
<1>4. CASE pc[p] # "idle"
  BY <1>1, <1>2, <1>4 DEF OneAtATime
<1>5. QED
  BY <1>3, <1>4

\* ... so that only what it is about to insert is in question.
LEMMA AloneKeeps ==
    ASSUME TypeOK, NEW p \in Procs, NEW label \in Labels, Goto(p, label),
           crossed' = {} => \A q \in Procs : q # p => pc'[q] = "idle",
           label # "insert"
    PROVE  OneAtATime' /\ CheckHolds'
<1>1. pc'[p] = label
  BY DEF Goto, TypeOK, Procs
<1>2. QED
  BY <1>1 DEF OneAtATime, CheckHolds, Procs

\* A row that nothing like it blocks may be added.
LEMMA UnblockedIsUnlike ==
    ASSUME NEW s \in Seq(Action), Unlike(s), NEW a \in Action, actions = s,
           ~Blocked(a.tool, a.customer)
    PROVE  Unlike(Append(s, a))
<1>1. /\ DOMAIN Append(s, a) = DOMAIN s \cup {Len(s) + 1}
      /\ \A i \in DOMAIN s : Append(s, a)[i] = s[i]
      /\ Append(s, a)[Len(s) + 1] = a
  BY RowMore
<1>2. \A i \in DOMAIN s : ~(s[i].tool = a.tool /\ s[i].customer = a.customer /\ Counts(s[i]))
  BY DEF Blocked, Counts
<1>3. QED
  BY <1>1, <1>2 DEF Unlike

LEMMA DecidingUnblocks ==
    ASSUME TypeOK, NEW i \in DOMAIN actions, Decide(i)
    PROVE  /\ \A tool, c : Blocked(tool, c)' => Blocked(tool, c)
           /\ Unlike(actions) => Unlike(actions')
<1>1. PICK outcome \in {"rejected", "executed"} :
         actions' = [actions EXCEPT ![i] = [actions[i] EXCEPT !.status = outcome]]
  BY DEF Decide
<1>2. actions[i] \in Action /\ actions[i].status = "proposed"
  BY DEF TypeOK, Decide
<1>3. /\ actions'[i].tool = actions[i].tool /\ actions'[i].customer = actions[i].customer
      /\ actions'[i].status = outcome
      /\ \A j \in DOMAIN actions : j # i => actions'[j] = actions[j]
      /\ DOMAIN actions' = DOMAIN actions
  BY <1>1, <1>2 DEF TypeOK, Action
<1>4. ASSUME NEW tool, NEW c, Blocked(tool, c)'
      PROVE  Blocked(tool, c)
  <2>1. PICK j \in DOMAIN actions :
          /\ actions'[j].tool = tool /\ actions'[j].customer = c
          /\ actions'[j].status \in (IF tool = "chase" THEN {"proposed", "executed"}
                                     ELSE {"proposed"})
    BY <1>3, <1>4 DEF Blocked
  <2>2. /\ actions[j].tool = tool /\ actions[j].customer = c
        /\ actions[j].status \in (IF tool = "chase" THEN {"proposed", "executed"}
                                  ELSE {"proposed"})
    BY <1>2, <1>3, <2>1
  <2>3. QED
    BY <2>2 DEF Blocked
<1>5. \A j \in DOMAIN actions' : /\ actions'[j].tool = actions[j].tool
                                 /\ actions'[j].customer = actions[j].customer
                                 /\ Counts(actions'[j]) => Counts(actions[j])
  BY <1>2, <1>3 DEF Counts
<1>6. QED
  BY <1>3, <1>4, <1>5 DEF Unlike

LEMMA OneLiveWorld ==
    ASSUME TypeInv, OneLiveInv, World, kind' = kind
    PROVE  OneLiveInv'
<1>1. crossed' = crossed /\ pc' = pc /\ batch' = batch
  BY DEF World, Emit, GrowOld, Decide
<1>2. /\ \A tool, c : Blocked(tool, c)' => Blocked(tool, c)
      /\ Unlike(actions) => Unlike(actions')
  <2>1. CASE actions' = actions
    BY <2>1 DEF Blocked
  <2>2. CASE actions' # actions
    <3>1. PICK i \in DOMAIN actions : Decide(i)
      BY <2>2 DEF World, Emit, GrowOld
    <3>2. QED
      BY <3>1, DecidingUnblocks DEF TypeInv
  <2>3. QED
    BY <2>1, <2>2
<1>3. \A w \in Workers : Current(w)' = Current(w)
  BY <1>1 DEF Current, Oldest
<1>4. \A e : Tool(e)' = Tool(e)
  BY DEF Tool
<1>5. OneAtATime' /\ CheckHolds'
  BY <1>1, <1>2, <1>3, <1>4 DEF OneLiveInv, OneAtATime, CheckHolds
<1>6. (crossed' = {} => Unlike(actions')) => OneLiveProposal'
  BY DEF OneLiveProposal, Unlike
<1>7. QED
  BY <1>1, <1>2, <1>5, <1>6, LiveIsUnlike DEF OneLiveInv

\* A step of a process that inserts nothing and is not about to.
LEMMA NothingAdded ==
    ASSUME TypeInv, OneLiveInv, NEW p \in Procs, NEW label \in Labels, Goto(p, label),
           crossed' = {} => crossed = {} /\ (pc[p] = "idle" => Passing \cup Asking \subseteq {p}),
           label # "insert", crossed' = {} /\ Unlike(actions) => Unlike(actions')
    PROVE  OneLiveInv'
<1>1. crossed' = {} => \A q \in Procs : q # p => pc'[q] = "idle"
  BY OthersAreIdle DEF TypeInv, OneLiveInv
<1>2. OneAtATime' /\ CheckHolds'
  BY <1>1, AloneKeeps DEF TypeInv
<1>3. crossed' = {} => Unlike(actions')
  BY LiveIsUnlike DEF OneLiveInv
<1>4. QED
  BY <1>2, <1>3 DEF OneLiveInv, OneLiveProposal, Unlike

\* A step of a process that has checked, and will insert.
LEMMA AboutToAdd ==
    ASSUME TypeInv, OneLiveInv, NEW p \in Procs, Goto(p, "insert"),
           crossed' = {} => crossed = {} /\ (pc[p] = "idle" => Passing \cup Asking \subseteq {p}),
           actions' = actions, batch' = batch, kind' = kind,
           p \in Workers => ~Blocked(Tool(Current(p)), CustomerOf[Current(p)]),
           p \in Askers => ~Blocked("chase", AskedFor[p])
    PROVE  OneLiveInv'
<1>1. crossed' = {} => \A q \in Procs : q # p => pc'[q] = "idle"
  BY OthersAreIdle DEF TypeInv, OneLiveInv, Labels
<1>2. OneAtATime'
  BY <1>1 DEF OneAtATime
<1>3. /\ \A tool, c : Blocked(tool, c)' <=> Blocked(tool, c)
      /\ \A w \in Workers : Tool(Current(w))' = Tool(Current(w)) /\ Current(w)' = Current(w)
  BY DEF Blocked, Tool, Current, Oldest
<1>4. CheckHolds'
  BY <1>1, <1>3 DEF CheckHolds, Procs
<1>5. OneLiveProposal'
  BY DEF OneLiveInv, OneLiveProposal
<1>6. QED
  BY <1>2, <1>4, <1>5 DEF OneLiveInv

LEMMA OneLiveStep ==
    ASSUME TypeInv, OneLiveInv, NEW w \in Workers, Step(w), kind' = kind
    PROVE  OneLiveInv'
<1> w \in Procs
  BY DEF Procs
<1>1. CASE ExpireStale(w)
  <2>1. crossed' = {} => crossed = {} /\ Passing \cup Asking \subseteq {w}
    BY <1>1 DEF ExpireStale
  <2>2. QED
    BY <1>1, <2>1, NothingAdded DEF ExpireStale, table, Labels
<1>2. CASE Fetch(w)
  BY <1>2, NothingAdded DEF Fetch, table, Labels
<1>3. CASE EndPass(w)
  BY <1>3, NothingAdded DEF EndPass, Labels
<1>4. CASE Skip(w)
  <2>1. pc' = pc /\ actions' = actions /\ crossed' = crossed /\ pc[w] = "next"
    BY <1>4 DEF Skip, table, At
  <2>2. Goto(w, "next")
    BY <2>1 DEF Goto, TypeInv, TypeOK
  <2>3. QED
    BY <2>1, <2>2, NothingAdded DEF Labels
<1>5. CASE Note(w)
  BY <1>5, NothingAdded DEF Note, table, Labels, At
<1>6. CASE VoidPause(w)
  BY <1>6, NothingAdded DEF VoidPause, Labels, At
<1>7. CASE CheckDuplicate(w)
  <2>1. /\ pc[w] # "idle" /\ crossed' = crossed /\ actions' = actions /\ batch' = batch
        /\ \/ ~Blocked(Tool(Current(w)), CustomerOf[Current(w)]) /\ Goto(w, "insert")
           \/ Goto(w, "close")
    BY <1>7 DEF CheckDuplicate, table, At
  <2>2. w \notin Askers
    BY EventBusAssumption
  <2>3. QED
    BY <2>1, <2>2, NothingAdded, AboutToAdd DEF Labels
<1>8. CASE Insert(w)
  <2>1. /\ pc[w] = "insert" /\ batch[w] # {} /\ Goto(w, "close") /\ crossed' = crossed
    BY <1>8 DEF Insert, At
  <2> DEFINE a == Proposed(Tool(Current(w)), CustomerOf[Current(w)],
                           IF kind[Current(w)] = "hold" THEN Current(w) ELSE 0, w)
  <2>2. a \in Action /\ actions' = Append(actions, a)
        /\ a.tool = Tool(Current(w)) /\ a.customer = CustomerOf[Current(w)]
    BY <1>8, <2>1, ProposalFits DEF Insert, Proposed
  <2> HIDE DEF a
  <2>3. crossed = {} => ~Blocked(a.tool, a.customer)
    BY <2>1, <2>2 DEF OneLiveInv, CheckHolds
  <2>4. crossed = {} => Unlike(actions')
    BY <2>2, <2>3, UnblockedIsUnlike, LiveIsUnlike DEF OneLiveInv, TypeInv, TypeOK
  <2>5. QED
    BY <2>1, <2>4, NothingAdded DEF Labels
<1>9. CASE Close(w)
  <2>1. /\ pc[w] = "close" /\ Goto(w, "next") /\ crossed' = crossed
        /\ actions' = IF made[w] = 0 THEN actions
                      ELSE [actions EXCEPT ![made[w]].event = Current(w)]
    BY <1>9 DEF Close, At
  <2>2. DOMAIN actions' = DOMAIN actions
    BY <2>1
  <2>3. \A i \in DOMAIN actions : /\ actions'[i].tool = actions[i].tool
                                  /\ actions'[i].customer = actions[i].customer
                                  /\ actions'[i].status = actions[i].status
    <3> TAKE i \in DOMAIN actions
    <3>1. actions[i] \in Action
      BY DEF TypeInv, TypeOK
    <3>2. actions'[i] \in {actions[i], [actions[i] EXCEPT !.event = Current(w)]}
      BY <2>1
    <3>3. QED
      BY <3>1, <3>2 DEF Action
  <2>4. Unlike(actions) => Unlike(actions')
    BY <2>2, <2>3 DEF Unlike, Counts
  <2>5. QED
    BY <2>1, <2>4, NothingAdded DEF Labels
<1>10. QED
  BY <1>1, <1>2, <1>3, <1>4, <1>5, <1>6, <1>7, <1>8, <1>9 DEF Step

LEMMA OneLiveFault ==
    ASSUME TypeInv, OneLiveInv, NEW w \in Workers, Fail(w) \/ Crash(w)
    PROVE  OneLiveInv'
<1>1. /\ pc[w] # "idle" /\ (Goto(w, "next") \/ Goto(w, "idle"))
      /\ actions' = actions /\ crossed' = crossed
  BY DEF Fail, Crash, At, table
<1>2. QED
  BY <1>1, NothingAdded DEF Labels, Procs

LEMMA OneLiveAsk ==
    ASSUME TypeInv, OneLiveInv, NEW a \in Askers, AskCheck(a) \/ AskInsert(a), kind' = kind
    PROVE  OneLiveInv'
<1> a \in Procs /\ a \notin Workers
  BY EventBusAssumption DEF Procs
<1>1. CASE AskCheck(a)
  <2>1. crossed' = {} => crossed = {} /\ Passing \cup Asking = {}
    BY <1>1 DEF AskCheck
  <2>2. QED
    BY <1>1, <2>1, AboutToAdd DEF AskCheck, table
<1>2. CASE AskInsert(a)
  <2>1. pc[a] = "insert" /\ Goto(a, "idle") /\ crossed' = crossed
    BY <1>2 DEF AskInsert
  <2> DEFINE row == Proposed("chase", AskedFor[a], 0, a)
  <2>2. /\ row \in Action /\ actions' = Append(actions, row)
        /\ row.tool = "chase" /\ row.customer = AskedFor[a]
    <3>1. AskedFor[a] \in Customers
      BY DEF Customers
    <3>2. QED
      BY <1>2, <3>1 DEF AskInsert, Proposed, Action
  <2> HIDE DEF row
  <2>3. crossed = {} => ~Blocked(row.tool, row.customer)
    BY <2>1, <2>2 DEF OneLiveInv, CheckHolds
  <2>4. crossed = {} => Unlike(actions')
    BY <2>2, <2>3, UnblockedIsUnlike, LiveIsUnlike DEF OneLiveInv, TypeInv, TypeOK
  <2>5. QED
    BY <2>1, <2>4, NothingAdded DEF Labels
<1>3. QED
  BY <1>1, <1>2

LEMMA OneLiveAtFirst == Init => OneLiveInv
BY DEF Init, OneLiveInv, OneAtATime, CheckHolds, OneLiveProposal, Procs

LEMMA OneLiveStays == TypeInv /\ OneLiveInv /\ [Next]_vars => OneLiveInv'
<1> SUFFICES ASSUME TypeInv, OneLiveInv, [Next]_vars PROVE OneLiveInv'
  OBVIOUS
<1>1. CASE UNCHANGED vars
  BY <1>1 DEF vars, table, OneLiveInv, OneAtATime, CheckHolds, OneLiveProposal, Blocked,
              Tool, Current, Oldest
<1>2. CASE Next
  BY <1>2, OneLiveWorld, OneLiveStep, OneLiveFault, OneLiveAsk DEF Next
<1>3. QED
  BY <1>1, <1>2

\* However often a pass is repeated, fails or dies, a customer has one live
\* reminder and one live hold, as long as nothing overlaps.
THEOREM ProposesOnce == Spec => []OneLiveProposal
<1>1. OneLiveInv => OneLiveProposal
  BY DEF OneLiveInv
<1>2. QED
  BY <1>1, OneLiveAtFirst, OneLiveStays, TypeCorrect, PTL DEF Spec

-----------------------------------------------------------------------------
(* The link between an event and its action.                               *)

\* What an open transaction has marked names no action.
MarksNameNothing == \A w \in Workers : \A m \in marks[w] : m.action = 0

\* The action a pass is about to tie is its own, is about its event's
\* customer, and no closing names it yet.
MineIsMine ==
    \A w \in Workers : pc[w] = "close" /\ made[w] # 0 =>
        /\ actions[made[w]].asked_by = w
        /\ actions[made[w]].customer = CustomerOf[Current(w)]
        /\ \A m \in closing : m.action # made[w]

\* What is closed says so.
ClosedAreClosed == \A m \in closing : status[m.event] = "closed"

\* A process between passes has no batch and no open transaction.
NothingWhenIdle == \A w \in Workers :
    /\ pc[w] = "idle" => batch[w] = {} /\ marks[w] = {}
    /\ pc[w] = "fetch" => batch[w] = {}

\* What a lone pass has in hand, or has marked, is still pending.
HandsArePending == "passes" \notin crossed =>
    /\ \A v, w \in Workers : pc[v] # "idle" /\ pc[w] # "idle" => v = w
    /\ \A w \in Workers :
          /\ \A e \in batch[w] \cup Closed(marks[w]) : status[e] = "pending"
          /\ batch[w] \cap Closed(marks[w]) = {}

\* A draft that is tied is named by a closing.
TiedIsNamed == "passes" \notin crossed =>
    \A i \in DOMAIN actions : actions[i].tool = "chase" /\ actions[i].event # 0 =>
        \E m \in closing : m.event = actions[i].event /\ m.action = i

LinkInv == /\ MarksNameNothing /\ MineIsMine /\ ClosingsNameTheirAction
           /\ ClosedAreClosed /\ NothingWhenIdle /\ HandsArePending /\ TiedIsNamed

\* Rows that are in the ledger stay, and stay what they were but for their
\* outcome; a new one is a hold or is not tied.
RowsStay ==
    /\ \A i \in DOMAIN actions :
          /\ i \in DOMAIN actions'
          /\ actions'[i].tool = actions[i].tool
          /\ actions'[i].customer = actions[i].customer
          /\ actions'[i].event = actions[i].event
          /\ actions'[i].asked_by = actions[i].asked_by
    /\ \A i \in DOMAIN actions' \ DOMAIN actions :
          actions'[i].tool = "chase" => actions'[i].event = 0

\* The row a pass holds is in the ledger.
LEMMA MineIsThere ==
    ASSUME TypeInv, NEW w \in Workers, made[w] # 0
    PROVE  made[w] \in DOMAIN actions
BY LenProperties DEF TypeInv, TypeOK

LEMMA ClosedAreFacts ==
    ASSUME NEW S \in SUBSET Closing
    PROVE  Closed(S) \subseteq Facts
BY DEF Closed, Closing

\* What a commit makes visible.
LEMMA CommitShows ==
    ASSUME TypeInv, LinkInv, NEW w \in Workers, NEW S \in SUBSET Closing, Commit(w, S),
           pc[w] # "idle", Closed(S) \subseteq Closed(marks[w]) \cup batch[w]
    PROVE  /\ ClosedAreClosed'
           /\ closing' \subseteq closing \cup S /\ S \subseteq closing'
           /\ "passes" \notin crossed => closing \subseteq closing'
           /\ \A e \in Facts : e \notin Closed(S) => status'[e] = status[e]
           /\ marks'[w] = {} /\ \A v \in Workers \ {w} : marks'[v] = marks[v]
<1>1. /\ status' = [e \in Facts |-> IF e \in Closed(S) THEN "closed" ELSE status[e]]
      /\ closing' = {m \in closing : m.event \notin Closed(S)} \cup S
      /\ marks' = [marks EXCEPT ![w] = {}]
  BY DEF Commit
<1>2. closing \subseteq Closing /\ marks \in [Workers -> SUBSET Closing]
  BY DEF TypeInv, TypeOK
<1>3. \A m \in S \cup closing : m.event \in Facts
  BY <1>2 DEF Closing
<1>4. \A m \in S : m.event \in Closed(S)
  BY DEF Closed
<1>5. \A m \in closing' : status'[m.event] = "closed"
  BY <1>1, <1>3, <1>4 DEF LinkInv, ClosedAreClosed
<1>6. "passes" \notin crossed => \A m \in closing : m.event \notin Closed(S)
  <2>1. SUFFICES ASSUME "passes" \notin crossed, NEW m \in closing, m.event \in Closed(S)
                 PROVE  FALSE
    OBVIOUS
  <2>2. status[m.event] = "pending"
    BY <2>1 DEF LinkInv, HandsArePending
  <2>3. QED
    BY <2>2 DEF LinkInv, ClosedAreClosed
<1>7. QED
  BY <1>1, <1>2, <1>5, <1>6 DEF ClosedAreClosed

\* ... and what it leaves in hand.
LEMMA CommitHands ==
    ASSUME TypeInv, LinkInv, NEW w \in Workers, NEW S \in SUBSET Closing, Commit(w, S),
           pc[w] # "idle", Closed(S) \subseteq Closed(marks[w]) \cup batch[w],
           NEW label \in Labels \ {"fetch"}, Goto(w, label), crossed' = crossed,
           \A v \in Workers \ {w} : batch'[v] = batch[v], batch'[w] \subseteq batch[w],
           "passes" \notin crossed => batch'[w] \cap Closed(S) = {},
           label = "idle" => batch'[w] = {}
    PROVE  MarksNameNothing' /\ NothingWhenIdle' /\ HandsArePending'
<1>1. /\ marks'[w] = {} /\ pc'[w] = label
      /\ \A v \in Workers \ {w} : marks'[v] = marks[v] /\ pc'[v] = pc[v]
  BY CommitShows DEF Goto, TypeInv, TypeOK
<1>2. MarksNameNothing'
  BY <1>1 DEF MarksNameNothing, LinkInv
<1>3. NothingWhenIdle'
  BY <1>1 DEF NothingWhenIdle, LinkInv
<1>4. ASSUME "passes" \notin crossed
      PROVE  \A v \in Workers \ {w} : pc[v] = "idle" /\ batch[v] = {} /\ marks[v] = {}
  BY <1>4 DEF LinkInv, HandsArePending, NothingWhenIdle
<1>5. Closed({}) = {}
  BY DEF Closed
<1>6. ASSUME "passes" \notin crossed
      PROVE  \A e \in batch'[w] : status'[e] = "pending"
  <2>1. \A e \in batch'[w] : status[e] = "pending" /\ e \notin Closed(S) /\ e \in Facts
    BY <1>6 DEF LinkInv, HandsArePending, TypeInv, TypeOK
  <2>2. QED
    BY <2>1, CommitShows
<1>7. HandsArePending'
  <2>1. SUFFICES ASSUME "passes" \notin crossed
                 PROVE  /\ \A v, u \in Workers : pc'[v] # "idle" /\ pc'[u] # "idle" => v = u
                        /\ \A v \in Workers :
                             /\ \A e \in batch'[v] \cup Closed(marks'[v]) : status'[e] = "pending"
                             /\ batch'[v] \cap Closed(marks'[v]) = {}
    BY DEF HandsArePending, Closed
  <2>2. \A v \in Workers \ {w} : pc'[v] = "idle" /\ batch'[v] = {} /\ marks'[v] = {}
    BY <1>1, <1>4, <2>1
  <2>3. QED
    BY <1>1, <1>5, <1>6, <2>1, <2>2
<1>8. QED
  BY <1>2, <1>3, <1>7

\* A step that leaves the tables alone and does not come to a closing of an action.
LEMMA LocalStepKeepsLinks ==
    ASSUME TypeInv, LinkInv, NEW w \in Workers, table' = table, kind' = kind,
           "passes" \in crossed => "passes" \in crossed',
           \A v \in Workers \ {w} : /\ pc'[v] = pc[v] /\ batch'[v] = batch[v]
                                    /\ made'[v] = made[v] /\ marks'[v] = marks[v],
           ~(pc'[w] = "close" /\ made'[w] # 0),
           \A m \in marks'[w] : m.action = 0,
           pc'[w] = "idle" => batch'[w] = {} /\ marks'[w] = {},
           pc'[w] = "fetch" => batch'[w] = {},
           HandsArePending'
    PROVE  LinkInv'
<1> USE DEF LinkInv
<1>1. status' = status /\ closing' = closing /\ actions' = actions
  BY DEF table
<1>2. MarksNameNothing' /\ NothingWhenIdle'
  BY DEF MarksNameNothing, NothingWhenIdle
<1>3. MineIsMine'
  <2>1. \A v \in Workers \ {w} : Current(v)' = Current(v)
    BY DEF Current, Oldest
  <2>2. QED
    BY <1>1, <2>1 DEF MineIsMine
<1>4. ClosingsNameTheirAction' /\ ClosedAreClosed'
  BY <1>1 DEF ClosingsNameTheirAction, ClosedAreClosed
<1>5. TiedIsNamed'
  BY <1>1 DEF TiedIsNamed
<1>6. QED
  BY <1>2, <1>3, <1>4, <1>5

\* What a lone pass has in hand after a step that leaves the tables alone.
LEMMA LocalHands ==
    ASSUME TypeInv, LinkInv, NEW w \in Workers, table' = table,
           "passes" \notin crossed' =>
              "passes" \notin crossed /\ \A v \in Workers \ {w} : pc[v] = "idle",
           \A v \in Workers \ {w} : /\ pc'[v] = pc[v] /\ batch'[v] = batch[v]
                                    /\ marks'[v] = marks[v],
           "passes" \notin crossed' =>
              \A e \in batch'[w] \cup Closed(marks'[w]) : status[e] = "pending",
           "passes" \notin crossed' => batch'[w] \cap Closed(marks'[w]) = {}
    PROVE  HandsArePending'
<1>1. status' = status
  BY DEF table
<1>2. Closed({}) = {}
  BY DEF Closed
<1>3. \A v \in Workers : Closed(marks[v])' = Closed(marks'[v])
  BY DEF Closed
<1>4. ASSUME "passes" \notin crossed'
      PROVE  \A v \in Workers \ {w} : pc'[v] = "idle" /\ batch'[v] = {} /\ marks'[v] = {}
  BY <1>4 DEF LinkInv, NothingWhenIdle
<1>5. QED
  BY <1>1, <1>2, <1>3, <1>4 DEF HandsArePending

\* Rows and closings that stay keep naming each other.
LEMMA NamesStay ==
    ASSUME TypeInv, LinkInv, RowsStay, closing' = closing, crossed' = crossed
    PROVE  ClosingsNameTheirAction' /\ TiedIsNamed'
<1>1. ClosingsNameTheirAction'
  BY DEF ClosingsNameTheirAction, LinkInv, RowsStay
<1>2. TiedIsNamed'
  BY DEF TiedIsNamed, LinkInv, RowsStay
<1>3. QED
  BY <1>1, <1>2

LEMMA RowsStayMine ==
    ASSUME TypeInv, LinkInv, RowsStay, NEW v \in Workers, kind' = kind,
           pc'[v] = pc[v], made'[v] = made[v], batch'[v] = batch[v],
           pc[v] = "close", made[v] # 0
    PROVE  /\ actions'[made'[v]].asked_by = v
           /\ actions'[made'[v]].customer = CustomerOf[Current(v)']
<1>1. made[v] \in DOMAIN actions
  BY MineIsThere
<1>2. Current(v)' = Current(v)
  BY DEF Current, Oldest
<1>3. QED
  BY <1>1, <1>2 DEF RowsStay, LinkInv, MineIsMine

\* A outcome, or an asked draft: rows stay, and no pass moves.
LEMMA RowsOnlyKeepLinks ==
    ASSUME TypeInv, LinkInv, RowsStay, kind' = kind,
           UNCHANGED <<status, closing, batch, made, marks, crossed>>,
           \A w \in Workers : pc'[w] = pc[w]
    PROVE  LinkInv'
<1>1. ClosingsNameTheirAction' /\ TiedIsNamed'
  BY NamesStay
<1>2. MineIsMine'
  BY RowsStayMine DEF MineIsMine, LinkInv
<1>3. MarksNameNothing' /\ ClosedAreClosed' /\ NothingWhenIdle'
  BY DEF LinkInv, MarksNameNothing, ClosedAreClosed, NothingWhenIdle
<1>4. HandsArePending'
  BY DEF LinkInv, HandsArePending, Closed
<1>5. QED
  BY <1>1, <1>2, <1>3, <1>4 DEF LinkInv

LEMMA WorldKeepsLinks ==
    ASSUME TypeInv, LinkInv, World, kind' = kind
    PROVE  LinkInv'
<1>1. ASSUME NEW e \in Facts, Emit(e) \/ GrowOld(e)
      PROVE  LinkInv'
  <2>1. /\ UNCHANGED <<closing, actions, pc, batch, made, marks, crossed>>
        /\ \A f \in Facts : status[f] # "absent" => status'[f] = status[f]
    BY <1>1 DEF Emit, GrowOld, TypeInv, TypeOK
  <2>2. closing \subseteq Closing /\ \A w \in Workers : batch[w] \subseteq Facts
    BY DEF TypeInv, TypeOK
  <2>3. \A w \in Workers : Closed(marks[w]) \subseteq Facts
    BY ClosedAreFacts DEF TypeInv, TypeOK
  <2>4. ClosedAreClosed'
    BY <2>1, <2>2 DEF LinkInv, ClosedAreClosed, Closing
  <2>5. HandsArePending'
    <3>1. \A w \in Workers : Closed(marks[w])' = Closed(marks[w])
      BY <2>1 DEF Closed
    <3>2. QED
      BY <2>1, <2>2, <2>3, <3>1 DEF LinkInv, HandsArePending
  <2>6. \A w \in Workers : Current(w)' = Current(w)
    BY <2>1 DEF Current, Oldest
  <2>7. QED
    BY <2>1, <2>4, <2>5, <2>6
    DEF LinkInv, MarksNameNothing, MineIsMine, ClosingsNameTheirAction, NothingWhenIdle, TiedIsNamed
<1>2. ASSUME NEW i \in DOMAIN actions, Decide(i)
      PROVE  LinkInv'
  <2>1. PICK outcome \in {"rejected", "executed"} :
           actions' = [actions EXCEPT ![i] = [actions[i] EXCEPT !.status = outcome]]
    BY <1>2 DEF Decide
  <2>2. DOMAIN actions' = DOMAIN actions
    BY <2>1
  <2>3. RowsStay
    <3>1. \A j \in DOMAIN actions : actions[j] \in Action
      BY DEF TypeInv, TypeOK
    <3>2. \A j \in DOMAIN actions :
             actions'[j] \in {actions[j], [actions[j] EXCEPT !.status = outcome]}
      BY <2>1
    <3>3. QED
      BY <2>2, <3>1, <3>2 DEF RowsStay, Action
  <2>4. QED
    BY <1>2, <2>3, RowsOnlyKeepLinks DEF Decide
<1>3. QED
  BY <1>1, <1>2 DEF World

LEMMA AskKeepsLinks ==
    ASSUME TypeInv, LinkInv, NEW a \in Askers, AskCheck(a) \/ AskInsert(a), kind' = kind
    PROVE  LinkInv'
<1>1. a \notin Workers
  BY EventBusAssumption
<1>2. \A w \in Workers : pc'[w] = pc[w]
  BY <1>1 DEF AskCheck, AskInsert, Goto, TypeInv, TypeOK
<1>3. CASE AskCheck(a)
  <2>1. /\ UNCHANGED <<table, batch, made, marks>>
        /\ "passes" \in crossed' <=> "passes" \in crossed
    BY <1>3 DEF AskCheck
  <2>2. \A w \in Workers : Current(w)' = Current(w) /\ Closed(marks[w])' = Closed(marks[w])
    BY <2>1 DEF Current, Oldest, Closed
  <2>3. QED
    BY <1>2, <2>1, <2>2
    DEF LinkInv, MarksNameNothing, MineIsMine, ClosingsNameTheirAction, NothingWhenIdle,
        TiedIsNamed, ClosedAreClosed, HandsArePending, table
<1>4. CASE AskInsert(a)
  <2> DEFINE row == Proposed("chase", AskedFor[a], 0, a)
  <2>1. AskedFor[a] \in Customers
    BY DEF Customers
  <2>2. row \in Action /\ row.event = 0 /\ actions' = Append(actions, row)
    BY <1>4, <2>1 DEF AskInsert, Proposed, Action
  <2> HIDE DEF row
  <2>3. RowsStay
    BY <2>2, RowMore DEF RowsStay, TypeInv, TypeOK
  <2>4. QED
    BY <1>2, <1>4, <2>3, RowsOnlyKeepLinks DEF AskInsert
<1>5. QED
  BY <1>3, <1>4

LEMMA FaultKeepsLinks ==
    ASSUME TypeInv, LinkInv, NEW w \in Workers, Fail(w) \/ Crash(w), kind' = kind
    PROVE  LinkInv'
<1>1. /\ UNCHANGED <<table, made, crossed>> /\ pc[w] # "idle" /\ Rollback(w)
      /\ \/ Goto(w, "next") /\ batch' = [batch EXCEPT ![w] = @ \ {Current(w)}]
         \/ Goto(w, "idle") /\ batch' = [batch EXCEPT ![w] = {}]
  BY DEF Fail, Crash, At
<1>2. /\ \A v \in Workers \ {w} : /\ pc'[v] = pc[v] /\ batch'[v] = batch[v]
                                  /\ made'[v] = made[v] /\ marks'[v] = marks[v]
      /\ pc'[w] \in {"next", "idle"} /\ batch'[w] \subseteq batch[w] /\ marks'[w] = {}
      /\ pc'[w] = "idle" => batch'[w] = {}
  BY <1>1 DEF Goto, Rollback, TypeInv, TypeOK
<1>3. Closed(marks'[w]) = {}
  BY <1>2 DEF Closed
<1>4. "passes" \notin crossed =>
         /\ \A v \in Workers \ {w} : pc[v] = "idle"
         /\ \A e \in batch'[w] : status[e] = "pending"
  BY <1>1, <1>2 DEF LinkInv, HandsArePending
<1>5. HandsArePending'
  BY <1>1, <1>2, <1>3, <1>4, LocalHands
<1>6. QED
  BY <1>1, <1>2, <1>5, LocalStepKeepsLinks

LEMMA ExpireKeepsLinks ==
    ASSUME TypeInv, LinkInv, NEW w \in Workers, ExpireStale(w), kind' = kind
    PROVE  LinkInv'
<1> DEFINE stale   == {e \in aged : status[e] = "pending"}
           expired == {[event |-> e, reason |-> "expired", action |-> 0] : e \in stale}
<1>1. /\ pc[w] = "idle" /\ Goto(w, "fetch") /\ UNCHANGED <<table, batch, made>>
      /\ marks' = [marks EXCEPT ![w] = @ \cup expired]
      /\ "passes" \in crossed => "passes" \in crossed'
      /\ "passes" \notin crossed' => Passing \ {w} = {}
  BY DEF ExpireStale
<1>2. batch[w] = {} /\ marks[w] = {}
  BY <1>1 DEF LinkInv, NothingWhenIdle
<1>3. /\ \A v \in Workers \ {w} : /\ pc'[v] = pc[v] /\ batch'[v] = batch[v]
                                  /\ made'[v] = made[v] /\ marks'[v] = marks[v]
      /\ pc'[w] = "fetch" /\ batch'[w] = {} /\ marks'[w] = expired
  BY <1>1, <1>2 DEF Goto, TypeInv, TypeOK
<1>4. /\ \A m \in expired : m.action = 0
      /\ \A e \in Closed(expired) : status[e] = "pending"
  BY DEF Closed
<1> HIDE DEF expired
<1>5. "passes" \notin crossed' => \A v \in Workers \ {w} : pc[v] = "idle"
  BY <1>1 DEF Passing
<1>6. HandsArePending'
  BY <1>1, <1>3, <1>4, <1>5, LocalHands
<1>7. QED
  BY <1>1, <1>3, <1>4, <1>6, LocalStepKeepsLinks

LEMMA FetchKeepsLinks ==
    ASSUME TypeInv, LinkInv, NEW w \in Workers, Fetch(w), kind' = kind
    PROVE  LinkInv'
<1>1. /\ pc[w] = "fetch" /\ Goto(w, "next") /\ UNCHANGED <<table, made, marks, crossed>>
      /\ batch'[w] \subseteq Free(w)
      /\ \A v \in Workers \ {w} : batch'[v] = batch[v]
  BY DEF Fetch, TypeInv, TypeOK
<1>2. pc'[w] = "next" /\ \A v \in Workers \ {w} : pc'[v] = pc[v]
  BY <1>1 DEF Goto, TypeInv, TypeOK
<1>3. \A e \in Free(w) : status[e] = "pending" /\ e \notin Closed(marks[w])
  BY DEF Free
<1>4. "passes" \notin crossed =>
         /\ \A v \in Workers \ {w} : pc[v] = "idle"
         /\ \A e \in Closed(marks[w]) : status[e] = "pending"
  BY <1>1 DEF LinkInv, HandsArePending
<1>5. HandsArePending'
  BY <1>1, <1>2, <1>3, <1>4, LocalHands
<1>6. \A m \in marks'[w] : m.action = 0
  BY <1>1 DEF LinkInv, MarksNameNothing
<1>7. QED
  BY <1>1, <1>2, <1>5, <1>6, LocalStepKeepsLinks

LEMMA SkipKeepsLinks ==
    ASSUME TypeInv, LinkInv, NEW w \in Workers, Skip(w), kind' = kind
    PROVE  LinkInv'
<1> DEFINE mark == [event |-> Current(w), reason |-> "no handler", action |-> 0]
<1>1. /\ pc[w] = "next" /\ batch[w] # {} /\ UNCHANGED <<table, pc, made, crossed>>
      /\ batch' = [batch EXCEPT ![w] = @ \ {Current(w)}]
      /\ marks' = [marks EXCEPT ![w] = @ \cup {mark}]
  BY DEF Skip, At
<1>0. mark.event = Current(w) /\ mark.action = 0
  OBVIOUS
<1> HIDE DEF mark
<1>2. /\ \A v \in Workers \ {w} : batch'[v] = batch[v] /\ marks'[v] = marks[v]
      /\ batch'[w] = batch[w] \ {Current(w)} /\ marks'[w] = marks[w] \cup {mark}
  BY <1>1 DEF TypeInv, TypeOK
<1>3. Closed(marks'[w]) = Closed(marks[w]) \cup {Current(w)} /\ Current(w) \in batch[w]
  BY <1>0, <1>1, <1>2, CurrentIsInBatch DEF Closed, TypeInv
<1>4. "passes" \notin crossed =>
         /\ \A v \in Workers \ {w} : pc[v] = "idle"
         /\ \A e \in batch[w] \cup Closed(marks[w]) : status[e] = "pending"
         /\ batch[w] \cap Closed(marks[w]) = {}
  BY <1>1 DEF LinkInv, HandsArePending
<1>5. \A m \in marks'[w] : m.action = 0
  BY <1>0, <1>2 DEF LinkInv, MarksNameNothing
<1>6. HandsArePending'
  <2>1. "passes" \notin crossed =>
           /\ \A e \in batch'[w] \cup Closed(marks'[w]) : status[e] = "pending"
           /\ batch'[w] \cap Closed(marks'[w]) = {}
    BY <1>2, <1>3, <1>4
  <2>2. QED
    BY <1>1, <1>2, <1>4, <2>1, LocalHands
<1>7. QED
  BY <1>1, <1>2, <1>5, <1>6, LocalStepKeepsLinks

\* Noting, and checking for a duplicate, leave everything in hand.
LEMMA MoveKeepsLinks ==
    ASSUME TypeInv, LinkInv, NEW w \in Workers, Note(w) \/ CheckDuplicate(w), kind' = kind
    PROVE  LinkInv'
<1>1. /\ pc[w] # "idle" /\ UNCHANGED <<table, batch, marks, crossed>>
      /\ made' = [made EXCEPT ![w] = 0]
      /\ (Goto(w, "close") \/ Goto(w, "insert"))
  BY DEF Note, CheckDuplicate, At
<1>2. /\ pc'[w] \in {"close", "insert"} /\ made'[w] = 0
      /\ \A v \in Workers \ {w} : pc'[v] = pc[v] /\ made'[v] = made[v]
  BY <1>1 DEF Goto, TypeInv, TypeOK
<1>3. "passes" \notin crossed =>
         /\ \A v \in Workers \ {w} : pc[v] = "idle"
         /\ \A e \in batch[w] \cup Closed(marks[w]) : status[e] = "pending"
         /\ batch[w] \cap Closed(marks[w]) = {}
  BY <1>1 DEF LinkInv, HandsArePending
<1>4. HandsArePending'
  BY <1>1, <1>2, <1>3, LocalHands
<1>5. \A m \in marks'[w] : m.action = 0
  BY <1>1 DEF LinkInv, MarksNameNothing
<1>6. QED
  BY <1>1, <1>2, <1>4, <1>5, LocalStepKeepsLinks

\* Committing what was marked, with the ledger as it was or a row longer.
LEMMA MarksCommitKeepsLinks ==
    ASSUME TypeInv, LinkInv, NEW w \in Workers, pc[w] # "idle", Commit(w, marks[w]),
           NEW label \in Labels \ {"fetch"}, Goto(w, label), crossed' = crossed,
           batch' = batch, label = "idle" => batch[w] = {}, kind' = kind, RowsStay,
           \A v \in Workers \ {w} : made'[v] = made[v],
           label = "close" /\ made'[w] # 0 =>
              /\ made'[w] \notin DOMAIN actions
              /\ actions'[made'[w]].asked_by = w
              /\ actions'[made'[w]].customer = CustomerOf[Current(w)]
    PROVE  LinkInv'
<1> DEFINE S == marks[w]
<1>1. S \in SUBSET Closing
  BY DEF TypeInv, TypeOK
<1>2. /\ ClosedAreClosed' /\ closing' \subseteq closing \cup S
      /\ "passes" \notin crossed => closing \subseteq closing'
  BY <1>1, CommitShows
<1>3. /\ \A v \in Workers \ {w} : pc'[v] = pc[v]
      /\ pc'[w] = label /\ \A v \in Workers : Current(v)' = Current(v)
  BY DEF Goto, TypeInv, TypeOK, Current, Oldest
<1>4. \A m \in closing' : m.action # 0 => m \in closing
  BY <1>2 DEF LinkInv, MarksNameNothing
<1>5. MarksNameNothing' /\ NothingWhenIdle' /\ HandsArePending'
  <2>1. "passes" \notin crossed => batch'[w] \cap Closed(S) = {}
    BY DEF LinkInv, HandsArePending
  <2>2. Closed(S) \subseteq Closed(marks[w]) \cup batch[w]
    OBVIOUS
  <2>3. QED
    BY <1>1, <2>1, <2>2, CommitHands
<1>6. ClosingsNameTheirAction'
  BY <1>4 DEF LinkInv, ClosingsNameTheirAction, RowsStay
<1>7. TiedIsNamed'
  BY <1>2 DEF LinkInv, TiedIsNamed, RowsStay
<1>8. MineIsMine'
  <2>1. SUFFICES ASSUME NEW v \in Workers, pc'[v] = "close", made'[v] # 0
                 PROVE  /\ actions'[made'[v]].asked_by = v
                        /\ actions'[made'[v]].customer = CustomerOf[Current(v)']
                        /\ \A m \in closing' : m.action # made'[v]
    BY DEF MineIsMine
  <2>2. CASE v # w
    <3>1. pc[v] = "close" /\ made[v] # 0 /\ made'[v] = made[v]
      BY <1>3, <2>1, <2>2
    <3>2. QED
      BY <1>4, <2>1, <3>1, RowsStayMine DEF LinkInv, MineIsMine
  <2>3. CASE v = w
    <3>1. \A m \in closing' : m.action # 0 => m.action \in DOMAIN actions
      BY <1>4 DEF LinkInv, ClosingsNameTheirAction
    <3>2. QED
      BY <1>3, <2>1, <2>3, <3>1
  <2>4. QED
    BY <2>2, <2>3
<1>9. QED
  BY <1>2, <1>5, <1>6, <1>7, <1>8 DEF LinkInv

LEMMA InsertKeepsLinks ==
    ASSUME TypeInv, LinkInv, NEW w \in Workers, Insert(w), kind' = kind
    PROVE  LinkInv'
<1> DEFINE a == Proposed(Tool(Current(w)), CustomerOf[Current(w)],
                         IF kind[Current(w)] = "hold" THEN Current(w) ELSE 0, w)
<1>1. /\ pc[w] = "insert" /\ batch[w] # {} /\ Goto(w, "close") /\ Commit(w, marks[w])
      /\ UNCHANGED <<aged, batch, crossed, faults>>
      /\ made' = [made EXCEPT ![w] = Len(actions')]
  BY DEF Insert, At
<1>2. a \in Action /\ actions' = Append(actions, a)
  BY <1>1, ProposalFits DEF Insert
<1>3. /\ a.asked_by = w /\ a.customer = CustomerOf[Current(w)]
      /\ a.tool = "chase" => a.event = 0
  BY DEF Proposed, Tool
<1> HIDE DEF a
<1>4. /\ RowsStay /\ Len(actions') \notin DOMAIN actions /\ actions'[Len(actions')] = a
  BY <1>2, <1>3, RowMore DEF RowsStay, TypeInv, TypeOK
<1>5. made'[w] = Len(actions') /\ \A v \in Workers \ {w} : made'[v] = made[v]
  BY <1>1 DEF TypeInv, TypeOK
<1>6. QED
  BY <1>1, <1>3, <1>4, <1>5, MarksCommitKeepsLinks DEF Labels

LEMMA MarksOnlyKeepLinks ==
    ASSUME TypeInv, LinkInv, NEW w \in Workers, EndPass(w) \/ VoidPause(w), kind' = kind
    PROVE  LinkInv'
<1>1. /\ pc[w] = "next" /\ Commit(w, marks[w]) /\ UNCHANGED <<actions, batch, made, crossed>>
      /\ (Goto(w, "check") \/ (Goto(w, "idle") /\ batch[w] = {}))
  BY DEF EndPass, VoidPause, At
<1>2. RowsStay
  BY <1>1 DEF RowsStay
<1>3. QED
  BY <1>1, <1>2, MarksCommitKeepsLinks DEF Labels

LEMMA CloseKeepsLinks ==
    ASSUME TypeInv, LinkInv, NEW w \in Workers, Close(w), kind' = kind
    PROVE  LinkInv'
<1> DEFINE e == Current(w)
           S == marks[w] \cup {How(w)}
<1>1. /\ pc[w] = "close" /\ batch[w] # {} /\ Goto(w, "next") /\ Commit(w, S)
      /\ actions' = IF made[w] = 0 THEN actions ELSE [actions EXCEPT ![made[w]].event = e]
      /\ batch' = [batch EXCEPT ![w] = @ \ {e}]
      /\ made' = made /\ crossed' = crossed
  BY DEF Close, At
<1>2. /\ e \in batch[w] /\ S \in SUBSET Closing
      /\ How(w).event = e /\ How(w).action = made[w]
  BY <1>1, CurrentIsInBatch, HowFits DEF TypeInv, TypeOK, How
<1>3. Closed(S) = Closed(marks[w]) \cup {e}
  BY <1>2 DEF Closed
<1>4. \A m \in S : m.action # 0 => m = How(w)
  BY DEF LinkInv, MarksNameNothing
<1>5. How(w) \in S
  OBVIOUS
<1> HIDE DEF S
<1>6. /\ pc'[w] = "next" /\ batch'[w] = batch[w] \ {e}
      /\ \A v \in Workers \ {w} : pc'[v] = pc[v] /\ batch'[v] = batch[v]
  BY <1>1 DEF Goto, TypeInv, TypeOK
<1>7. /\ ClosedAreClosed' /\ closing' \subseteq closing \cup S /\ S \subseteq closing'
      /\ "passes" \notin crossed => closing \subseteq closing'
  BY <1>1, <1>2, <1>3, CommitShows
<1>8. MarksNameNothing' /\ NothingWhenIdle' /\ HandsArePending'
  <2>1. "passes" \notin crossed => batch'[w] \cap Closed(S) = {}
    BY <1>3, <1>6 DEF LinkInv, HandsArePending
  <2>2. Closed(S) \subseteq Closed(marks[w]) \cup batch[w]
    BY <1>2, <1>3
  <2>3. QED
    BY <1>1, <1>2, <1>6, <2>1, <2>2, CommitHands DEF Labels
\* The row that is tied, and the others.
<1>9. made[w] # 0 => /\ made[w] \in DOMAIN actions
                     /\ actions[made[w]].asked_by = w
                     /\ actions[made[w]].customer = CustomerOf[e]
                     /\ \A m \in closing : m.action # made[w]
  BY <1>1, MineIsThere DEF LinkInv, MineIsMine
<1>10. /\ DOMAIN actions' = DOMAIN actions
       /\ \A i \in DOMAIN actions : /\ actions'[i].tool = actions[i].tool
                                    /\ actions'[i].customer = actions[i].customer
                                    /\ actions'[i].asked_by = actions[i].asked_by
       /\ \A i \in DOMAIN actions : made[w] # i => actions'[i] = actions[i]
       /\ made[w] # 0 => actions'[made[w]].event = e
  <2>1. CASE made[w] = 0
    BY <1>1, <2>1
  <2>2. CASE made[w] # 0
    <3>1. actions' = [actions EXCEPT ![made[w]] = [actions[made[w]] EXCEPT !.event = e]]
      BY <1>1, <2>2
    <3>2. \A i \in DOMAIN actions : actions[i] \in Action
      BY DEF TypeInv, TypeOK
    <3> HIDE DEF e
    <3>3. QED
      BY <1>9, <2>2, <3>1, <3>2 DEF Action
  <2>3. QED
    BY <2>1, <2>2
<1>11. ClosingsNameTheirAction'
  <2>1. SUFFICES ASSUME NEW m \in closing', m.action # 0
                 PROVE  /\ m.action \in DOMAIN actions'
                        /\ actions'[m.action].event = m.event
                        /\ actions'[m.action].customer = CustomerOf[m.event]
    BY DEF ClosingsNameTheirAction
  <2>2. CASE m \in closing
    <3>1. m.action # made[w]
      BY <1>9, <2>1, <2>2
    <3>2. QED
      BY <1>10, <2>1, <2>2, <3>1 DEF LinkInv, ClosingsNameTheirAction
  <2>3. CASE m \in S
    <3>1. m.event = e /\ m.action = made[w]
      BY <1>2, <1>4, <2>1, <2>3
    <3>2. QED
      BY <1>9, <1>10, <2>1, <3>1
  <2>4. QED
    BY <1>7, <2>1, <2>2, <2>3
<1>12. TiedIsNamed'
  <2>1. SUFFICES ASSUME "passes" \notin crossed, NEW i \in DOMAIN actions',
                        actions'[i].tool = "chase", actions'[i].event # 0
                 PROVE  \E m \in closing' : m.event = actions'[i].event /\ m.action = i
    BY <1>1 DEF TiedIsNamed
  <2>2. i \in DOMAIN actions /\ 0 \notin DOMAIN actions
    BY <1>10, <2>1, LenProperties DEF TypeInv, TypeOK
  <2>3. CASE i = made[w]
    BY <1>2, <1>5, <1>7, <1>10, <2>2, <2>3
  <2>4. CASE i # made[w]
    BY <1>7, <1>10, <2>1, <2>2, <2>4 DEF LinkInv, TiedIsNamed
  <2>5. QED
    BY <2>3, <2>4
<1>13. MineIsMine'
  <2>1. SUFFICES ASSUME NEW v \in Workers, pc'[v] = "close", made'[v] # 0
                 PROVE  /\ actions'[made'[v]].asked_by = v
                        /\ actions'[made'[v]].customer = CustomerOf[Current(v)']
                        /\ \A m \in closing' : m.action # made'[v]
    BY DEF MineIsMine
  <2>2. v # w /\ pc[v] = "close" /\ made[v] # 0 /\ made'[v] = made[v]
    BY <1>1, <1>6, <2>1
  <2>3. /\ made[v] \in DOMAIN actions /\ actions[made[v]].asked_by = v
        /\ actions[made[v]].customer = CustomerOf[Current(v)]
        /\ \A m \in closing : m.action # made[v]
    BY <2>2, MineIsThere DEF LinkInv, MineIsMine
  <2>4. made[v] # made[w]
    BY <1>9, <2>2, <2>3
  <2>5. Current(v)' = Current(v)
    BY <1>6, <2>2 DEF Current, Oldest
  <2>6. \A m \in closing' : m.action # made[v]
    BY <1>2, <1>4, <1>7, <2>2, <2>3, <2>4
  <2>7. QED
    BY <1>10, <2>2, <2>3, <2>5, <2>6
<1>14. QED
  BY <1>7, <1>8, <1>11, <1>12, <1>13 DEF LinkInv

LEMMA LinksAtFirst == Init => LinkInv
BY DEF Init, LinkInv, MarksNameNothing, MineIsMine, ClosingsNameTheirAction, ClosedAreClosed,
       NothingWhenIdle, HandsArePending, TiedIsNamed, Closed

LEMMA LinksStay == TypeInv /\ LinkInv /\ [Next]_vars => LinkInv'
<1> SUFFICES ASSUME TypeInv, LinkInv, [Next]_vars PROVE LinkInv'
  OBVIOUS
<1>1. CASE UNCHANGED vars
  <2>1. /\ UNCHANGED <<status, closing, actions, pc, batch, made, marks, crossed>> /\ kind' = kind
    BY <1>1 DEF vars, table
  <2>2. RowsStay
    BY <2>1 DEF RowsStay
  <2>3. QED
    BY <2>1, <2>2, RowsOnlyKeepLinks
<1>2. ASSUME NEW w \in Workers, Step(w), kind' = kind
      PROVE  LinkInv'
  BY <1>2, ExpireKeepsLinks, FetchKeepsLinks, MarksOnlyKeepLinks, SkipKeepsLinks,
     MoveKeepsLinks, InsertKeepsLinks, CloseKeepsLinks DEF Step
<1>3. CASE Next
  BY <1>2, <1>3, WorldKeepsLinks, FaultKeepsLinks, AskKeepsLinks DEF Next
<1>4. QED
  BY <1>1, <1>3

\* The link between an event and its action reads the same from both ends
\* (the closing is written by the transaction that ties the draft): with one
\* pass at a time both ways, and however passes overlap from the closing's end.
THEOREM LinksAlwaysAgree == Spec => []LinksAgree
<1>1. LinkInv => LinksAgree
  BY DEF LinkInv, LinksAgree, DraftsAndClosingsAgree, ClosingsNameTheirAction, TiedIsNamed
<1>2. QED
  BY <1>1, LinksAtFirst, LinksStay, TypeCorrect, PTL DEF Spec

-----------------------------------------------------------------------------
(* The life of an event (EventLife).  A commit shows all that a transaction   *)
(* has closed; that it closes an event once, and none that was never raised,  *)
(* is known of what it holds beforehand: HandsAreOnce.                         *)

OnePerEvent(S) == \A m, n \in S : m.event = n.event => m = n

\* What a pass has in hand or has marked was raised, and it is marked once.
HandsAreOnce ==
    \A w \in Workers :
        /\ OnePerEvent(marks[w])
        /\ \A m \in marks[w] : status[m.event] # "absent" /\ m.event \notin batch[w]
        /\ \A e \in batch[w] : status[e] # "absent"

\* A step of the bus, seen from an event.
LifeStep == Life!Next \/ (UNCHANGED <<status, closing>> /\ ("passes" \in crossed' <=> "passes" \in crossed))

\* One process takes something in hand, marks it or lets it go.
LEMMA HandsStayOnce ==
    ASSUME HandsAreOnce, TypeInv, NEW w \in Workers,
           \A e \in Facts : status[e] # "absent" => status'[e] # "absent",
           \A v \in Workers \ {w} : batch'[v] = batch[v] /\ marks'[v] = marks[v],
           OnePerEvent(marks'[w]), marks'[w] \in SUBSET Closing, batch'[w] \subseteq Facts,
           \A m \in marks'[w] : status[m.event] # "absent" /\ m.event \notin batch'[w],
           \A e \in batch'[w] : status[e] # "absent"
    PROVE  HandsAreOnce'
<1>1. \A v \in Workers : batch[v] \subseteq Facts /\ \A m \in marks[v] : m.event \in Facts
  BY DEF TypeInv, TypeOK, Closing
<1>2. \A m \in marks'[w] : m.event \in Facts
  BY DEF Closing
<1>3. QED
  BY <1>1, <1>2 DEF HandsAreOnce, OnePerEvent

\* A commit is the closing of what it closes.
LEMMA CommitCloses ==
    ASSUME TypeInv, LinkInv, NEW w \in Workers, NEW S \in SUBSET Closing, Commit(w, S),
           pc[w] # "idle", Closed(S) \subseteq Closed(marks[w]) \cup batch[w],
           OnePerEvent(S), \A m \in S : status[m.event] # "absent", crossed' = crossed
    PROVE  LifeStep /\ \A e \in Facts : status[e] # "absent" => status'[e] # "absent"
<1> DEFINE E == Closed(S)
<1>1. /\ status' = [e \in Facts |-> IF e \in E THEN "closed" ELSE status[e]]
      /\ closing' = {m \in closing : m.event \notin E} \cup S
  BY DEF Commit
<1>2. E \subseteq Facts /\ \A m \in S : m.event \in E
  BY ClosedAreFacts DEF Closed
<1>3. \A e \in E : \E m \in S : m.event = e
  BY DEF Closed
<1>4. \A e \in E : status[e] # "absent"
  BY <1>3
<1>5. \A e \in E : "passes" \notin crossed => status[e] = "pending"
  BY DEF LinkInv, HandsArePending
<1> HIDE DEF E
<1>6. status \in [Facts -> {"absent", "pending", "closed"}]
  BY DEF TypeInv, TypeOK
<1>7. CASE E = {}
  <2>1. S = {}
    BY <1>2, <1>7
  <2>2. status' = status /\ closing' = closing
    BY <1>1, <1>6, <1>7, <2>1
  <2>3. QED
    BY <2>2 DEF LifeStep
<1>8. CASE E # {}
  <2>1. \A e \in E : Life!MayClose(e)
    BY <1>2, <1>4, <1>5, <1>6 DEF Life!MayClose
  <2>2. \A e \in E : \E m \in Closing : Life!Of(e)' = {m}
    <3>1. SUFFICES ASSUME NEW e \in E PROVE \E m \in Closing : Life!Of(e)' = {m}
      OBVIOUS
    <3>2. PICK m \in S : m.event = e
      BY <1>3
    <3>3. Life!Of(e)' = {m}
      BY <1>1, <3>2 DEF OnePerEvent, Life!Of
    <3>4. QED
      BY <3>3
  <2>3. \A e \in Facts \ E : Life!Of(e)' = Life!Of(e)
    BY <1>1, <1>2 DEF Life!Of
  <2>4. Life!Close(E)
    BY <1>1, <2>1, <2>2, <2>3 DEF Life!Close
  <2>5. LifeStep
    <3>1. E \in (SUBSET Facts) \ {{}}
      BY <1>2, <1>8
    <3>2. Life!Next
      BY <2>4, <3>1 DEF Life!Next
    <3>3. QED
      BY <3>2 DEF LifeStep
  <2>6. QED
    BY <1>1, <1>6, <2>5
<1>9. QED
  BY <1>7, <1>8

LEMMA CommitKeepsLife ==
    ASSUME TypeInv, LinkInv, HandsAreOnce, NEW w \in Workers,
           EndPass(w) \/ VoidPause(w) \/ Insert(w) \/ Close(w)
    PROVE  LifeStep /\ HandsAreOnce'
<1>1. PICK S \in {marks[w], marks[w] \cup {How(w)}} :
         /\ pc[w] # "idle" /\ Commit(w, S) /\ crossed' = crossed
         /\ \A v \in Workers \ {w} : batch'[v] = batch[v]
         /\ batch'[w] \subseteq batch[w]
         /\ S # marks[w] => batch[w] # {}
  BY DEF EndPass, VoidPause, Insert, Close, At, TypeInv, TypeOK
<1>2. batch[w] # {} => How(w) \in Closing /\ How(w).event = Current(w) /\ Current(w) \in batch[w]
  BY CurrentIsInBatch, HowFits DEF TypeInv, How
<1>3. /\ S \in SUBSET Closing
      /\ \A m \in S : m \in marks[w] \/ (m = How(w) /\ m.event = Current(w) /\ Current(w) \in batch[w])
  BY <1>1, <1>2 DEF TypeInv, TypeOK
<1>4. \A m \in S : status[m.event] # "absent" /\ m.event \in Closed(marks[w]) \cup batch[w]
  BY <1>3 DEF HandsAreOnce, Closed
<1>5. OnePerEvent(S)
  BY <1>3 DEF HandsAreOnce, OnePerEvent
<1>6. Closed(S) \subseteq Closed(marks[w]) \cup batch[w]
  BY <1>4 DEF Closed
<1>7. LifeStep /\ \A e \in Facts : status[e] # "absent" => status'[e] # "absent"
  BY <1>1, <1>3, <1>4, <1>5, <1>6, CommitCloses
<1>8. marks'[w] = {} /\ \A v \in Workers \ {w} : marks'[v] = marks[v]
  BY <1>1 DEF Commit, TypeInv, TypeOK
<1>9. HandsAreOnce'
  <2>1. batch'[w] \subseteq Facts /\ \A e \in batch'[w] : status[e] # "absent"
    BY <1>1 DEF HandsAreOnce, TypeInv, TypeOK
  <2>2. OnePerEvent(marks'[w]) /\ marks'[w] \in SUBSET Closing
    BY <1>8 DEF OnePerEvent
  <2>3. QED
    BY <1>1, <1>7, <1>8, <2>1, <2>2, HandsStayOnce
<1>10. QED
  BY <1>7, <1>9

\* Every other step of a pass leaves the tables alone.
LEMMA PassKeepsLife ==
    ASSUME TypeInv, LinkInv, HandsAreOnce, NEW w \in Workers,
           \/ ExpireStale(w) \/ Fetch(w) \/ Skip(w) \/ Note(w) \/ CheckDuplicate(w)
           \/ Fail(w) \/ Crash(w)
    PROVE  LifeStep /\ HandsAreOnce'
<1>1. /\ UNCHANGED <<status, closing>>
      /\ "passes" \in crossed => "passes" \in crossed'
      /\ \A v \in Workers \ {w} : batch'[v] = batch[v] /\ marks'[v] = marks[v]
  BY DEF ExpireStale, Fetch, Skip, Note, CheckDuplicate, Fail, Crash, Rollback, table, TypeInv, TypeOK
<1>2. LifeStep
  <2>1. CASE "passes" \in crossed' /\ "passes" \notin crossed
    <3>1. ("passes" \in crossed') = TRUE
      BY <2>1
    <3>2. Life!Overlap
      BY <1>1, <3>1 DEF Life!Overlap
    <3>3. QED
      BY <3>2 DEF LifeStep, Life!Next
  <2>2. QED
    BY <1>1, <2>1 DEF LifeStep
<1>3. /\ OnePerEvent(marks'[w]) /\ marks'[w] \in SUBSET Closing /\ batch'[w] \subseteq Facts
      /\ \A m \in marks'[w] : status[m.event] # "absent" /\ m.event \notin batch'[w]
      /\ \A e \in batch'[w] : status[e] # "absent"
  <2>0. /\ marks[w] \in SUBSET Closing /\ batch[w] \subseteq Facts /\ OnePerEvent(marks[w])
        /\ \A m \in marks[w] : status[m.event] # "absent" /\ m.event \notin batch[w]
        /\ \A e \in batch[w] : status[e] # "absent"
    BY DEF HandsAreOnce, TypeInv, TypeOK
  <2>1. CASE ExpireStale(w)
    <3> DEFINE stale   == {e \in aged : status[e] = "pending"}
               expired == {[event |-> e, reason |-> "expired", action |-> 0] : e \in stale}
    <3>1. pc[w] = "idle" /\ batch' = batch /\ marks' = [marks EXCEPT ![w] = @ \cup expired]
      BY <2>1 DEF ExpireStale
    <3>2. batch[w] = {} /\ marks[w] = {} /\ stale \subseteq Facts
      BY <3>1 DEF LinkInv, NothingWhenIdle, TypeInv, TypeOK
    <3>3. marks'[w] = expired /\ batch'[w] = {}
      BY <3>1, <3>2 DEF TypeInv, TypeOK
    <3>4. expired \subseteq Closing
      <4>1. 0 \in 0..MaxActions /\ "expired" \in Reasons
        BY EventBusAssumption DEF Reasons
      <4>2. SUFFICES ASSUME NEW e \in stale
                     PROVE  [event |-> e, reason |-> "expired", action |-> 0] \in Closing
        OBVIOUS
      <4>3. QED
        BY <3>2, <4>1 DEF Closing
    <3>5. OnePerEvent(expired) /\ \A m \in expired : status[m.event] # "absent"
      BY DEF OnePerEvent
    <3> HIDE DEF expired
    <3>6. QED
      BY <3>3, <3>4, <3>5
  <2>2. CASE Fetch(w)
    <3>1. marks' = marks /\ batch'[w] \subseteq Free(w)
      BY <2>2 DEF Fetch, TypeInv, TypeOK
    <3>2. \A e \in Free(w) : e \in Facts /\ status[e] # "absent" /\ e \notin Closed(marks[w])
      BY DEF Free
    <3>3. \A m \in marks[w] : m.event \in Closed(marks[w])
      BY DEF Closed
    <3>4. QED
      BY <2>0, <3>1, <3>2, <3>3
  <2>3. CASE Skip(w)
    <3> DEFINE mark == [event |-> Current(w), reason |-> "no handler", action |-> 0]
    <3>1. /\ batch[w] # {}
          /\ batch' = [batch EXCEPT ![w] = @ \ {Current(w)}]
          /\ marks' = [marks EXCEPT ![w] = @ \cup {mark}]
      BY <2>3 DEF Skip, At
    <3>2. Current(w) \in batch[w] /\ Current(w) \in Facts
      BY <3>1, CurrentIsInBatch DEF TypeInv
    <3>3. mark.event = Current(w)
      OBVIOUS
    <3>4. mark \in Closing
      <4>1. 0 \in 0..MaxActions
        BY EventBusAssumption
      <4>2. QED
        BY <3>2, <4>1 DEF Closing, Reasons
    <3> HIDE DEF mark
    <3>5. batch'[w] = batch[w] \ {Current(w)} /\ marks'[w] = marks[w] \cup {mark}
      BY <3>1 DEF TypeInv, TypeOK
    <3>6. OnePerEvent(marks'[w])
      BY <2>0, <3>2, <3>3, <3>5 DEF OnePerEvent
    <3>7. QED
      BY <2>0, <3>2, <3>3, <3>4, <3>5, <3>6
  <2>4. CASE Note(w) \/ CheckDuplicate(w)
    <3>1. batch' = batch /\ marks' = marks
      BY <2>4 DEF Note, CheckDuplicate
    <3>2. QED
      BY <2>0, <3>1
  <2>5. CASE Fail(w) \/ Crash(w)
    <3>1. batch'[w] \subseteq batch[w] /\ marks'[w] = {}
      BY <2>5 DEF Fail, Crash, Rollback, TypeInv, TypeOK
    <3>2. OnePerEvent(marks'[w])
      BY <3>1 DEF OnePerEvent
    <3>3. QED
      BY <2>0, <3>1, <3>2
  <2>6. QED
    BY <2>1, <2>2, <2>3, <2>4, <2>5
<1>4. QED
  BY <1>1, <1>2, <1>3, HandsStayOnce

\* What the world does to the events is to raise them.
LEMMA WorldKeepsLife ==
    ASSUME TypeInv, HandsAreOnce, World \/ (\E a \in Askers : AskCheck(a) \/ AskInsert(a))
    PROVE  LifeStep /\ HandsAreOnce'
<1>1. batch' = batch /\ marks' = marks /\ ("passes" \in crossed' <=> "passes" \in crossed)
  BY DEF World, Emit, GrowOld, Decide, AskCheck, AskInsert
<1>2. ASSUME NEW e \in Facts, Emit(e) PROVE LifeStep /\ \A f \in Facts : status[f] # "absent" => status'[f] # "absent"
  <2>1. /\ status[e] = "absent" /\ status' = [status EXCEPT ![e] = "pending"]
        /\ UNCHANGED <<closing, crossed>>
    BY <1>2 DEF Emit
  <2>2. Life!Raise(e)
    BY <2>1 DEF Life!Raise
  <2>3. QED
    BY <2>1, <2>2 DEF LifeStep, Life!Next, TypeInv, TypeOK
<1>3. CASE ~\E e \in Facts : Emit(e)
  <2>1. UNCHANGED <<status, closing>>
    BY <1>3 DEF World, GrowOld, Decide, AskCheck, AskInsert, table
  <2>2. QED
    BY <1>1, <2>1 DEF LifeStep, HandsAreOnce
<1>4. CASE \E e \in Facts : Emit(e)
  <2>1. LifeStep /\ \A f \in Facts : status[f] # "absent" => status'[f] # "absent"
    BY <1>2, <1>4
  <2>2. \A w \in Workers : batch[w] \subseteq Facts /\ \A m \in marks[w] : m.event \in Facts
    BY DEF TypeInv, TypeOK, Closing
  <2>3. QED
    BY <1>1, <2>1, <2>2 DEF HandsAreOnce
<1>5. QED
  BY <1>3, <1>4

LEMMA LifeGoesOn ==
    TypeInv /\ LinkInv /\ HandsAreOnce /\ [Next]_vars => [Life!Next]_Life!vars /\ HandsAreOnce'
<1> SUFFICES ASSUME TypeInv, LinkInv, HandsAreOnce, [Next]_vars
             PROVE  [Life!Next]_Life!vars /\ HandsAreOnce'
  OBVIOUS
<1>1. CASE UNCHANGED vars
  BY <1>1 DEF vars, table, LifeStep, HandsAreOnce, Life!vars
<1>2. CASE Next
  <2>1. LifeStep /\ HandsAreOnce'
    BY <1>2, CommitKeepsLife, PassKeepsLife, WorldKeepsLife DEF Next, Step
  <2>2. QED
    BY <2>1 DEF LifeStep, Life!vars
<1>3. QED
  BY <1>1, <1>2

\* bus.py implements the life of an event: raised once, closed by one commit in
\* one way, and final from then on until passes overlap; with any number of
\* processes, events and faults.
THEOREM PassesKeepTheEventLife == Spec => KeepsEventLife
<1>1. Init => Life!Init /\ HandsAreOnce
  BY DEF Init, Life!Init, HandsAreOnce, OnePerEvent
<1>2. QED
  BY <1>1, LinksAtFirst, LinksStay, LifeGoesOn, TypeCorrect, PTL
  DEF Spec, KeepsEventLife, Life!Spec

-----------------------------------------------------------------------------
(* The watcher runner.  The worker's list is made with SelectSeq, of which   *)
(* nothing can be proved here: that what it names are watchers is what the   *)
(* run itself asks.                                                          *)

RunnerTyped ==
    /\ errors \in [Watchers -> Nat] /\ running \in [Watchers -> Nat]
    /\ streak \in [Watchers -> 0..MAX_CONSECUTIVE_ERRORS]
    /\ runner_pc \in [Runners -> {"idle", "next", "watch", "close", "record", "halted"}]
    /\ current = [p \in Runners |-> current[p]]
    /\ verdict \in [Runners -> {"ok", "error"}]
    /\ irregular \in BOOLEAN /\ runFaults \in Nat

Capped(n) == IF n < MAX_CONSECUTIVE_ERRORS THEN n ELSE MAX_CONSECUTIVE_ERRORS

\* The count says what the closed rows say; where a row is closed and its verdict
\* still to be counted, counting it makes it so.
CountFollowsRows == ~irregular =>
    /\ \A k \in Watchers, p, q \in Runners : InPass(p, k) /\ InPass(q, k) => p = q
    /\ \A k \in Watchers :
          \/ ~Recording(k) /\ streak[k] = Capped(errors[k])
          \/ \E p \in Runners :
                /\ current[p] = k /\ runner_pc[p] = "record"
                /\ streak[k] = IF verdict[p] = "error" THEN Capped(errors[k] + 1) ELSE 0

RunnerInv == RunnerTyped /\ CountFollowsRows /\ RowsAreClosed

LEMMA RunnersAreFinite == IsFiniteSet(Runners) /\ \A S \in SUBSET Runners :
                            IsFiniteSet(S) /\ Cardinality(S) \in Nat
<1>1. IsFiniteSet({Worker}) /\ IsFiniteSet(Manual)
  BY FS_Singleton, WatcherRunnerAssumption
<1>2. IsFiniteSet(Runners)
  BY <1>1, FS_Union DEF Runners
<1>3. QED
  BY <1>2, FS_Subset, FS_CardinalityType

LEMMA RunnerAtFirst == RunnerInit => RunnerInv
<1>1. SUFFICES ASSUME RunnerInit PROVE RunnerInv
  OBVIOUS
<1>2. /\ errors = [k \in Watchers |-> 0] /\ running = [k \in Watchers |-> 0]
      /\ streak = [k \in Watchers |-> 0] /\ runner_pc = [p \in Runners |-> "idle"]
      /\ current = [p \in Runners |-> Nothing] /\ verdict = [p \in Runners |-> "ok"]
      /\ irregular = FALSE /\ runFaults = 0
  BY <1>1 DEF RunnerInit
<1>3. RunnerTyped
  <2>1. /\ errors \in [Watchers -> Nat] /\ running \in [Watchers -> Nat]
        /\ streak \in [Watchers -> 0..MAX_CONSECUTIVE_ERRORS]
    BY <1>2, WatcherRunnerAssumption
  <2>2. /\ runner_pc \in [Runners -> {"idle", "next", "watch", "close", "record", "halted"}]
        /\ verdict \in [Runners -> {"ok", "error"}]
        /\ current = [p \in Runners |-> current[p]]
    BY <1>2
  <2>3. QED
    BY <1>2, <2>1, <2>2 DEF RunnerTyped
<1>4. \A k \in Watchers : Busy(k) = {} /\ ~Recording(k) /\ \A p \in Runners : ~InPass(p, k)
  BY <1>2 DEF Busy, Recording, InPass
<1>5. CountFollowsRows
  BY <1>2, <1>4, WatcherRunnerAssumption DEF CountFollowsRows, Capped
<1>6. RowsAreClosed
  BY <1>2, <1>4, FS_EmptySet DEF RowsAreClosed
<1>7. QED
  BY <1>3, <1>5, <1>6 DEF RunnerInv

\* A step that moves one process about outside a pass, or in it before the close.
LEMMA MovesAside ==
    ASSUME RunnerInv, NEW p \in Runners,
           NEW label \in {"idle", "next", "watch", "close", "record", "halted"},
           Go(p, label),
           \/ runner_pc[p] \notin {"watch", "close", "record"} /\ label \in {"idle", "next", "halted"}
           \/ runner_pc[p] = "watch" /\ label = "close",
           NEW v \in {"ok", "error"},
           \/ verdict' = verdict
           \/ verdict' = [verdict EXCEPT ![p] = v] /\ label = "close",
           UNCHANGED <<errors, running, streak, current, irregular, runFaults>>
    PROVE  RunnerInv'
<1>1. \A q \in Runners : runner_pc'[q] = IF q = p THEN label ELSE runner_pc[q]
  BY DEF Go, RunnerInv, RunnerTyped
<1>2. RunnerTyped'
  BY DEF Go, RunnerInv, RunnerTyped
<1>3. \A k \in Watchers : Busy(k)' = Busy(k) /\ \A q \in Runners : InPass(q, k)' <=> InPass(q, k)
  BY <1>1 DEF Busy, InPass
<1>4. \A q \in Runners : runner_pc'[q] = "record" <=> runner_pc[q] = "record"
  BY <1>1
<1>5. \A q \in Runners : runner_pc[q] = "record" => verdict'[q] = verdict[q]
  BY DEF RunnerInv, RunnerTyped
<1>6. \A k \in Watchers : Recording(k)' <=> Recording(k)
  BY <1>4 DEF Recording
<1>7. CountFollowsRows'
  BY <1>3, <1>4, <1>5, <1>6 DEF RunnerInv, CountFollowsRows
<1>8. RowsAreClosed'
  BY <1>3 DEF RunnerInv, RowsAreClosed
<1>9. QED
  BY <1>2, <1>7, <1>8 DEF RunnerInv

\* A pass more, of a watcher that nobody runs or one that has become irregular.
LEMMA OpenRunKeepsRunnerInv ==
    ASSUME RunnerInv, NEW p \in Runners, NEW k, OpenRun(p, k), runner_pc[p] \in {"idle", "next"}
    PROVE  RunnerInv'
<1>1. /\ running' = [running EXCEPT ![k] = running[k] + 1]
      /\ current' = [current EXCEPT ![p] = k]
      /\ runner_pc' = [runner_pc EXCEPT ![p] = "watch"]
      /\ irregular' = (irregular \/ \E q \in Runners \ {p} : InPass(q, k))
      /\ streak' = [j \in Watchers |-> IF irregular' THEN 0 ELSE streak[j]]
      /\ UNCHANGED <<errors, verdict, runFaults>>
  BY DEF OpenRun, Go, Regular_unless, workflows
<1>2. RunnerTyped'
  <2>1. streak' \in [Watchers -> 0..MAX_CONSECUTIVE_ERRORS]
    BY <1>1, WatcherRunnerAssumption DEF RunnerInv, RunnerTyped
  <2>2. running' \in [Watchers -> Nat]
    <3>1. running' = [j \in Watchers |-> IF j = k THEN running[j] + 1 ELSE running[j]]
      BY <1>1 DEF RunnerInv, RunnerTyped
    <3>2. \A j \in Watchers : running[j] + 1 \in Nat /\ running[j] \in Nat
      BY DEF RunnerInv, RunnerTyped
    <3>3. QED
      BY <3>1, <3>2
  <2>6. irregular' \in BOOLEAN
    <3>1. irregular' = (irregular \/ \E q \in Runners \ {p} : InPass(q, k))
      BY <1>1
    <3>2. QED
      BY <3>1, Zenon
  <2>3. current' = [q \in Runners |-> current'[q]]
    BY <1>1 DEF RunnerInv, RunnerTyped
  <2>4. runner_pc' \in [Runners -> {"idle", "next", "watch", "close", "record", "halted"}]
    BY <1>1 DEF RunnerInv, RunnerTyped
  <2>5. QED
    BY <1>1, <2>1, <2>2, <2>3, <2>4, <2>6 DEF RunnerInv, RunnerTyped
<1>3. \A q \in Runners : /\ runner_pc'[q] = IF q = p THEN "watch" ELSE runner_pc[q]
                         /\ current'[q] = IF q = p THEN k ELSE current[q]
  BY <1>1 DEF RunnerInv, RunnerTyped
<1>4. CountFollowsRows'
  <2>1. SUFFICES ASSUME ~irregular' PROVE CountFollowsRows'
    BY DEF CountFollowsRows
  <2>2. ~irregular /\ (\A q \in Runners \ {p} : ~InPass(q, k)) /\ streak' = streak
    BY <1>1, <2>1 DEF RunnerInv, RunnerTyped
  <2>3. \A j \in Watchers, q \in Runners : InPass(q, j)' <=> IF q = p THEN j = k ELSE InPass(q, j)
    BY <1>3 DEF InPass
  <2>4. \A q \in Runners : runner_pc'[q] = "record" =>
                            runner_pc[q] = "record" /\ current'[q] = current[q]
    BY <1>3
  <2>5. \A q \in Runners : runner_pc[q] = "record" =>
                            runner_pc'[q] = "record" /\ current'[q] = current[q]
    BY <1>3
  <2>6. \A j \in Watchers : Recording(j)' <=> Recording(j)
    BY <2>4, <2>5 DEF Recording
  <2>7. QED
    BY <1>1, <2>2, <2>3, <2>4, <2>5, <2>6 DEF RunnerInv, CountFollowsRows
<1>5. RowsAreClosed'
  <2>1. SUFFICES ASSUME NEW j \in Watchers
                 PROVE  Cardinality(Busy(j)') <= running'[j]
                        /\ running'[j] <= Cardinality(Busy(j)') + runFaults'
    BY DEF RowsAreClosed
  <2>2. /\ Cardinality(Busy(j)) <= running[j] /\ running[j] <= Cardinality(Busy(j)) + runFaults
        /\ running[j] \in Nat /\ runFaults \in Nat /\ runFaults' = runFaults
    BY <1>1 DEF RunnerInv, RowsAreClosed, RunnerTyped
  <2>3. Busy(j) \in SUBSET Runners /\ p \notin Busy(j)
    BY DEF Busy
  <2>4. IsFiniteSet(Busy(j)) /\ Cardinality(Busy(j)) \in Nat
    BY <2>3, RunnersAreFinite
  <2>5. CASE j = k
    <3>1. Busy(j)' = Busy(j) \cup {p}
      BY <1>3, <2>5 DEF Busy
    <3>2. Cardinality(Busy(j)') = Cardinality(Busy(j)) + 1
      BY <2>3, <2>4, <3>1, FS_AddElement
    <3>3. running'[j] = running[j] + 1
      BY <1>1, <2>5 DEF RunnerInv, RunnerTyped
    <3>4. QED
      BY <2>2, <2>4, <3>2, <3>3
  <2>6. CASE j # k
    <3>1. Busy(j)' = Busy(j)
      BY <1>3, <2>3, <2>6 DEF Busy
    <3>2. running'[j] = running[j]
      BY <1>1, <2>6 DEF RunnerInv, RunnerTyped
    <3>3. QED
      BY <2>2, <3>1, <3>2
  <2>7. QED
    BY <2>5, <2>6
<1>6. QED
  BY <1>2, <1>4, <1>5 DEF RunnerInv

LEMMA CloseRunKeepsRunnerInv ==
    ASSUME RunnerInv, NEW p \in Runners, CloseRun(p)
    PROVE  RunnerInv'
<1> DEFINE k == current[p]
<1>1. /\ runner_pc[p] = "close" /\ running' = [running EXCEPT ![k] = running[k] - 1]
      /\ streak' = [streak EXCEPT ![k] = IF irregular THEN 0 ELSE Streak(streak[k], verdict[p])]
      /\ runner_pc' = [runner_pc EXCEPT ![p] = "record"]
      /\ UNCHANGED <<errors, current, verdict, irregular, runFaults>>
  BY DEF CloseRun, Go, workflows, local
<1> HIDE DEF k
<1>2. \A q \in Runners : runner_pc'[q] = IF q = p THEN "record" ELSE runner_pc[q]
  BY <1>1 DEF RunnerInv, RunnerTyped
<1>3. p \in Runners /\ verdict[p] \in {"ok", "error"} /\ current[p] = k
  BY DEF RunnerInv, RunnerTyped, k
<1>4. \A j \in Watchers : /\ Busy(j) \in SUBSET Runners /\ (p \in Busy(j) <=> j = k)
                          /\ IsFiniteSet(Busy(j)) /\ Cardinality(Busy(j)) \in Nat
                          /\ Busy(j)' = Busy(j) \ {p}
                          /\ running[j] \in Nat
                          /\ running'[j] = IF j = k THEN running[j] - 1 ELSE running[j]
  <2>1. \A j \in Watchers : Busy(j) \in SUBSET Runners /\ (p \in Busy(j) <=> j = k)
                            /\ Busy(j)' = Busy(j) \ {p}
    BY <1>1, <1>2, <1>3 DEF Busy
  <2>2. \A j \in Watchers : /\ running[j] \in Nat
                            /\ running'[j] = IF j = k THEN running[j] - 1 ELSE running[j]
    BY <1>1 DEF RunnerInv, RunnerTyped
  <2>3. QED
    BY <2>1, <2>2, RunnersAreFinite
<1>5. ASSUME NEW j \in Watchers
      PROVE  /\ Cardinality(Busy(j)') <= running'[j]
             /\ running'[j] <= Cardinality(Busy(j)') + runFaults
             /\ running'[j] \in Nat
  <2>1. /\ Cardinality(Busy(j)) <= running[j] /\ running[j] <= Cardinality(Busy(j)) + runFaults
        /\ runFaults \in Nat
    BY DEF RunnerInv, RowsAreClosed, RunnerTyped
  <2>2. CASE j = k
    <3>1. Cardinality(Busy(j)') = Cardinality(Busy(j)) - 1 /\ Cardinality(Busy(j)') \in Nat
      BY <1>4, <2>2, FS_RemoveElement, FS_CardinalityType
    <3>2. QED
      BY <1>4, <2>1, <2>2, <3>1
  <2>3. CASE j # k
    <3>1. Busy(j)' = Busy(j)
      BY <1>4, <2>3
    <3>2. QED
      BY <1>4, <2>1, <2>3, <3>1
  <2>4. QED
    BY <2>2, <2>3
<1>6. RunnerTyped'
  <2>1. running' \in [Watchers -> Nat]
    BY <1>1, <1>5 DEF RunnerInv, RunnerTyped
  <2>2. k \in Watchers =>
            (IF irregular THEN 0 ELSE Streak(streak[k], verdict[p])) \in 0..MAX_CONSECUTIVE_ERRORS
    BY <1>3, WatcherRunnerAssumption DEF Streak, RunnerInv, RunnerTyped
  <2>3. streak' \in [Watchers -> 0..MAX_CONSECUTIVE_ERRORS]
    BY <1>1, <2>2 DEF RunnerInv, RunnerTyped
  <2>4. QED
    BY <1>1, <2>1, <2>3 DEF RunnerInv, RunnerTyped
<1>7. RowsAreClosed'
  BY <1>1, <1>5 DEF RowsAreClosed
<1>8. CountFollowsRows'
  <2>1. SUFFICES ASSUME ~irregular PROVE CountFollowsRows'
    BY <1>1 DEF CountFollowsRows
  <2>2. \A j \in Watchers, q \in Runners : InPass(q, j)' <=> InPass(q, j)
    BY <1>1, <1>2 DEF InPass
  <2>3. \A j \in Watchers, q, r \in Runners : InPass(q, j)' /\ InPass(r, j)' => q = r
    BY <2>1, <2>2 DEF RunnerInv, CountFollowsRows
  <2>4. ASSUME NEW j \in Watchers, j # k
        PROVE  \/ ~Recording(j)' /\ streak'[j] = Capped(errors'[j])
               \/ \E q \in Runners :
                    /\ current'[q] = j /\ runner_pc'[q] = "record"
                    /\ streak'[j] = IF verdict'[q] = "error" THEN Capped(errors'[j] + 1) ELSE 0
    <3>1. streak'[j] = streak[j] /\ (Recording(j)' <=> Recording(j))
      BY <1>1, <1>2, <1>3, <2>4 DEF RunnerInv, RunnerTyped, Recording
    <3>2. \A q \in Runners : runner_pc[q] = "record" => runner_pc'[q] = "record"
      BY <1>2
    <3>3. QED
      BY <1>1, <2>1, <3>1, <3>2 DEF RunnerInv, CountFollowsRows
  <2>5. ASSUME k \in Watchers
        PROVE  streak'[k] = IF verdict'[p] = "error" THEN Capped(errors'[k] + 1) ELSE 0
    <3>1. ~Recording(k)
      <4>1. InPass(p, k) /\ \A q \in Runners : InPass(q, k) => q = p
        BY <1>1, <1>3, <2>1, <2>5 DEF InPass, RunnerInv, CountFollowsRows
      <4>2. QED
        BY <1>1, <4>1 DEF Recording, InPass
    <3>2. streak[k] = Capped(errors[k])
      BY <2>1, <2>5, <3>1 DEF RunnerInv, CountFollowsRows, Recording
    <3>3. /\ streak'[k] = Streak(streak[k], verdict[p])
          /\ streak[k] \in 0..MAX_CONSECUTIVE_ERRORS /\ errors[k] \in Nat
      BY <1>1, <2>1, <2>5 DEF RunnerInv, RunnerTyped
    <3>4. QED
      BY <1>1, <1>3, <3>2, <3>3, WatcherRunnerAssumption DEF Streak, Capped
  <2>6. p \in Runners /\ current'[p] = k /\ runner_pc'[p] = "record"
    BY <1>1, <1>2, <1>3
  <2>7. QED
    BY <2>3, <2>4, <2>5, <2>6 DEF CountFollowsRows
<1>9. QED
  BY <1>6, <1>7, <1>8 DEF RunnerInv

LEMMA RecordKeepsRunnerInv ==
    ASSUME RunnerInv, NEW p \in Runners, Record(p)
    PROVE  RunnerInv'
<1>0. PICK k : k = current[p]
  OBVIOUS
<1>1. /\ runner_pc[p] = "record" /\ errors' = [errors EXCEPT ![k] = Counted(k, verdict[p])]
      /\ current' = [current EXCEPT ![p] = Nothing]
      /\ verdict' = [verdict EXCEPT ![p] = "ok"]
      /\ UNCHANGED <<running, streak, irregular, runFaults>>
  BY <1>0 DEF Record, Forget, episodes
<1>2. PICK label \in {"idle", "next", "halted"} : runner_pc' = [runner_pc EXCEPT ![p] = label]
  BY DEF Record, Go, Next_watcher
<1>3. \A q \in Runners : /\ runner_pc'[q] = IF q = p THEN label ELSE runner_pc[q]
                         /\ current'[q] = IF q = p THEN Nothing ELSE current[q]
                         /\ verdict'[q] = IF q = p THEN "ok" ELSE verdict[q]
  BY <1>1, <1>2 DEF RunnerInv, RunnerTyped
<1>4. k \in Watchers => Counted(k, verdict[p]) \in Nat
  BY DEF Counted, RunnerInv, RunnerTyped
<1>5. RunnerTyped'
  BY <1>1, <1>2, <1>4 DEF RunnerInv, RunnerTyped
<1>6. RowsAreClosed'
  <2>1. \A j \in Watchers : Busy(j)' = Busy(j)
    BY <1>1, <1>3, WatcherRunnerAssumption DEF Busy
  <2>2. QED
    BY <1>1, <2>1 DEF RunnerInv, RowsAreClosed
<1>7. CountFollowsRows'
  <2>1. SUFFICES ASSUME ~irregular PROVE CountFollowsRows'
    BY <1>1 DEF CountFollowsRows
  <2>2. \A j \in Watchers, q \in Runners : InPass(q, j)' => InPass(q, j) /\ q # p
    BY <1>3, WatcherRunnerAssumption DEF InPass
  <2>3. \A j \in Watchers, q, r \in Runners : InPass(q, j)' /\ InPass(r, j)' => q = r
    BY <2>1, <2>2 DEF RunnerInv, CountFollowsRows
  <2>4. ASSUME NEW j \in Watchers, j # k
        PROVE  \/ ~Recording(j)' /\ streak'[j] = Capped(errors'[j])
               \/ \E q \in Runners :
                    /\ current'[q] = j /\ runner_pc'[q] = "record"
                    /\ streak'[j] = IF verdict'[q] = "error" THEN Capped(errors'[j] + 1) ELSE 0
    <3>1. errors'[j] = errors[j] /\ streak'[j] = streak[j]
      BY <1>1, <2>4 DEF RunnerInv, RunnerTyped
    <3>2. \A q \in Runners : (current[q] = j /\ runner_pc[q] = "record")
                                <=> (current'[q] = j /\ runner_pc'[q] = "record")
      BY <1>0, <1>1, <1>3, <2>4, WatcherRunnerAssumption
    <3>3. Recording(j)' <=> Recording(j)
      BY <3>2 DEF Recording
    <3>4. \A q \in Runners : (current[q] = j) => verdict'[q] = verdict[q]
      BY <1>0, <1>3, <2>4
    <3>5. QED
      BY <2>1, <3>1, <3>2, <3>3, <3>4 DEF RunnerInv, CountFollowsRows
  <2>5. ASSUME k \in Watchers
        PROVE  ~Recording(k)' /\ streak'[k] = Capped(errors'[k])
    <3>1. InPass(p, k) /\ \A q \in Runners : InPass(q, k) => q = p
      BY <1>0, <1>1, <2>1, <2>5 DEF InPass, RunnerInv, CountFollowsRows
    <3>2. ~Recording(k)'
      BY <1>3, <2>5, <3>1, WatcherRunnerAssumption DEF Recording, InPass
    <3>3. streak[k] = IF verdict[p] = "error" THEN Capped(errors[k] + 1) ELSE 0
      <4>1. Recording(k)
        BY <1>0, <1>1 DEF Recording
      <4>2. PICK q \in Runners : /\ current[q] = k /\ runner_pc[q] = "record"
                                 /\ streak[k] = IF verdict[q] = "error"
                                                THEN Capped(errors[k] + 1) ELSE 0
        BY <2>1, <2>5, <4>1 DEF RunnerInv, CountFollowsRows
      <4>3. q = p
        BY <3>1, <4>2 DEF InPass
      <4>4. QED
        BY <4>2, <4>3
    <3>4. /\ errors'[k] = Counted(k, verdict[p]) /\ verdict[p] \in {"ok", "error"}
          /\ streak[k] \in 0..MAX_CONSECUTIVE_ERRORS
      BY <1>1, <2>5 DEF RunnerInv, RunnerTyped
    <3>5. streak'[k] = Capped(errors'[k])
      BY <1>1, <3>3, <3>4, WatcherRunnerAssumption DEF Counted, Capped
    <3>6. QED
      BY <3>2, <3>5
  <2>6. QED
    BY <2>3, <2>4, <2>5 DEF CountFollowsRows
<1>8. QED
  BY <1>5, <1>6, <1>7 DEF RunnerInv

LEMMA CutOffKeepsRunnerInv ==
    ASSUME RunnerInv, NEW p \in Runners, CutOff(p)
    PROVE  RunnerInv'
<1>1. /\ runFaults' = runFaults + 1
      /\ current' = [current EXCEPT ![p] = Nothing] /\ verdict' = [verdict EXCEPT ![p] = "ok"]
      /\ runner_pc' = [runner_pc EXCEPT ![p] = "idle"]
      /\ irregular' = TRUE /\ streak' = [j \in Watchers |-> 0]
      /\ UNCHANGED <<errors, running>>
  BY DEF CutOff, Forget, Go, Regular_unless, workflows
<1>2. RunnerTyped'
  BY <1>1, WatcherRunnerAssumption DEF RunnerInv, RunnerTyped
<1>3. CountFollowsRows'
  BY <1>1 DEF CountFollowsRows
<1>4. RowsAreClosed'
  <2>1. SUFFICES ASSUME NEW j \in Watchers
                 PROVE  Cardinality(Busy(j)') <= running[j]
                        /\ running[j] <= Cardinality(Busy(j)') + (runFaults + 1)
    BY <1>1 DEF RowsAreClosed, RunnerInv, RunnerTyped
  <2>2. Busy(j)' = Busy(j) \ {p} /\ Busy(j) \in SUBSET Runners
    BY <1>1, WatcherRunnerAssumption DEF Busy, RunnerInv, RunnerTyped
  <2>3. /\ IsFiniteSet(Busy(j)) /\ Cardinality(Busy(j)) \in Nat
        /\ Cardinality(Busy(j)') \in Nat
        /\ Cardinality(Busy(j)') \in {Cardinality(Busy(j)), Cardinality(Busy(j)) - 1}
    BY <2>2, RunnersAreFinite, FS_RemoveElement
  <2>4. QED
    BY <2>3 DEF RunnerInv, RowsAreClosed, RunnerTyped
<1>5. QED
  BY <1>2, <1>3, <1>4 DEF RunnerInv

\* The count starts again, and so do the rows that are counted.
LEMMA SetEnabledKeepsRunnerInv ==
    ASSUME RunnerInv, NEW k \in Watchers, NEW on \in BOOLEAN, SetEnabled(k, on)
    PROVE  RunnerInv'
<1> DEFINE anew == IF Uncounted(k) THEN 1 ELSE 0
<1>1. /\ errors' = [errors EXCEPT ![k] = IF on THEN 0 ELSE errors[k]]
      /\ streak' = [streak EXCEPT ![k] = IF ~on \/ irregular THEN streak[k] ELSE anew]
      /\ UNCHANGED <<running, current, verdict, runner_pc, irregular, runFaults>>
  BY DEF SetEnabled, local
<1>2. anew \in 0..MAX_CONSECUTIVE_ERRORS
  BY WatcherRunnerAssumption
<1>3. RunnerTyped'
  BY <1>1, <1>2 DEF RunnerInv, RunnerTyped
<1>4. \A j \in Watchers : Busy(j)' = Busy(j) /\ (Recording(j)' <=> Recording(j))
  BY <1>1 DEF Busy, Recording
<1>5. ~Recording(k) => anew = 0
  BY DEF Recording, Uncounted
<1> HIDE DEF anew
<1>6. CountFollowsRows'
  <2>1. SUFFICES ASSUME ~irregular PROVE CountFollowsRows'
    BY <1>1 DEF CountFollowsRows
  <2>2. \A j \in Watchers, q, r \in Runners : InPass(q, j)' /\ InPass(r, j)' => q = r
    BY <1>1, <2>1 DEF RunnerInv, CountFollowsRows, InPass
  <2>3. SUFFICES ASSUME NEW j \in Watchers
                 PROVE  \/ ~Recording(j) /\ streak'[j] = Capped(errors'[j])
                        \/ \E q \in Runners :
                              /\ current[q] = j /\ runner_pc[q] = "record"
                              /\ streak'[j] = IF verdict[q] = "error"
                                              THEN Capped(errors'[j] + 1) ELSE 0
    BY <1>1, <1>4, <2>2 DEF CountFollowsRows
  <2>4. CASE j # k \/ ~on
    <3>1. errors'[j] = errors[j] /\ streak'[j] = streak[j]
      BY <1>1, <2>4 DEF RunnerInv, RunnerTyped
    <3>2. QED
      BY <2>1, <3>1 DEF RunnerInv, CountFollowsRows
  <2>5. CASE j = k /\ on
    <3>1. errors'[k] = 0 /\ streak'[k] = anew
      BY <1>1, <2>1, <2>5 DEF RunnerInv, RunnerTyped
    <3>2. Capped(0) = 0 /\ Capped(0 + 1) = 1
      BY WatcherRunnerAssumption DEF Capped
    <3>3. CASE ~Recording(k)
      BY <1>5, <2>5, <3>1, <3>2, <3>3
    <3>4. CASE Recording(k)
      <4>1. PICK q \in Runners : current[q] = k /\ runner_pc[q] = "record"
        BY <3>4 DEF Recording
      <4>2. \A r \in Runners : current[r] = k /\ runner_pc[r] = "record" => r = q
        BY <2>1, <4>1 DEF RunnerInv, CountFollowsRows, InPass
      <4>3. anew = IF verdict[q] = "error" THEN 1 ELSE 0
        BY <4>1, <4>2 DEF anew, Uncounted
      <4>4. QED
        BY <2>5, <3>1, <3>2, <4>1, <4>3
    <3>5. QED
      BY <3>3, <3>4
  <2>6. QED
    BY <2>4, <2>5
<1>7. RowsAreClosed'
  BY <1>1, <1>4 DEF RunnerInv, RowsAreClosed
<1>8. QED
  BY <1>3, <1>6, <1>7 DEF RunnerInv

\* Nothing of the tables, the passes and the verdicts moves.
LEMMA ElsewhereKeepsRunnerInv ==
    ASSUME RunnerInv,
           UNCHANGED <<errors, running, streak, current, verdict, runner_pc, irregular, runFaults>>
    PROVE  RunnerInv'
BY DEF RunnerInv, RunnerTyped, CountFollowsRows, RowsAreClosed, Busy, Recording, InPass

LEMMA RunnerInvStays == RunnerInv /\ [RunnerNext]_runnerVars => RunnerInv'
<1>1. SUFFICES ASSUME RunnerInv, [RunnerNext]_runnerVars PROVE RunnerInv'
  OBVIOUS
<1>2. Worker \in Runners /\ Manual \subseteq Runners
  BY DEF Runners
<1>3. CASE UNCHANGED runnerVars
  BY <1>1, <1>3, ElsewhereKeepsRunnerInv DEF runnerVars, workflows, episodes, local
<1>4. ASSUME NEW k \in Watchers, Lapse(k) PROVE RunnerInv'
  BY <1>1, <1>4, ElsewhereKeepsRunnerInv DEF Lapse, episodes, local
<1>5. CASE Tick
  <2>1. runner_pc[Worker] = "idle" /\ Go(Worker, "next") /\ verdict' = verdict
        /\ UNCHANGED <<errors, running, streak, current, irregular, runFaults>>
    BY <1>5 DEF Tick, workflows, episodes
  <2>2. QED
    BY <1>1, <1>2, <2>1, MovesAside
<1>6. CASE EndTick
  <2>1. runner_pc[Worker] = "next" /\ Go(Worker, "idle") /\ verdict' = verdict
        /\ UNCHANGED <<errors, running, streak, current, irregular, runFaults>>
    BY <1>6 DEF EndTick, workflows, episodes, local
  <2>2. QED
    BY <1>1, <1>2, <2>1, MovesAside
<1>7. ASSUME NEW p \in Runners, Watch(p) PROVE RunnerInv'
  <2>1. PICK v \in {"ok", "error"} : verdict' = [verdict EXCEPT ![p] = v]
    BY <1>7 DEF Watch
  <2>2. runner_pc[p] = "watch" /\ Go(p, "close")
        /\ UNCHANGED <<errors, running, streak, current, irregular, runFaults>>
    BY <1>7 DEF Watch, workflows, episodes
  <2>3. QED
    BY <1>1, <2>1, <2>2, MovesAside
<1>8. ASSUME NEW p \in Runners, AlertHalted(p) PROVE RunnerInv'
  <2>1. \E label \in {"idle", "next"} : Go(p, label)
    BY <1>8 DEF AlertHalted, Next_watcher
  <2>2. runner_pc[p] = "halted" /\ verdict' = verdict
        /\ UNCHANGED <<errors, running, streak, current, irregular, runFaults>>
    BY <1>8 DEF AlertHalted, workflows, episodes, local
  <2>3. QED
    BY <1>1, <2>1, <2>2, MovesAside
<1>9. CASE RunListed
  BY <1>1, <1>2, <1>9, OpenRunKeepsRunnerInv DEF RunListed
<1>10. ASSUME NEW p \in Manual, NEW k \in Watchers, RunNow(p, k) PROVE RunnerInv'
  BY <1>1, <1>2, <1>10, OpenRunKeepsRunnerInv DEF RunNow
<1>11. ASSUME NEW p \in Runners, Run(p) PROVE RunnerInv'
  BY <1>1, <1>7, <1>8, <1>11, CloseRunKeepsRunnerInv, RecordKeepsRunnerInv DEF Run
<1>12. QED
  BY <1>1, <1>2, <1>3, <1>4, <1>5, <1>6, <1>9, <1>10, <1>11, CutOffKeepsRunnerInv,
     SetEnabledKeepsRunnerInv
  DEF RunnerNext, Work

\* runner.py: a row for every pass, closed unless the pass was cut off, and a
\* halt for three failures in a row, whenever there are and nothing less: with any
\* number of API threads at once, whatever people turn on and off and whatever is
\* cut off.
THEOREM PassesAreAlwaysAccounted == RunnerSpec => []PassesAreAccounted
<1>1. RunnerInv => PassesAreAccounted
  <2>1. SUFFICES ASSUME RunnerInv, ~irregular, NEW k \in Watchers, ~Recording(k)
                 PROVE  Halted(k) <=> streak[k] = MAX_CONSECUTIVE_ERRORS
    BY DEF PassesAreAccounted, ThreeInARow, RunnerInv
  <2>2. streak[k] = Capped(errors[k])
    BY <2>1 DEF RunnerInv, CountFollowsRows, Recording
  <2>3. streak[k] \in 0..MAX_CONSECUTIVE_ERRORS /\ errors[k] \in Nat
    BY <2>1 DEF RunnerInv, RunnerTyped
  <2>4. QED
    BY <2>2, <2>3, WatcherRunnerAssumption DEF Halted, Capped
<1>2. QED
  BY <1>1, RunnerAtFirst, RunnerInvStays, PTL DEF RunnerSpec

-----------------------------------------------------------------------------
(* The halt of a watcher and its report (Halts), three transactions and an    *)
(* e-mail of a process that may die between any two of them.  The runner's     *)
(* place and what is being sent are kept apart by the code; ReportsItsHalt     *)
(* ties them together, and MarksAreAnswered says what a mark in the table or   *)
(* in a memory is worth to the next process that is suppressed by it.          *)

\* What is run is a watcher, and a halt is held exactly until it is reported.
HoldsItsHalt ==
    /\ halting \in [Runners -> Watchers \cup {Nothing}]
    /\ \A p \in Runners :
          /\ runner_pc[p] \in {"watch", "close", "record"} => current[p] \in Watchers
          /\ halting[p] # Nothing <=> runner_pc[p] = "halted"

\* Every step of the two together is one of the runner's, or none.
LEMMA HaltsStepIsARunnersStep == [HaltsNext]_haltVars => [RunnerNext]_runnerVars
<1>1. Worker \in Runners /\ Manual \subseteq Runners /\ Runners = {Worker} \cup Manual
  BY DEF Runners
<1>2. \A p \in Runners : Run(p) => RunnerNext
  BY <1>1 DEF RunnerNext, Work
<1>3. \A p \in Runners : AlertHalted(p) \/ Record(p) \/ Watch(p) \/ CloseRun(p) => RunnerNext
  BY <1>2 DEF Run
<1>4. ASSUME NEW p \in Runners, GoOn(p) PROVE RunnerNext
  BY <1>3, <1>4 DEF GoOn, RunnerNext, Work
<1>5. ASSUME Meanwhile PROVE RunnerNext
  BY <1>5 DEF Meanwhile, RunnerNext
<1>6. ASSUME NEW p \in Runners, Count(p) \/ Answered(p) \/ Swallow(p) PROVE RunnerNext
  BY <1>3, <1>6 DEF Count, Answered, Swallow, Reported
<1>7. ASSUME NEW p \in Runners, Report(p) PROVE RunnerNext \/ UNCHANGED runnerVars
  BY <1>3, <1>7 DEF Report, Reported
<1>8. ASSUME NEW p \in Runners, CutShort(p) PROVE RunnerNext
  BY <1>8 DEF CutShort, RunnerNext
<1>9. QED
  BY <1>4, <1>5, <1>6, <1>7, <1>8 DEF HaltsNext, Works, Forgotten, haltVars

\* The runner alone: what is in a pass stays a watcher.
LEMMA PassesAreOfWatchers ==
    ASSUME RunnerTyped, HoldsItsHalt, [RunnerNext]_runnerVars
    PROVE  \A p \in Runners :
               runner_pc'[p] \in {"watch", "close", "record"} => current'[p] \in Watchers
<1> SUFFICES ASSUME NEW q \in Runners, runner_pc'[q] \in {"watch", "close", "record"}
             PROVE  current'[q] \in Watchers
  OBVIOUS
<1>0. Worker \in Runners /\ Manual \subseteq Runners /\ q \in DOMAIN runner_pc /\ q \in DOMAIN current
  BY DEF Runners, RunnerTyped
<1>1. ASSUME UNCHANGED <<runner_pc, current>> PROVE current'[q] \in Watchers
  BY <1>1 DEF HoldsItsHalt
<1>2. ASSUME NEW p \in Runners, NEW label, Go(p, label), current' = current,
             runner_pc[p] \in {"watch", "close"} \/ label \in {"idle", "next"}
      PROVE  current'[q] \in Watchers
  <2>1. runner_pc'[q] = IF q = p THEN label ELSE runner_pc[q]
    BY <1>2 DEF Go, RunnerTyped
  <2>2. QED
    BY <1>2, <2>1 DEF HoldsItsHalt
<1>3. ASSUME NEW p \in Runners, NEW k, OpenRun(p, k) PROVE current'[q] \in Watchers
  <2>1. /\ runner_pc'[q] = IF q = p THEN "watch" ELSE runner_pc[q]
        /\ current'[q] = IF q = p THEN k ELSE current[q]
        /\ k \in Watchers
    BY <1>3 DEF OpenRun, Go, RunnerTyped
  <2>2. QED
    BY <2>1 DEF HoldsItsHalt
<1>4. ASSUME NEW p \in Runners, NEW label \in {"idle", "next", "halted"}, Go(p, label), Forget(p)
      PROVE  current'[q] \in Watchers
  <2>1. /\ runner_pc'[q] = IF q = p THEN label ELSE runner_pc[q]
        /\ current'[q] = IF q = p THEN Nothing ELSE current[q]
    BY <1>4 DEF Forget, Go, RunnerTyped
  <2>2. QED
    BY <1>4, <2>1 DEF HoldsItsHalt
<1>5. ASSUME NEW p \in Runners, Run(p) PROVE current'[q] \in Watchers
  <2>1. CASE Watch(p) \/ CloseRun(p)
    <3>1. /\ runner_pc[p] \in {"watch", "close"} /\ current' = current
          /\ \E label \in {"close", "record"} : Go(p, label)
      BY <2>1 DEF Watch, CloseRun, local
    <3>2. QED
      BY <3>1, <1>2
  <2>2. CASE Record(p)
    <3>1. Forget(p) /\ \E label \in {"idle", "next", "halted"} : Go(p, label)
      BY <2>2 DEF Record, Next_watcher
    <3>2. QED
      BY <3>1, <1>4
  <2>3. CASE AlertHalted(p)
    <3>1. current' = current /\ \E label \in {"idle", "next"} : Go(p, label)
      BY <2>3 DEF AlertHalted, Next_watcher, local
    <3>2. QED
      BY <3>1, <1>2
  <2>4. QED
    BY <1>5, <2>1, <2>2, <2>3 DEF Run
<1>6. ASSUME Tick \/ EndTick PROVE current'[q] \in Watchers
  BY <1>0, <1>2, <1>6 DEF Tick, EndTick, local
<1>7. ASSUME RunListed PROVE current'[q] \in Watchers
  BY <1>0, <1>3, <1>7 DEF RunListed
<1>8. ASSUME NEW p \in Manual, NEW k \in Watchers, RunNow(p, k) PROVE current'[q] \in Watchers
  BY <1>0, <1>3, <1>8 DEF RunNow
<1>9. ASSUME NEW p \in Runners, CutOff(p) PROVE current'[q] \in Watchers
  BY <1>4, <1>9 DEF CutOff
<1>10. ASSUME \/ \E k \in Watchers : Lapse(k)
              \/ \E k \in Watchers, on \in BOOLEAN : SetEnabled(k, on)
              \/ UNCHANGED runnerVars
       PROVE  current'[q] \in Watchers
  BY <1>1, <1>10 DEF Lapse, SetEnabled, local, runnerVars
<1>11. QED
  BY <1>0, <1>5, <1>6, <1>7, <1>8, <1>9, <1>10 DEF RunnerNext, Work

\* Where every process stands after a step of it, and what halt it holds then.
LEMMA HoldsItsHaltStays ==
    ASSUME RunnerTyped, RunnerTyped', HoldsItsHalt, [HaltsNext]_haltVars
    PROVE  HoldsItsHalt'
<1>1. \A p \in Runners :
          runner_pc'[p] \in {"watch", "close", "record"} => current'[p] \in Watchers
  BY HaltsStepIsARunnersStep, PassesAreOfWatchers
<1>2. SUFFICES /\ halting' \in [Runners -> Watchers \cup {Nothing}]
               /\ \A q \in Runners : halting'[q] # Nothing <=> runner_pc'[q] = "halted"
  BY <1>1 DEF HoldsItsHalt
<1>3. Worker \in Runners /\ Manual \subseteq Runners
  BY DEF Runners
<1>4. ASSUME halting' = halting,
             NEW p \in Runners, runner_pc[p] # "halted",
             NEW label, label # "halted", Go(p, label)
      PROVE  \A q \in Runners : halting'[q] # Nothing <=> runner_pc'[q] = "halted"
  BY <1>4 DEF Go, HoldsItsHalt, RunnerTyped
<1>5. ASSUME NEW p \in Runners, halting' = [halting EXCEPT ![p] = Nothing],
             NEW label, label # "halted", Go(p, label)
      PROVE  /\ halting' \in [Runners -> Watchers \cup {Nothing}]
             /\ \A q \in Runners : halting'[q] # Nothing <=> runner_pc'[q] = "halted"
  BY <1>5 DEF Go, HoldsItsHalt, RunnerTyped
<1>6. ASSUME NEW p \in Runners, GoOn(p)
      PROVE  \A q \in Runners : halting'[q] # Nothing <=> runner_pc'[q] = "halted"
  <2>1. halting' = halting
    BY <1>6 DEF GoOn
  <2>2. CASE Watch(p)
    BY <1>4, <2>1, <2>2 DEF Watch
  <2>3. CASE CloseRun(p)
    BY <1>4, <2>1, <2>3 DEF CloseRun
  <2>4. CASE Tick
    BY <1>3, <1>4, <2>1, <2>4 DEF Tick
  <2>5. CASE RunListed
    BY <1>3, <1>4, <2>1, <2>5 DEF RunListed, OpenRun
  <2>6. CASE EndTick
    BY <1>3, <1>4, <2>1, <2>6 DEF EndTick
  <2>7. QED
    BY <1>6, <2>2, <2>3, <2>4, <2>5, <2>6 DEF GoOn
<1>7. ASSUME Meanwhile
      PROVE  \A q \in Runners : halting'[q] # Nothing <=> runner_pc'[q] = "halted"
  <2>1. halting' = halting
    BY <1>7 DEF Meanwhile
  <2>2. ASSUME NEW p \in Manual, NEW k \in Watchers, RunNow(p, k)
        PROVE  \A q \in Runners : halting'[q] # Nothing <=> runner_pc'[q] = "halted"
    BY <1>3, <1>4, <2>1, <2>2 DEF RunNow, OpenRun
  <2>3. ASSUME \/ \E k \in Watchers : Lapse(k)
               \/ \E k \in Watchers, on \in BOOLEAN : SetEnabled(k, on)
        PROVE  runner_pc' = runner_pc
    BY <2>3 DEF Lapse, SetEnabled
  <2>4. QED
    BY <1>7, <2>1, <2>2, <2>3 DEF Meanwhile, HoldsItsHalt
<1>8. ASSUME NEW p \in Runners, Count(p)
      PROVE  /\ halting' \in [Runners -> Watchers \cup {Nothing}]
             /\ \A q \in Runners : halting'[q] # Nothing <=> runner_pc'[q] = "halted"
  <2>1. /\ runner_pc[p] = "record" /\ current[p] \in Watchers
        /\ halting[p] = Nothing
        /\ halting' = [halting EXCEPT ![p] = IF runner_pc'[p] = "halted" THEN current[p]
                                             ELSE halting[p]]
    BY <1>8 DEF Count, Record, HoldsItsHalt
  <2>2. PICK label : Go(p, label)
    BY <1>8 DEF Count, Record, Next_watcher
  <2>3. \A q \in Runners : runner_pc'[q] = IF q = p THEN label ELSE runner_pc[q]
    BY <2>2 DEF Go, RunnerTyped
  <2>4. QED
    BY <2>1, <2>3, WatcherRunnerAssumption DEF HoldsItsHalt
<1>9. ASSUME NEW p \in Runners, Reported(p)
      PROVE  /\ halting' \in [Runners -> Watchers \cup {Nothing}]
             /\ \A q \in Runners : halting'[q] # Nothing <=> runner_pc'[q] = "halted"
  <2>1. \E label \in {"idle", "next"} : Go(p, label)
    BY <1>9 DEF Reported, AlertHalted, Next_watcher
  <2>2. QED
    BY <1>5, <1>9, <2>1 DEF Reported
<1>10. ASSUME NEW p \in Runners, CutShort(p)
       PROVE  /\ halting' \in [Runners -> Watchers \cup {Nothing}]
              /\ \A q \in Runners : halting'[q] # Nothing <=> runner_pc'[q] = "halted"
  BY <1>5, <1>10 DEF CutShort, CutOff
<1>11. ASSUME UNCHANGED <<runnerVars, halting>>
       PROVE  \A q \in Runners : halting'[q] # Nothing <=> runner_pc'[q] = "halted"
  BY <1>11 DEF runnerVars, HoldsItsHalt
<1>12. halting \in [Runners -> Watchers \cup {Nothing}]
  BY DEF HoldsItsHalt
<1>13. ASSUME NEW p \in Runners, Works(p) \/ Swallow(p) \/ CutShort(p)
       PROVE  /\ halting' \in [Runners -> Watchers \cup {Nothing}]
              /\ \A q \in Runners : halting'[q] # Nothing <=> runner_pc'[q] = "halted"
  <2>1. CASE GoOn(p)
    BY <1>6, <1>12, <2>1 DEF GoOn
  <2>2. CASE Report(p)
    BY <1>9, <1>11, <1>12, <2>2 DEF Report
  <2>3. CASE Swallow(p) \/ Answered(p)
    BY <1>9, <2>3 DEF Swallow, Answered
  <2>4. QED
    BY <1>8, <1>10, <1>13, <2>1, <2>2, <2>3 DEF Works
<1>14. QED
  <2>1. CASE Meanwhile
    BY <1>7, <1>12, <2>1 DEF Meanwhile
  <2>2. CASE UNCHANGED haltVars \/ \E k \in Watchers : Forgotten(k)
    BY <1>11, <1>12, <2>2 DEF haltVars, Forgotten
  <2>3. QED
    BY <1>13, <2>1, <2>2 DEF HaltsNext

\* Whose process and whose condition it is.
LEMMA HaltsStepIsAnAlertsStep ==
    ASSUME HoldsItsHalt, [HaltsNext]_haltVars
    PROVE  [AlertsNext]_alertVars
<1>1. Processes = Runners /\ Conditions = Watchers
  BY HaltsAssumption
<1>2. ASSUME NEW p \in Runners, Report(p) PROVE AlertsNext
  <2>1. halting[p] \in Conditions /\ p \in Processes
    BY <1>1, <1>2 DEF Report, HoldsItsHalt
  <2>2. QED
    BY <1>2, <2>1 DEF Report, AlertsNext
<1>3. ASSUME NEW p \in Runners, Answered(p) PROVE AlertsNext
  BY <1>1, <1>3 DEF Answered, AlertsNext, Finish
<1>4. ASSUME NEW p \in Runners, CutShort(p) PROVE AlertsNext \/ UNCHANGED alertVars
  BY <1>1, <1>4 DEF CutShort, AlertsNext, Finish
<1>5. ASSUME NEW k \in Watchers, Forgotten(k) PROVE AlertsNext
  BY <1>1, <1>5 DEF Forgotten, AlertsNext
<1>6. ASSUME NEW p \in Runners, GoOn(p) \/ Count(p) \/ Swallow(p) PROVE UNCHANGED alertVars
  BY <1>6 DEF GoOn, Count, Swallow
<1>7. QED
  BY <1>2, <1>3, <1>4, <1>5, <1>6 DEF HaltsNext, Works, Meanwhile, haltVars

\* What a process that is halted reports of, and what is sent, agree; a mark
\* that suppresses a report stands for an e-mail or for a report that failed.
ReportsItsHalt == \A p \in Runners : ~Idle(p) => sending[p].key = halting[p]

Marked(k) == last_sent[k] = "recent" \/ \E p \in Runners : local_sent[p][k] = "recent"

Sent(k) == \E p \in Runners : About(p, k)

MarksAreAnswered == \A k \in Watchers : Marked(k) => emails[k] > 0 \/ k \in unheard \/ Sent(k)

Said == ReportsItsHalt /\ MarksAreAnswered /\ HaltsAreTold

\* Counts that do not rise halt nobody, and what was told of the halted is kept.
LEMMA ToldStays ==
    ASSUME RunnerTyped, HaltsAreTold,
           \A k \in Watchers : errors'[k] \in {0, errors[k]},
           told' = StillHalted(told), halting' = halting, unheard' = unheard
    PROVE  HaltsAreTold'
<1>1. \A k \in Watchers : Halted(k)' => Halted(k) /\ errors'[k] >= MAX_CONSECUTIVE_ERRORS
  BY WatcherRunnerAssumption DEF Halted, RunnerTyped
<1>2. QED
  BY <1>1 DEF HaltsAreTold, StillHalted

\* A process is done with its report; the others are where they were.
LEMMA ReportIsOver ==
    ASSUME HoldsItsHalt, Said, NEW p \in Runners, NEW k \in Watchers, halting[p] = k,
           halting' = [halting EXCEPT ![p] = Nothing], errors' = errors,
           told \cap {j \in Watchers : Halted(j)} \subseteq told',
           \A j \in Watchers : j # k /\ j \in unheard => j \in unheard',
           Halted(k) => k \in told' \cup unheard' \/ Sent(k)',
           \A q \in Runners : ~Idle(q)' => q # p /\ sending'[q] = sending[q] /\ ~Idle(q)
    PROVE  ReportsItsHalt' /\ HaltsAreTold'
<1>1. \A q \in Runners : halting'[q] = IF q = p THEN Nothing ELSE halting[q]
  BY DEF HoldsItsHalt
<1>2. ReportsItsHalt'
  BY <1>1 DEF ReportsItsHalt, Said
<1>3. ASSUME NEW j \in Watchers, Halted(j)'
      PROVE  j \in told' \cup unheard' \/ \E q \in Runners : halting'[q] = j
  <2>1. Halted(j)
    BY <1>3 DEF Halted
  <2>2. CASE j = k
    <3>1. ASSUME Sent(k)' PROVE \E q \in Runners : halting'[q] = k
      BY <1>2, <3>1 DEF Sent, About, ReportsItsHalt
    <3>2. QED
      BY <2>1, <2>2, <3>1
  <2>3. CASE j # k
    BY <1>1, <2>1, <2>3 DEF Said, HaltsAreTold
  <2>4. QED
    BY <2>2, <2>3
<1>4. QED
  BY <1>2, <1>3 DEF HaltsAreTold

HaltsTyped == RunnerTyped /\ AlertsTypeOK /\ HoldsItsHalt

LEMMA NobodyHaltsOrReports ==
    ASSUME HaltsTyped, Said, NEW p \in Runners, GoOn(p)
    PROVE  Said'
<1>1. errors' = errors /\ UNCHANGED <<alertVars, halting, told, unheard>>
  BY DEF GoOn, Watch, CloseRun, Tick, RunListed, EndTick, OpenRun, workflows
<1>2. QED
  BY <1>1 DEF Said, ReportsItsHalt, MarksAreAnswered, HaltsAreTold, Marked, Sent, About, Idle,
              Halted, alertVars

LEMMA MeanwhileKeepsSaid ==
    ASSUME HaltsTyped, Said, Meanwhile
    PROVE  Said'
<1>1. told' = StillHalted(told) /\ UNCHANGED <<alertVars, halting, unheard>>
  BY DEF Meanwhile
<1>2. \A k \in Watchers : errors'[k] \in {0, errors[k]}
  BY DEF Meanwhile, RunNow, OpenRun, Lapse, SetEnabled, workflows, HaltsTyped, RunnerTyped
<1>3. HaltsAreTold'
  BY <1>1, <1>2, ToldStays DEF Said, HaltsTyped
<1>4. QED
  BY <1>1, <1>3 DEF Said, ReportsItsHalt, MarksAreAnswered, Marked, Sent, About, Idle, alertVars

\* A failure that halts a watcher is held; every other count halts nobody.
LEMMA CountKeepsSaid ==
    ASSUME HaltsTyped, HoldsItsHalt', Said, NEW p \in Runners, Count(p)
    PROVE  Said'
<1> DEFINE c == current[p]
<1>1. /\ runner_pc[p] = "record" /\ c \in Watchers /\ halting[p] = Nothing
      /\ halting' = [halting EXCEPT ![p] = IF runner_pc'[p] = "halted" THEN c ELSE halting[p]]
      /\ told' = StillHalted(told) /\ UNCHANGED <<alertVars, unheard>>
  BY DEF Count, Record, HaltsTyped, HoldsItsHalt
<1>2. errors' = [errors EXCEPT ![c] = Counted(c, verdict[p])] /\ verdict[p] \in {"ok", "error"}
  BY DEF Count, Record, HaltsTyped, RunnerTyped
<1>3. verdict[p] = "error" /\ errors'[c] >= MAX_CONSECUTIVE_ERRORS => Go(p, "halted")
  BY DEF Count, Record, watcher_halted
<1> HIDE DEF c
<1>4. \A q \in Runners : halting[q] # Nothing => halting'[q] = halting[q]
  BY <1>1 DEF HaltsTyped, HoldsItsHalt
<1>5. ReportsItsHalt'
  <2>1. \A q \in Runners : ~Idle(q) => sending[q].key # Nothing
    BY HaltsAssumption, SendingIsTyped, WatcherRunnerAssumption DEF HaltsTyped
  <2>2. QED
    BY <1>1, <1>4, <2>1 DEF Said, ReportsItsHalt, Idle, alertVars
<1>6. ASSUME NEW k \in Watchers, Halted(k)'
      PROVE  k \in told' \cup unheard' \/ \E q \in Runners : halting'[q] = k
  <2>1. CASE k = c
    <3>1. errors'[c] = Counted(c, verdict[p]) /\ errors'[c] >= MAX_CONSECUTIVE_ERRORS
      BY <1>1, <1>2, <1>6, <2>1 DEF HaltsTyped, RunnerTyped, Halted
    <3>2. verdict[p] = "error"
      BY <1>2, <3>1, WatcherRunnerAssumption DEF Counted
    <3>3. runner_pc'[p] = "halted"
      BY <1>3, <3>1, <3>2 DEF Go, HaltsTyped, RunnerTyped
    <3>4. halting'[p] = c
      BY <1>1, <3>3 DEF HaltsTyped, HoldsItsHalt
    <3>5. QED
      BY <2>1, <3>4
  <2>2. CASE k # c
    <3>1. errors'[k] = errors[k]
      BY <1>2, <2>2 DEF HaltsTyped, RunnerTyped
    <3>2. Halted(k) /\ errors'[k] >= MAX_CONSECUTIVE_ERRORS
      BY <1>6, <3>1 DEF Halted
    <3>3. CASE k \in told \cup unheard
      BY <1>1, <3>2, <3>3 DEF StillHalted
    <3>4. CASE \E q \in Runners : halting[q] = k
      BY <1>4, <3>4, WatcherRunnerAssumption
    <3>5. QED
      BY <3>2, <3>3, <3>4 DEF Said, HaltsAreTold
  <2>3. QED
    BY <2>1, <2>2
<1>7. MarksAreAnswered'
  BY <1>1 DEF Said, MarksAreAnswered, Marked, Sent, About, Idle, alertVars
<1>8. QED
  BY <1>5, <1>6, <1>7 DEF Said, HaltsAreTold

\* A report is suppressed by a mark, or claims the condition and is on its way.
LEMMA RaisingMarks ==
    ASSUME HaltsTyped, NEW p \in Runners, NEW k \in Watchers, Raise(p, k) \/ RaiseLocally(p, k)
    PROVE  /\ Idle(p) /\ emails' = emails
           /\ \/ Idle(p)' /\ Marked(k) /\ UNCHANGED <<last_sent, local_sent, sending>>
              \/ /\ ~Idle(p)' /\ sending'[p].key = k
                 /\ \A q \in Runners \ {p} : sending'[q] = sending[q]
                 /\ \A j \in Watchers : j # k => (Marked(j)' => Marked(j))
<1>1. Processes = Runners /\ Conditions = Watchers
  BY HaltsAssumption
<1>2. last_sent[k] \in Times /\ local_sent[p][k] \in Times
  BY <1>1 DEF HaltsTyped, AlertsTypeOK
<1>3. ASSUME NEW t \in BOOLEAN, NEW previous \in Times, Begin(p, k, t, previous)
      PROVE  /\ ~Idle(p)' /\ sending'[p].key = k
             /\ \A q \in Runners \ {p} : sending'[q] = sending[q]
  BY <1>1, <1>3, ClaimIsMade DEF HaltsTyped
<1>4. CASE Raise(p, k)
  <2>1. Idle(p) /\ emails' = emails /\ local_sent' = local_sent
    BY <1>4 DEF Raise
  <2>2. CASE ShouldSend(last_sent[k])
    <3>1. last_sent' = [last_sent EXCEPT ![k] = "recent"] /\ Begin(p, k, TRUE, last_sent[k])
      BY <1>4, <2>2 DEF Raise
    <3>2. \A j \in Watchers : j # k => last_sent'[j] = last_sent[j]
      BY <1>1, <3>1 DEF HaltsTyped, AlertsTypeOK
    <3>3. \A j \in Watchers : j # k => (Marked(j)' => Marked(j))
      BY <2>1, <3>2 DEF Marked
    <3>4. QED
      BY <1>2, <1>3, <2>1, <3>1, <3>3
  <2>3. CASE ~ShouldSend(last_sent[k])
    <3>1. UNCHANGED <<last_sent, local_sent, sending>> /\ last_sent[k] = "recent"
      BY <1>2, <1>4, <2>1, <2>3 DEF Raise, ShouldSend, Times
    <3>2. QED
      BY <2>1, <3>1 DEF Marked, Idle
  <2>4. QED
    BY <2>2, <2>3
<1>5. CASE RaiseLocally(p, k)
  <2>1. Idle(p) /\ emails' = emails /\ last_sent' = last_sent
    BY <1>5 DEF RaiseLocally
  <2>2. CASE ShouldSend(local_sent[p][k])
    <3>1. /\ local_sent' = [local_sent EXCEPT ![p][k] = "recent"]
          /\ Begin(p, k, FALSE, local_sent[p][k])
      BY <1>5, <2>2 DEF RaiseLocally
    <3>2. \A j \in Watchers, q \in Runners : j # k => local_sent'[q][j] = local_sent[q][j]
      BY <1>1, <3>1 DEF HaltsTyped, AlertsTypeOK
    <3>3. \A j \in Watchers : j # k => (Marked(j)' => Marked(j))
      BY <2>1, <3>2 DEF Marked
    <3>4. QED
      BY <1>2, <1>3, <2>1, <3>1, <3>3
  <2>3. CASE ~ShouldSend(local_sent[p][k])
    <3>1. UNCHANGED <<last_sent, local_sent, sending>> /\ local_sent[p][k] = "recent"
      BY <1>2, <1>5, <2>1, <2>3 DEF RaiseLocally, ShouldSend, Times
    <3>2. QED
      BY <2>1, <3>1 DEF Marked, Idle
  <2>4. QED
    BY <2>2, <2>3
<1>6. QED
  BY <1>4, <1>5

LEMMA ReportKeepsSaid ==
    ASSUME HaltsTyped, Said, NEW p \in Runners, Report(p)
    PROVE  Said'
<1>1. PICK k \in Watchers : halting[p] = k
  BY DEF Report, HaltsTyped, HoldsItsHalt
<1>2. Raise(p, k) \/ RaiseLocally(p, k)
  BY <1>1 DEF Report
<1>3. CASE Idle(p)'
  <2>1. /\ Idle(p) /\ Marked(k) /\ UNCHANGED <<emails, last_sent, local_sent, sending>>
    BY <1>2, <1>3, RaisingMarks
  <2>2. /\ AlertHalted(p) /\ halting' = [halting EXCEPT ![p] = Nothing] /\ unheard' = unheard
        /\ told' = IF emails[k] > 0 THEN StillHalted(told \cup {k}) ELSE told
    BY <1>1, <1>3 DEF Report, Reported
  <2>3. errors' = errors
    BY <2>2 DEF AlertHalted, workflows
  <2>4. told \cap {j \in Watchers : Halted(j)} \subseteq told'
    BY <2>2, <2>3 DEF StillHalted, Halted
  <2>5. ASSUME Halted(k) PROVE k \in told' \cup unheard' \/ Sent(k)'
    <3>1. CASE emails[k] > 0
      BY <2>2, <2>3, <2>5, <3>1 DEF StillHalted, Halted
    <3>2. CASE k \in unheard \/ Sent(k)
      BY <2>1, <2>2, <3>2 DEF Sent, About, Idle
    <3>3. QED
      BY <2>1, <3>1, <3>2 DEF Said, MarksAreAnswered
  <2>6. \A q \in Runners : ~Idle(q)' => q # p /\ sending'[q] = sending[q] /\ ~Idle(q)
    BY <2>1 DEF Idle
  <2>7. ReportsItsHalt' /\ HaltsAreTold'
    BY <1>1, <2>2, <2>3, <2>4, <2>5, <2>6, ReportIsOver DEF HaltsTyped
  <2>8. MarksAreAnswered'
    BY <2>1, <2>2 DEF Said, MarksAreAnswered, Marked, Sent, About, Idle
  <2>9. QED
    BY <2>7, <2>8 DEF Said
<1>4. CASE ~Idle(p)'
  <2>1. /\ Idle(p) /\ emails' = emails /\ sending'[p].key = k
        /\ \A q \in Runners \ {p} : sending'[q] = sending[q]
        /\ \A j \in Watchers : j # k => (Marked(j)' => Marked(j))
    BY <1>2, <1>4, RaisingMarks
  <2>2. unheard' = unheard \ {k} /\ UNCHANGED <<errors, halting, told>>
    BY <1>1, <1>4 DEF Report, runnerVars, workflows
  <2>3. ReportsItsHalt'
    BY <1>1, <2>1, <2>2 DEF Said, ReportsItsHalt, Idle
  <2>4. HaltsAreTold'
    BY <1>1, <2>2 DEF Said, HaltsAreTold, Halted
  <2>5. Sent(k)' /\ \A j \in Watchers : Sent(j) => Sent(j)'
    BY <1>4, <2>1 DEF Sent, About, Idle
  <2>6. MarksAreAnswered'
    BY <2>1, <2>2, <2>5 DEF Said, MarksAreAnswered
  <2>7. QED
    BY <2>3, <2>4, <2>6 DEF Said
<1>5. QED
  BY <1>3, <1>4

\* raise_alert fails and is swallowed: nothing was marked.
LEMMA SwallowKeepsSaid ==
    ASSUME HaltsTyped, Said, NEW p \in Runners, Swallow(p)
    PROVE  Said'
<1>1. PICK k \in Watchers : halting[p] = k
  BY DEF Swallow, Reported, AlertHalted, HaltsTyped, HoldsItsHalt
<1>2. /\ Idle(p) /\ AlertHalted(p) /\ halting' = [halting EXCEPT ![p] = Nothing]
      /\ unheard' = unheard \cup {k} /\ UNCHANGED <<alertVars, told>>
  BY <1>1 DEF Swallow, Reported
<1>3. errors' = errors
  BY <1>2 DEF AlertHalted, workflows
<1>4. \A q \in Runners : ~Idle(q)' => q # p /\ sending'[q] = sending[q] /\ ~Idle(q)
  BY <1>2 DEF Idle, alertVars
<1>5. ReportsItsHalt' /\ HaltsAreTold'
  BY <1>1, <1>2, <1>3, <1>4, ReportIsOver DEF HaltsTyped
<1>6. MarksAreAnswered'
  BY <1>2 DEF Said, MarksAreAnswered, Marked, Sent, About, Idle, alertVars
<1>7. QED
  BY <1>5, <1>6 DEF Said

\* A process is done sending about k; for every other watcher nothing is marked
\* or lost by it.
LEMMA SendingIsOver ==
    ASSUME HaltsTyped, Said, NEW p \in Runners, NEW k \in Watchers,
           ~Idle(p), sending[p].key = k, sending' = [sending EXCEPT ![p] = NoAlert],
           emails'[k] > 0 \/ k \in unheard',
           \A j \in Watchers : j # k =>
               (Marked(j)' => Marked(j)) /\ emails'[j] = emails[j] /\ (j \in unheard => j \in unheard')
    PROVE  /\ MarksAreAnswered'
           /\ \A q \in Runners : ~Idle(q)' => q # p /\ sending'[q] = sending[q] /\ ~Idle(q)
<1>1. \A q \in Runners : sending'[q] = IF q = p THEN NoAlert ELSE sending[q]
  BY HaltsAssumption DEF HaltsTyped, AlertsTypeOK
<1>2. \A j \in Watchers : j # k => (Sent(j) => Sent(j)')
  BY <1>1 DEF Sent, About, Idle
<1>3. MarksAreAnswered'
  BY <1>2 DEF Said, MarksAreAnswered
<1>4. QED
  BY <1>1, <1>3 DEF Idle

\* What a process that delivers, gives up or dies leaves behind.
LEMMA FinishingMarks ==
    ASSUME HaltsTyped, NEW p \in Runners, NEW k \in Watchers, ~Idle(p), sending[p].key = k,
           Finish(p)
    PROVE  /\ sending' = [sending EXCEPT ![p] = NoAlert]
           /\ \A j \in Watchers : j # k => (Marked(j)' => Marked(j)) /\ emails'[j] = emails[j]
           /\ IF Deliver(p) THEN emails'[k] > 0 ELSE emails' = emails
<1>1. Processes = Runners /\ Conditions = Watchers
  BY HaltsAssumption
<1>2. CASE Deliver(p)
  <2>1. emails' = [emails EXCEPT ![k] = emails[k] + 1] /\ UNCHANGED <<last_sent, local_sent>>
        /\ sending' = [sending EXCEPT ![p] = NoAlert]
    BY <1>2 DEF Deliver
  <2>2. /\ \A j \in Watchers : emails'[j] = IF j = k THEN emails[k] + 1 ELSE emails[j]
        /\ emails[k] \in Nat
    BY <1>1, <2>1 DEF HaltsTyped, AlertsTypeOK
  <2>3. emails'[k] > 0
    BY <2>2
  <2>4. QED
    BY <1>2, <2>1, <2>2, <2>3 DEF Marked
<1>3. CASE Unmark(p) /\ ~Deliver(p)
  <2>1. /\ emails' = emails /\ sending' = [sending EXCEPT ![p] = NoAlert]
        /\ \/ local_sent' = local_sent /\ last_sent' = [last_sent EXCEPT ![k] = sending[p].previous]
           \/ /\ last_sent' = last_sent
              /\ local_sent' = [local_sent EXCEPT ![p][k] = sending[p].previous]
    BY <1>3 DEF Unmark
  <2>2. \A j \in Watchers : j # k => last_sent'[j] = last_sent[j]
    BY <1>1, <2>1 DEF HaltsTyped, AlertsTypeOK
  <2>3. \A j \in Watchers, q \in Runners : j # k => local_sent'[q][j] = local_sent[q][j]
    BY <1>1, <2>1 DEF HaltsTyped, AlertsTypeOK
  <2>4. \A j \in Watchers : j # k => (Marked(j)' => Marked(j))
    BY <2>2, <2>3 DEF Marked
  <2>5. QED
    BY <1>3, <2>1, <2>4
<1>4. CASE Lose(p) /\ ~Deliver(p)
  <2>1. /\ UNCHANGED <<emails, last_sent>> /\ sending' = [sending EXCEPT ![p] = NoAlert]
        /\ local_sent' = local_sent \/ local_sent' = [local_sent EXCEPT ![p] = NoMemory]
    BY <1>4 DEF Lose
  <2>2. \A j \in Watchers, q \in Runners :
            local_sent'[q][j] = "recent" => local_sent[q][j] = "recent"
    BY <1>1, <2>1 DEF HaltsTyped, AlertsTypeOK, NoMemory
  <2>3. \A j \in Watchers : Marked(j)' => Marked(j)
    BY <2>1, <2>2 DEF Marked
  <2>4. QED
    BY <1>4, <2>1, <2>3
<1>5. QED
  BY <1>2, <1>3, <1>4 DEF Finish

LEMMA AnsweredKeepsSaid ==
    ASSUME HaltsTyped, Said, NEW p \in Runners, Answered(p)
    PROVE  Said'
<1>1. ~Idle(p) /\ Finish(p)
  BY DEF Answered, Deliver, Unmark, Lose, Finish
<1>2. PICK k \in Watchers : halting[p] = k
  BY DEF Answered, Reported, AlertHalted, HaltsTyped, HoldsItsHalt
<1>3. sending[p].key = k
  BY <1>1, <1>2 DEF Said, ReportsItsHalt
<1>4. /\ sending' = [sending EXCEPT ![p] = NoAlert]
      /\ \A j \in Watchers : j # k => (Marked(j)' => Marked(j)) /\ emails'[j] = emails[j]
      /\ IF Deliver(p) THEN emails'[k] > 0 ELSE emails' = emails
  BY <1>1, <1>3, FinishingMarks
<1>5. AlertHalted(p) /\ halting' = [halting EXCEPT ![p] = Nothing] /\ errors' = errors
  BY DEF Answered, Reported, AlertHalted, workflows
<1>6. \/ /\ Deliver(p)
         /\ told' = StillHalted(told \cup {k}) /\ unheard' = unheard \ {k}
      \/ ~Deliver(p) /\ unheard' = unheard \cup {k} /\ told' = told
  <2>1. \/ Deliver(p) /\ told' = StillHalted(told \cup {k}) /\ unheard' = unheard \ {k}
        \/ (Unmark(p) \/ Lose(p)) /\ unheard' = unheard \cup {k} /\ told' = told
    BY <1>2 DEF Answered
  <2>2. Unmark(p) \/ Lose(p) => ~Deliver(p)
    <3>1. Unmark(p) \/ Lose(p) => emails' = emails
      BY DEF Unmark, Lose
    <3>2. emails[k] \in Nat
      BY HaltsAssumption DEF HaltsTyped, AlertsTypeOK
    <3>3. Deliver(p) => emails'[k] = emails[k] + 1
      BY <1>3, HaltsAssumption DEF Deliver, HaltsTyped, AlertsTypeOK
    <3>4. QED
      BY <3>1, <3>2, <3>3
  <2>3. QED
    BY <2>1, <2>2
<1>7. emails'[k] > 0 \/ k \in unheard'
  BY <1>4, <1>6
<1>8. /\ told \cap {j \in Watchers : Halted(j)} \subseteq told'
      /\ \A j \in Watchers : j # k /\ j \in unheard => j \in unheard'
      /\ Halted(k) => k \in told' \cup unheard'
  BY <1>5, <1>6 DEF StillHalted, Halted
<1>9. /\ MarksAreAnswered'
      /\ \A q \in Runners : ~Idle(q)' => q # p /\ sending'[q] = sending[q] /\ ~Idle(q)
  BY <1>1, <1>3, <1>4, <1>7, <1>8, SendingIsOver
<1>10. ReportsItsHalt' /\ HaltsAreTold'
  BY <1>2, <1>5, <1>8, <1>9, ReportIsOver DEF HaltsTyped
<1>11. QED
  BY <1>9, <1>10 DEF Said

\* Whoever dies with a report leaves it failed.
LEMMA CutShortKeepsSaid ==
    ASSUME HaltsTyped, Said, NEW p \in Runners, CutShort(p)
    PROVE  Said'
<1>1. /\ halting' = [halting EXCEPT ![p] = Nothing] /\ errors' = errors /\ told' = told
      /\ unheard' = unheard \cup ({halting[p]} \ {Nothing})
  BY DEF CutShort, CutOff, workflows
<1>2. CASE Lose(p)
  <2>1. ~Idle(p) /\ Finish(p)
    BY <1>2 DEF Lose, Finish
  <2>2. PICK k \in Watchers : sending[p].key = k
    BY <2>1, SendingIsTyped, HaltsAssumption DEF HaltsTyped
  <2>3. halting[p] = k /\ k \in unheard'
    BY <1>1, <2>1, <2>2, WatcherRunnerAssumption DEF Said, ReportsItsHalt
  <2>4. /\ sending' = [sending EXCEPT ![p] = NoAlert]
        /\ \A j \in Watchers : j # k => (Marked(j)' => Marked(j)) /\ emails'[j] = emails[j]
    BY <2>1, <2>2, FinishingMarks
  <2>5. /\ MarksAreAnswered'
        /\ \A q \in Runners : ~Idle(q)' => q # p /\ sending'[q] = sending[q] /\ ~Idle(q)
    BY <1>1, <2>1, <2>2, <2>3, <2>4, SendingIsOver
  <2>6. ReportsItsHalt' /\ HaltsAreTold'
    BY <1>1, <2>3, <2>5, ReportIsOver DEF HaltsTyped
  <2>7. QED
    BY <2>5, <2>6 DEF Said
<1>3. CASE ~Lose(p)
  <2>1. /\ Idle(p) /\ UNCHANGED <<last_sent, emails, sending>>
        /\ local_sent' = local_sent \/ local_sent' = [local_sent EXCEPT ![p] = NoMemory]
    <3>1. CASE Restart(p)
      BY <3>1 DEF Restart
    <3>2. CASE runner_pc[p] # "halted" /\ UNCHANGED alertVars
      <4>1. halting[p] = Nothing
        BY <3>2 DEF HaltsTyped, HoldsItsHalt
      <4>2. Idle(p)
        BY <4>1, SendingIsTyped, HaltsAssumption, WatcherRunnerAssumption
        DEF HaltsTyped, Said, ReportsItsHalt
      <4>3. QED
        BY <3>2, <4>2 DEF alertVars
    <3>3. QED
      BY <1>3, <3>1, <3>2 DEF CutShort
  <2>2. \A j \in Watchers, q \in Runners :
            local_sent'[q][j] = "recent" => local_sent[q][j] = "recent"
    BY <2>1, HaltsAssumption DEF HaltsTyped, AlertsTypeOK, NoMemory
  <2>3. MarksAreAnswered'
    BY <1>1, <2>1, <2>2 DEF Said, MarksAreAnswered, Marked, Sent, About, Idle
  <2>4. \A q \in Runners : ~Idle(q)' => q # p /\ sending'[q] = sending[q] /\ ~Idle(q)
    BY <2>1 DEF Idle
  <2>5. CASE halting[p] = Nothing
    <3>1. halting' = halting /\ unheard' = unheard
      BY <1>1, <2>5 DEF HaltsTyped, HoldsItsHalt
    <3>2. QED
      BY <1>1, <2>1, <2>3, <3>1 DEF Said, ReportsItsHalt, HaltsAreTold, Halted, Idle
  <2>6. CASE halting[p] # Nothing
    <3>1. PICK k \in Watchers : halting[p] = k
      BY <2>6 DEF HaltsTyped, HoldsItsHalt
    <3>2. k \in unheard'
      BY <1>1, <2>6, <3>1
    <3>3. ReportsItsHalt' /\ HaltsAreTold'
      BY <1>1, <2>4, <3>1, <3>2, ReportIsOver DEF HaltsTyped
    <3>4. QED
      BY <2>3, <3>3 DEF Said
  <2>7. QED
    BY <2>5, <2>6
<1>4. QED
  BY <1>2, <1>3

LEMMA ForgottenKeepsSaid ==
    ASSUME HaltsTyped, Said, NEW k \in Watchers, Forgotten(k)
    PROVE  Said'
<1>1. /\ last_sent' = [last_sent EXCEPT ![k] = Aged(last_sent[k])]
      /\ local_sent' = [q \in Runners |-> [local_sent[q] EXCEPT ![k] = Aged(local_sent[q][k])]]
      /\ emails' = [emails EXCEPT ![k] = 0]
      /\ UNCHANGED <<sending, errors, halting, told, unheard>>
  BY HaltsAssumption DEF Forgotten, CooldownEnds, runnerVars, workflows
<1>2. \A j \in Watchers :
          /\ last_sent'[j] = IF j = k THEN Aged(last_sent[j]) ELSE last_sent[j]
          /\ \A q \in Runners :
                 local_sent'[q][j] = IF j = k THEN Aged(local_sent[q][j]) ELSE local_sent[q][j]
          /\ j # k => emails'[j] = emails[j]
  BY <1>1, HaltsAssumption DEF HaltsTyped, AlertsTypeOK
<1>3. \A j \in Watchers : Marked(j)' => Marked(j) /\ j # k
  BY <1>2 DEF Marked, Aged
<1>4. QED
  BY <1>1, <1>2, <1>3 DEF Said, ReportsItsHalt, MarksAreAnswered, HaltsAreTold, Sent, About, Idle,
                          Halted

LEMMA SaidStays ==
    ASSUME HaltsTyped, HoldsItsHalt', Said, [HaltsNext]_haltVars
    PROVE  Said'
<1>1. CASE UNCHANGED haltVars
  BY <1>1 DEF haltVars, runnerVars, workflows, alertVars, Said, ReportsItsHalt, MarksAreAnswered,
              HaltsAreTold, Marked, Sent, About, Idle, Halted
<1>2. QED
  BY <1>1, NobodyHaltsOrReports, MeanwhileKeepsSaid, CountKeepsSaid, ReportKeepsSaid,
     SwallowKeepsSaid, AnsweredKeepsSaid, CutShortKeepsSaid, ForgottenKeepsSaid
  DEF HaltsNext, Works

LEMMA HaltsAtFirst == HaltsInit => RunnerInv /\ HoldsItsHalt /\ Said
<1>1. SUFFICES ASSUME HaltsInit PROVE RunnerInv /\ HoldsItsHalt /\ Said
  OBVIOUS
<1>2. RunnerInv
  BY <1>1, RunnerAtFirst DEF HaltsInit
<1>3. HoldsItsHalt
  BY <1>1 DEF HaltsInit, RunnerInit, HoldsItsHalt
<1>4. \A k \in Watchers : ~Halted(k) /\ ~Marked(k)
  BY <1>1, HaltsAssumption, WatcherRunnerAssumption
  DEF HaltsInit, RunnerInit, AlertsInit, Halted, Marked
<1>5. \A p \in Runners : Idle(p)
  BY <1>1, HaltsAssumption DEF HaltsInit, AlertsInit, Idle
<1>6. QED
  BY <1>2, <1>3, <1>4, <1>5 DEF Said, ReportsItsHalt, MarksAreAnswered, HaltsAreTold

\* The two together are each what it is alone: a report is a step of the runner
\* and one of the alerts, and neither can tell that the other is there.
THEOREM HaltsKeepTheirParts == HaltsSpec => RunnerSpec /\ AlertsSpec
<1>1. HaltsInit => RunnerInit /\ AlertsInit
  BY DEF HaltsInit
<1>2. RunnerInv => RunnerTyped
  BY DEF RunnerInv
<1>3. QED
  BY <1>1, <1>2, HaltsAtFirst, RunnerInvStays, HoldsItsHaltStays, HaltsStepIsARunnersStep,
     HaltsStepIsAnAlertsStep, PTL
  DEF HaltsSpec, RunnerSpec, AlertsSpec

\* runner.py: no watcher stops in silence.  Whichever processes count, report,
\* send, fail and die, in any order, a watcher that is halted has been emailed
\* about since, is about to be, or its latest report came to nothing.
THEOREM HaltsAreAlwaysTold == HaltsSpec => []HaltsAreTold
<1>1. RunnerInv => RunnerTyped
  BY DEF RunnerInv
<1>2. Said => HaltsAreTold
  BY DEF Said
<1>3. RunnerTyped /\ HoldsItsHalt /\ AlertsTypeOK => HaltsTyped
  BY DEF HaltsTyped
<1>4. QED
  BY <1>1, <1>2, <1>3, HaltsAtFirst, RunnerInvStays, HoldsItsHaltStays, SaidStays,
     HaltsStepIsARunnersStep, HaltsKeepTheirParts, AlertsAreTyped, PTL
  DEF HaltsSpec

-----------------------------------------------------------------------------
(* The worker's run: its parts, of which one moves in a behaviour.            *)

\* Every part does in the run only what its own specification lets it do.
THEOREM WorkPartsKeepTheirSpecs ==
    WorkSpec => Spec /\ RunnerSpec /\ (work_part = "halts" => HaltsSpec)
<1> DEFINE Reporting == work_part = "halts"
<1>1. WorkInit => Init /\ RunnerInit /\ HaltsInit
  BY DEF WorkInit, HaltsInit
<1>2. [WorkNext]_workVars => [Next]_vars
  BY DEF WorkNext, workVars
<1>3. [WorkNext]_workVars => [RunnerNext]_runnerVars
  BY HaltsStepIsARunnersStep DEF WorkNext, workVars, haltVars
<1>4. Reporting /\ [WorkNext]_workVars => Reporting' /\ [HaltsNext]_haltVars
  BY DEF WorkNext, workVars
<1>5. QED
  BY <1>1, <1>2, <1>3, <1>4, PTL DEF WorkSpec, Spec, RunnerSpec, HaltsSpec

\* In the part where a watcher halts, every halt is said.
THEOREM HaltsAreAlwaysSaid == WorkSpec => []HaltsAreSaid
<1> DEFINE Reporting == work_part = "halts"
<1>1. [WorkNext]_workVars => (Reporting <=> Reporting')
  BY DEF WorkNext, workVars
<1>2. Reporting /\ HaltsAreTold => HaltsAreSaid
  BY DEF HaltsAreSaid
<1>3. ~Reporting => HaltsAreSaid
  BY DEF HaltsAreSaid
<1>4. QED
  BY <1>1, <1>2, <1>3, WorkPartsKeepTheirSpecs, HaltsAreAlwaysTold, PTL DEF WorkSpec
=============================================================================
