-------------------------- MODULE MessagesTheorems --------------------------
(***************************************************************************)
(* What the system says and what it knows when it says it: the approved    *)
(* messages to customers (Inbox), the facts it remembers (Memory) and the  *)
(* questions it answers (Asking), for any number of actions, threads,      *)
(* people, requests, crashes, writers and facts, and for every set of      *)
(* figures, every budget of calls and every length of a thread.            *)
(*                                                                         *)
(* Inbox: deciding implements the life of an action.  The argument follows *)
(* one action in the hands of one request: while it is decided in an       *)
(* orderly way nobody else has it, so that what the request read of the    *)
(* row still holds when it writes, and a message that is out is one the    *)
(* request knows of, or the row says executed.  Then the accounts of all   *)
(* actions, orderly or not: a request that was told its message is out may *)
(* still record one chase.                                                 *)
(*                                                                         *)
(* Memory: a row another transaction has changed is locked, so the rows    *)
(* each has changed are apart and active until it ends; a row that names   *)
(* its successor was one of them when the successor was committed; and a   *)
(* write that is alone finds every active row, since only a write makes a  *)
(* row active.                                                             *)
(***************************************************************************)
EXTENDS Inbox, Memory, Asking, FiniteSetTheorems, SequenceTheorems, TLAPS

-----------------------------------------------------------------------------
(* Inbox: deciding an action.                                              *)

Statuses == {"proposed", "approved", "executed", "rejected"}

Types ==
    /\ status \in [Actions -> Statuses]
    /\ sent \in [Actions -> BOOLEAN]
    /\ outbox \in Seq(Message)
    /\ pc \in [Deciders -> {"idle", "read", "reject", "contact", "look_up",
                            "send", "record", "log"}]
    /\ DOMAIN asked = Deciders
    /\ \A d \in Deciders : pc[d] # "idle" => asked[d] \in Decision
    /\ answer \in [Deciders -> BOOLEAN]
    /\ orderly \subseteq Actions

\* An action decided in an orderly way is in one request's hands at most.
OneHand ==
    \A a \in orderly, d, e \in Deciders : Deciding(d, a) /\ Deciding(e, a) => d = e

\* What is out of such an action is known to the request that has it, or to the row.
OutIsKnown ==
    \A a \in orderly : a \in Delivered =>
        \/ status[a] = "executed"
        \/ \E d \in Deciders : Deciding(d, a) /\ pc[d] = "record" /\ answer[d]

\* What the request read still holds.
ReadHolds ==
    \A d \in Deciders : LET a == asked[d].action IN a \in orderly =>
        /\ pc[d] = "reject" => status[a] = "proposed"
        /\ pc[d] \in {"contact", "look_up", "send", "record"} => status[a] \in {"proposed", "approved"}
        /\ pc[d] = "record" /\ answer[d] => a \in Delivered

DecidingInv == Types /\ OneHand /\ OutIsKnown /\ ReadHolds

-----------------------------------------------------------------------------
\* The count of an action's messages is above zero when there is one.
LEMMA CountIsPositive ==
    ASSUME NEW out \in Seq(Message), NEW a
    PROVE  Cardinality({k \in DOMAIN out : out[k].action = a}) > 0
               <=> \E k \in DOMAIN out : out[k].action = a
<1> DEFINE S == {k \in DOMAIN out : out[k].action = a}
<1>1. S \subseteq 1..Len(out) /\ Len(out) \in Int /\ 1 \in Int
  BY LenProperties
<1>2. IsFiniteSet(1..Len(out))
  BY <1>1, FS_Interval
<1>3. IsFiniteSet(S)
  BY <1>1, <1>2, FS_Subset
<1>4. S # {} <=> \E k \in DOMAIN out : out[k].action = a
  OBVIOUS
<1> HIDE DEF S
<1>5. Cardinality(S) \in Nat /\ (Cardinality(S) = 0 <=> S = {})
  BY <1>3, FS_CardinalityType, FS_EmptySet
<1>6. Cardinality(S) > 0 <=> S # {}
  BY <1>5
<1>7. QED
  BY <1>4, <1>6 DEF S

\* A message more is one action more that is out.
LEMMA SendingDelivers ==
    ASSUME outbox \in Seq(Message), NEW m \in Message, outbox' = Append(outbox, m)
    PROVE  outbox' \in Seq(Message) /\ Delivered' = Delivered \cup {m.action}
<1>1. /\ outbox' \in Seq(Message) /\ Len(outbox') = Len(outbox) + 1 /\ Len(outbox) \in Nat
      /\ \A i \in 1..Len(outbox) : outbox'[i] = outbox[i]
      /\ outbox'[Len(outbox) + 1] = m
      /\ DOMAIN outbox = 1..Len(outbox) /\ DOMAIN outbox' = 1..Len(outbox')
  BY AppendProperties, LenProperties
<1>2. Delivered = {a \in Actions : \E k \in DOMAIN outbox : outbox[k].action = a}
  BY CountIsPositive DEF Delivered, Deliveries
<1>3. Delivered' = {a \in Actions : \E k \in DOMAIN outbox' : outbox'[k].action = a}
  BY <1>1, CountIsPositive DEF Delivered, Deliveries
<1>4. m.action \in Actions
  BY DEF Message
<1>5. DOMAIN outbox' = DOMAIN outbox \cup {Len(outbox) + 1}
  BY <1>1
<1>6. QED
  BY <1>1, <1>2, <1>3, <1>4, <1>5

LEMMA SilenceDeliversNothing ==
    ASSUME outbox' = outbox
    PROVE  Delivered' = Delivered
BY DEF Delivered, Deliveries

-----------------------------------------------------------------------------
(* What one step does to the abstract state. *)

AbstractNext == Lifecycle!Next \/ UNCHANGED <<status, Delivered, orderly>>

\* Whatever is done to an action that is not, or is no longer, orderly.
LEMMA Disturbs ==
    ASSUME Types, NEW a \in Actions, NEW s \in Statuses,
           status' = [status EXCEPT ![a] = s], orderly' = orderly \ {a},
           Delivered' \in {Delivered, Delivered \cup {a}}
    PROVE  AbstractNext
<1>1. Lifecycle!Disturb(a)
  BY DEF Lifecycle!Disturb, Statuses
<1>2. QED
  BY <1>1 DEF AbstractNext, Lifecycle!Next

LEMMA UntouchedStays ==
    ASSUME UNCHANGED <<status, outbox, orderly>>
    PROVE  AbstractNext
BY SilenceDeliversNothing DEF AbstractNext

\* A request that is over, or goes on, leaves the others where they are.
LEMMA DoneIsLocal ==
    ASSUME Types, NEW d \in Deciders, Done(d)
    PROVE  /\ pc' \in [Deciders -> {"idle", "read", "reject", "contact", "look_up",
                                    "send", "record", "log"}]
           /\ DOMAIN asked' = Deciders /\ answer' \in [Deciders -> BOOLEAN]
           /\ pc'[d] = "idle"
           /\ \A e \in Deciders : e # d =>
                 pc'[e] = pc[e] /\ asked'[e] = asked[e] /\ answer'[e] = answer[e]
           /\ \A e \in Deciders : pc'[e] # "idle" => asked'[e] \in Decision
BY DEF Done, Goto, Types

LEMMA ContinueIsLocal ==
    ASSUME Types, NEW d \in Deciders, pc[d] # "idle",
           NEW label \in {"read", "reject", "contact", "look_up", "send", "record", "log"},
           Continue(d, label)
    PROVE  /\ pc' \in [Deciders -> {"idle", "read", "reject", "contact", "look_up",
                                    "send", "record", "log"}]
           /\ pc'[d] = label /\ asked' = asked /\ answer' = answer
           /\ \A e \in Deciders : e # d => pc'[e] = pc[e]
           /\ \A e \in Deciders : pc'[e] # "idle" => asked[e] \in Decision
BY DEF Continue, Goto, Types

-----------------------------------------------------------------------------
(* Every step keeps the invariant, and is a step of the abstract one. *)

LEMMA AskForKeeps ==
    ASSUME DecidingInv, NEW d \in Deciders, NEW r \in Decision, AskFor(d, r)
    PROVE  DecidingInv' /\ AbstractNext
<1> DEFINE a == r.action
<1>1. /\ pc[d] = "idle" /\ pc' = [pc EXCEPT ![d] = "read"] /\ asked' = [asked EXCEPT ![d] = r]
      /\ orderly' = IF \E e \in Deciders \ {d} : Deciding(e, a) THEN orderly \ {a} ELSE orderly
      /\ status' = status /\ sent' = sent /\ outbox' = outbox /\ answer' = answer
  BY DEF AskFor, Goto, table
<1>2. Types /\ OneHand /\ OutIsKnown /\ ReadHolds /\ Delivered' = Delivered /\ a \in Actions
  BY <1>1, SilenceDeliversNothing DEF DecidingInv, Decision
<1>3. /\ pc'[d] = "read" /\ asked'[d] = r
      /\ \A e \in Deciders : e # d => pc'[e] = pc[e] /\ asked'[e] = asked[e]
  BY <1>1, <1>2 DEF Types
<1>4. orderly' \subseteq orderly
  BY <1>1
<1>5. Types'
  BY <1>1, <1>2, <1>3, <1>4 DEF Types
<1>6. OneHand'
  BY <1>1, <1>2, <1>3, <1>4 DEF OneHand, Deciding
<1>7. OutIsKnown'
  BY <1>1, <1>2, <1>3, <1>4 DEF OutIsKnown, Deciding
<1>8. ReadHolds'
  BY <1>1, <1>2, <1>3, <1>4 DEF ReadHolds
<1>9. AbstractNext
  <2>1. CASE orderly' = orderly
    BY <1>1, <2>1, UntouchedStays
  <2>2. CASE orderly' = orderly \ {a}
    <3>1. status[a] \in Statuses /\ status' = [status EXCEPT ![a] = status[a]]
      BY <1>1, <1>2 DEF Types
    <3>2. QED
      BY <1>2, <2>2, <3>1, Disturbs
  <2>3. QED
    BY <1>1, <2>1, <2>2
<1>10. QED
  BY <1>5, <1>6, <1>7, <1>8, <1>9 DEF DecidingInv

LEMMA ReadKeeps ==
    ASSUME DecidingInv, NEW d \in Deciders, Read(d)
    PROVE  DecidingInv' /\ AbstractNext
<1> DEFINE r == asked[d]
           label == IF r.decision = "reject" THEN "reject" ELSE IF r.email THEN "contact" ELSE "look_up"
<1>1. /\ pc[d] = "read" /\ status' = status /\ sent' = sent /\ outbox' = outbox /\ orderly' = orderly
      /\ IF ~Granted(r) \/ ~Decidable(r) THEN Done(d) ELSE Continue(d, label)
  BY DEF Read, table
<1>2. Types /\ OneHand /\ OutIsKnown /\ ReadHolds /\ Delivered' = Delivered /\ r \in Decision
  BY <1>1, SilenceDeliversNothing DEF DecidingInv, Types
<1>3. AbstractNext
  BY <1>1, UntouchedStays
<1>4. CASE Done(d)
  BY <1>1, <1>2, <1>3, <1>4, DoneIsLocal
  DEF DecidingInv, Types, OneHand, OutIsKnown, ReadHolds, Deciding
<1>5. CASE Continue(d, label) /\ Decidable(r)
  <2>1. label \in {"reject", "contact", "look_up"}
    OBVIOUS
  <2>2. /\ label = "reject" => status[r.action] = "proposed"
        /\ status[r.action] \in {"proposed", "approved"}
    BY <1>5 DEF Decidable
  <2> HIDE DEF label
  <2>3. /\ pc' \in [Deciders -> {"idle", "read", "reject", "contact", "look_up",
                                 "send", "record", "log"}]
        /\ pc'[d] = label /\ asked' = asked /\ answer' = answer
        /\ \A e \in Deciders : e # d => pc'[e] = pc[e]
        /\ \A e \in Deciders : pc'[e] # "idle" => asked[e] \in Decision
    BY <1>1, <1>2, <1>5, <2>1, ContinueIsLocal
  <2>4. Types'
    BY <1>1, <1>2, <2>3 DEF Types
  <2>5. OneHand' /\ OutIsKnown'
    BY <1>1, <1>2, <2>1, <2>3 DEF OneHand, OutIsKnown, Deciding
  <2>6. ReadHolds'
    BY <1>1, <1>2, <2>1, <2>2, <2>3 DEF ReadHolds
  <2>7. QED
    BY <1>3, <2>4, <2>5, <2>6 DEF DecidingInv
<1>6. QED
  BY <1>1, <1>4, <1>5

\* The row of an action is written by the request that has it, which goes on or
\* ends: what is left to show is that the action's own story goes on.
LEMMA WritingKeeps ==
    ASSUME DecidingInv, NEW d \in Deciders, NEW s \in Statuses, pc[d] # "idle",
           status' = [status EXCEPT ![asked[d].action] = s],
           sent' \in [Actions -> BOOLEAN],
           outbox' = outbox, orderly' = orderly,
           Done(d) \/ (Continue(d, "log") /\ s = "executed"),
           asked[d].action \in orderly =>
               \/ s = "executed"
               \/ asked[d].action \notin Delivered
    PROVE  DecidingInv'
<1> DEFINE a == asked[d].action
<1>1. Types /\ OneHand /\ OutIsKnown /\ ReadHolds /\ Delivered' = Delivered
  BY SilenceDeliversNothing DEF DecidingInv
<1>2. /\ pc' \in [Deciders -> {"idle", "read", "reject", "contact", "look_up",
                               "send", "record", "log"}]
      /\ pc'[d] \in {"idle", "log"} /\ DOMAIN asked' = Deciders
      /\ answer' \in [Deciders -> BOOLEAN]
      /\ \A e \in Deciders : e # d =>
            pc'[e] = pc[e] /\ asked'[e] = asked[e] /\ answer'[e] = answer[e]
      /\ \A e \in Deciders : pc'[e] # "idle" => asked'[e] \in Decision
      /\ pc'[d] = "log" => asked' = asked
  <2>1. CASE Done(d)
    BY <1>1, <2>1, DoneIsLocal
  <2>2. CASE Continue(d, "log")
    BY <1>1, <2>2, ContinueIsLocal DEF Types
  <2>3. QED
    BY <2>1, <2>2
<1>3. asked[d] \in Decision /\ a \in Actions
  BY <1>1 DEF Types, Decision
<1>4. status'[a] = s /\ \A b \in Actions : b # a => status'[b] = status[b]
  BY <1>1, <1>3 DEF Types
<1>5. Types'
  BY <1>1, <1>2 DEF Types
<1>6. OneHand'
  BY <1>1, <1>2 DEF OneHand, Deciding
<1>7. a \in orderly => \A e \in Deciders : e # d /\ pc[e] # "idle" => asked[e].action # a
  BY <1>1 DEF OneHand, Deciding
<1>8. OutIsKnown'
  <2> SUFFICES ASSUME NEW b \in orderly, b \in Delivered
               PROVE  status'[b] = "executed"
                      \/ \E e \in Deciders : Deciding(e, b)' /\ pc'[e] = "record" /\ answer'[e]
    BY <1>1 DEF OutIsKnown
  <2>1. CASE b = a
    BY <1>4, <2>1
  <2>2. CASE b # a
    <3>1. CASE status[b] = "executed"
      BY <1>1, <1>4, <2>2, <3>1 DEF Types
    <3>2. CASE \E e \in Deciders : Deciding(e, b) /\ pc[e] = "record" /\ answer[e]
      <4>1. PICK e \in Deciders : Deciding(e, b) /\ pc[e] = "record" /\ answer[e]
        BY <3>2
      <4>2. e # d
        BY <2>2, <4>1 DEF Deciding
      <4>3. QED
        BY <1>2, <4>1, <4>2 DEF Deciding
    <3>3. QED
      BY <1>1, <3>1, <3>2 DEF OutIsKnown
  <2>3. QED
    BY <2>1, <2>2
<1>9. ReadHolds'
  <2> SUFFICES ASSUME NEW e \in Deciders, asked'[e].action \in orderly, pc'[e] \notin {"idle", "log", "read"}
               PROVE  /\ pc'[e] = "reject" => status'[asked'[e].action] = "proposed"
                      /\ pc'[e] \in {"contact", "look_up", "send", "record"}
                            => status'[asked'[e].action] \in {"proposed", "approved"}
                      /\ pc'[e] = "record" /\ answer'[e] => asked'[e].action \in Delivered
    BY <1>1 DEF ReadHolds
  <2>1. e # d
    BY <1>2
  <2>2. pc'[e] = pc[e] /\ asked'[e] = asked[e] /\ answer'[e] = answer[e]
    BY <1>2, <2>1
  <2>3. asked[e].action # a /\ asked[e].action \in Actions
    BY <1>1, <1>7, <2>1, <2>2 DEF Types
  <2>4. status'[asked[e].action] = status[asked[e].action]
    BY <1>4, <2>3
  <2>5. QED
    BY <1>1, <2>2, <2>4 DEF ReadHolds
<1>10. QED
  BY <1>5, <1>6, <1>8, <1>9 DEF DecidingInv

\* An orderly action that its request is not recording is not out unless executed.
LEMMA NotOutYet ==
    ASSUME DecidingInv, NEW d \in Deciders, pc[d] # "idle", asked[d].action \in orderly,
           status[asked[d].action] # "executed", ~(pc[d] = "record" /\ answer[d])
    PROVE  asked[d].action \notin Delivered
BY DEF DecidingInv, OneHand, OutIsKnown, Deciding

LEMMA RejectKeeps ==
    ASSUME DecidingInv, NEW d \in Deciders, Reject(d)
    PROVE  DecidingInv' /\ AbstractNext
<1> DEFINE a == asked[d].action
<1>1. /\ pc[d] = "reject" /\ status' = [status EXCEPT ![a] = "rejected"] /\ Done(d)
      /\ sent' = sent /\ outbox' = outbox /\ orderly' = orderly
  BY DEF Reject
<1>2. /\ Types /\ Delivered' = Delivered /\ a \in Actions /\ sent' \in [Actions -> BOOLEAN]
      /\ "rejected" \in Statuses
  BY <1>1, SilenceDeliversNothing DEF DecidingInv, Types, Decision, Statuses
<1>3. a \in orderly => status[a] = "proposed" /\ a \notin Delivered
  BY <1>1, NotOutYet DEF DecidingInv, ReadHolds
<1>4. DecidingInv'
  BY <1>1, <1>2, <1>3, WritingKeeps
<1>5. CASE a \in orderly
  <2>1. Lifecycle!Keep(a)
    BY <1>1, <1>2, <1>3, <1>5 DEF Lifecycle!Keep, Lifecycle!Reject
  <2>2. QED
    BY <1>2, <1>4, <2>1 DEF AbstractNext, Lifecycle!Next
<1>6. CASE a \notin orderly
  <2>1. orderly' = orderly \ {a}
    BY <1>1, <1>6
  <2>2. QED
    BY <1>1, <1>2, <1>4, <2>1, Disturbs
<1>7. QED
  BY <1>5, <1>6

\* Where a row is written approved, it was open, or nobody promised it anything.
LEMMA ApprovingIsAllowed ==
    ASSUME DecidingInv, NEW d \in Deciders, pc[d] # "idle",
           status' = [status EXCEPT ![asked[d].action] = "approved"],
           outbox' = outbox, orderly' = orderly,
           asked[d].action \in orderly => status[asked[d].action] \in {"proposed", "approved"}
    PROVE  AbstractNext
<1> DEFINE a == asked[d].action
<1>1. Types /\ Delivered' = Delivered /\ a \in Actions /\ "approved" \in Statuses
  BY SilenceDeliversNothing DEF DecidingInv, Types, Decision, Statuses
<1>2. CASE a \in orderly
  <2>1. Lifecycle!Keep(a)
    BY <1>1, <1>2 DEF Lifecycle!Keep, Lifecycle!Approve, Lifecycle!Open
  <2>2. QED
    BY <1>1, <2>1 DEF AbstractNext, Lifecycle!Next
<1>3. CASE a \notin orderly
  <2>1. orderly' = orderly \ {a}
    BY <1>3
  <2>2. QED
    BY <1>1, <2>1, Disturbs
<1>4. QED
  BY <1>2, <1>3

LEMMA RecordKeeps ==
    ASSUME DecidingInv, NEW d \in Deciders, Record(d)
    PROVE  DecidingInv' /\ AbstractNext
<1> DEFINE a == asked[d].action
           s == IF answer[d] THEN "executed" ELSE "approved"
<1>1. /\ pc[d] = "record" /\ status' = [status EXCEPT ![a] = s]
      /\ sent' = [sent EXCEPT ![a] = answer[d]]
      /\ outbox' = outbox /\ orderly' = orderly
      /\ Done(d) \/ (Continue(d, "log") /\ answer[d])
  BY DEF Record
<1>2. /\ Types /\ Delivered' = Delivered /\ a \in Actions
      /\ s \in Statuses /\ answer[d] \in BOOLEAN
  BY <1>1, SilenceDeliversNothing DEF DecidingInv, Types, Decision, Statuses
<1>3. sent' \in [Actions -> BOOLEAN]
  BY <1>1, <1>2 DEF Types
<1>4. a \in orderly => status[a] \in {"proposed", "approved"}
  BY <1>1 DEF DecidingInv, ReadHolds
<1>5. a \in orderly /\ ~answer[d] => a \notin Delivered
  BY <1>1, <1>4, NotOutYet
<1>6. DecidingInv'
  BY <1>1, <1>2, <1>3, <1>5, WritingKeeps
<1>7. CASE ~answer[d]
  BY <1>1, <1>4, <1>6, <1>7, ApprovingIsAllowed
<1>8. CASE answer[d] /\ a \in orderly
  <2>1. a \in Delivered
    BY <1>1, <1>8 DEF DecidingInv, ReadHolds
  <2>2. Lifecycle!Keep(a)
    BY <1>1, <1>2, <1>4, <1>8, <2>1 DEF Lifecycle!Keep, Lifecycle!Execute, Lifecycle!Open
  <2>3. QED
    BY <1>2, <1>6, <2>2 DEF AbstractNext, Lifecycle!Next
<1>9. CASE a \notin orderly
  <2>1. orderly' = orderly \ {a}
    BY <1>1, <1>9
  <2>2. QED
    BY <1>1, <1>2, <1>6, <2>1, Disturbs
<1>10. QED
  BY <1>2, <1>7, <1>8, <1>9

LEMMA LookUpKeeps ==
    ASSUME DecidingInv, NEW d \in Deciders, LookUp(d)
    PROVE  DecidingInv' /\ AbstractNext
<1> DEFINE a == asked[d].action
<1>1. pc[d] = "look_up" /\ outbox' = outbox /\ orderly' = orderly
  BY DEF LookUp
<1>2. Types /\ OneHand /\ OutIsKnown /\ ReadHolds /\ Delivered' = Delivered
  BY <1>1, SilenceDeliversNothing DEF DecidingInv
<1>3. a \in orderly => status[a] \in {"proposed", "approved"}
  BY <1>1, <1>2 DEF ReadHolds
<1>4. CASE Continue(d, "send") /\ UNCHANGED <<status, sent>>
  <2>1. /\ pc' \in [Deciders -> {"idle", "read", "reject", "contact", "look_up",
                                 "send", "record", "log"}]
        /\ pc'[d] = "send" /\ asked' = asked /\ answer' = answer
        /\ \A e \in Deciders : e # d => pc'[e] = pc[e]
        /\ \A e \in Deciders : pc'[e] # "idle" => asked[e] \in Decision
    BY <1>1, <1>2, <1>4, ContinueIsLocal
  <2>2. Types' /\ OneHand' /\ OutIsKnown'
    BY <1>1, <1>2, <1>4, <2>1 DEF Types, OneHand, OutIsKnown, Deciding
  <2>3. ReadHolds'
    BY <1>1, <1>2, <1>3, <1>4, <2>1 DEF ReadHolds
  <2>4. AbstractNext
    BY <1>1, <1>4, UntouchedStays
  <2>5. QED
    BY <2>2, <2>3, <2>4 DEF DecidingInv
<1>5. CASE /\ status' = [status EXCEPT ![a] = "approved"]
           /\ sent' = [sent EXCEPT ![a] = FALSE] /\ Done(d)
  <2>1. sent' \in [Actions -> BOOLEAN] /\ "approved" \in Statuses
    BY <1>2, <1>5 DEF Types, Statuses
  <2>2. a \in orderly => a \notin Delivered
    BY <1>1, <1>3, NotOutYet
  <2>3. DecidingInv'
    BY <1>1, <1>5, <2>1, <2>2, WritingKeeps
  <2>4. QED
    BY <1>1, <1>3, <1>5, <2>3, ApprovingIsAllowed
<1>6. QED
  BY <1>4, <1>5 DEF LookUp

LEMMA SaveContactKeeps ==
    ASSUME DecidingInv, NEW d \in Deciders, SaveContact(d)
    PROVE  DecidingInv' /\ AbstractNext
<1>1. /\ pc[d] = "contact" /\ status' = status /\ sent' = sent /\ outbox' = outbox
      /\ orderly' = orderly /\ Continue(d, "look_up")
  BY DEF SaveContact
<1>2. Types /\ OneHand /\ OutIsKnown /\ ReadHolds /\ Delivered' = Delivered
  BY <1>1, SilenceDeliversNothing DEF DecidingInv
<1>3. /\ pc' \in [Deciders -> {"idle", "read", "reject", "contact", "look_up",
                               "send", "record", "log"}]
      /\ pc'[d] = "look_up" /\ asked' = asked /\ answer' = answer
      /\ \A e \in Deciders : e # d => pc'[e] = pc[e]
      /\ \A e \in Deciders : pc'[e] # "idle" => asked[e] \in Decision
  BY <1>1, <1>2, ContinueIsLocal
<1>4. Types' /\ OneHand' /\ OutIsKnown'
  BY <1>1, <1>2, <1>3 DEF Types, OneHand, OutIsKnown, Deciding
<1>5. ReadHolds'
  BY <1>1, <1>2, <1>3 DEF ReadHolds
<1>6. QED
  BY <1>1, <1>4, <1>5, UntouchedStays DEF DecidingInv

LEMMA SendKeeps ==
    ASSUME DecidingInv, NEW d \in Deciders, Send(d)
    PROVE  DecidingInv' /\ AbstractNext
<1> DEFINE a == asked[d].action
           m == [action |-> a, user |-> asked[d].user]
<1>1. PICK delivered \in BOOLEAN, told \in BOOLEAN :
         /\ told => delivered
         /\ outbox' = IF delivered THEN Append(outbox, m) ELSE outbox
         /\ answer' = [answer EXCEPT ![d] = told]
         /\ orderly' = IF told = delivered THEN orderly ELSE orderly \ {a}
  BY DEF Send
<1>2. /\ pc[d] = "send" /\ pc' = [pc EXCEPT ![d] = "record"]
      /\ status' = status /\ sent' = sent /\ asked' = asked
  BY DEF Send, Goto, table
<1>3. /\ Types /\ OneHand /\ OutIsKnown /\ ReadHolds
      /\ asked[d] \in Decision /\ a \in Actions /\ m \in Message /\ m.action = a
  BY <1>2 DEF DecidingInv, Types, Decision, Message
<1>4. /\ outbox' \in Seq(Message)
      /\ Delivered' = IF delivered THEN Delivered \cup {a} ELSE Delivered
  <2>1. CASE delivered
    BY <1>1, <1>3, <2>1, SendingDelivers DEF Types
  <2>2. CASE ~delivered
    BY <1>1, <1>3, <2>2, SilenceDeliversNothing DEF Types
  <2>3. QED
    BY <2>1, <2>2
<1>5. /\ orderly' \subseteq orderly
      /\ a \in orderly' => (told = delivered)
  BY <1>1
<1> HIDE DEF a, m
<1>6. /\ pc'[d] = "record" /\ answer'[d] = told
      /\ \A e \in Deciders : e # d => pc'[e] = pc[e] /\ answer'[e] = answer[e]
      /\ pc' \in [Deciders -> {"idle", "read", "reject", "contact", "look_up",
                               "send", "record", "log"}]
      /\ answer' \in [Deciders -> BOOLEAN]
  BY <1>1, <1>2, <1>3 DEF Types
<1>7. Types'
  BY <1>2, <1>3, <1>4, <1>5, <1>6 DEF Types
<1>8. OneHand'
  BY <1>2, <1>3, <1>5, <1>6 DEF OneHand, Deciding
<1>9. OutIsKnown'
  <2> SUFFICES ASSUME NEW b \in orderly', b \in Delivered'
               PROVE  status[b] = "executed"
                      \/ \E e \in Deciders : Deciding(e, b)' /\ pc'[e] = "record" /\ answer'[e]
    BY <1>2 DEF OutIsKnown
  <2>1. CASE b \in Delivered
    <3>1. CASE status[b] = "executed"
      BY <3>1
    <3>2. CASE \E e \in Deciders : Deciding(e, b) /\ pc[e] = "record" /\ answer[e]
      <4>1. PICK e \in Deciders : Deciding(e, b) /\ pc[e] = "record" /\ answer[e]
        BY <3>2
      <4>2. e # d
        BY <1>2, <4>1
      <4>3. QED
        BY <1>2, <1>6, <4>1, <4>2 DEF Deciding
    <3>3. QED
      BY <1>3, <1>5, <2>1, <3>1, <3>2 DEF OutIsKnown
  <2>2. CASE b \notin Delivered
    <3>1. b = a /\ delivered
      BY <1>4, <2>2
    <3>2. told
      BY <1>5, <3>1
    <3>3. Deciding(d, b)'
      BY <1>2, <1>6, <3>1 DEF Deciding, a
    <3>4. QED
      BY <1>6, <3>2, <3>3
  <2>3. QED
    BY <2>1, <2>2
<1>10. ReadHolds'
  <2>1. told => a \in Delivered'
    BY <1>1, <1>4
  <2>2. a \in orderly => status[a] \in {"proposed", "approved"}
    BY <1>2, <1>3 DEF ReadHolds, a
  <2>3. Delivered \subseteq Delivered'
    BY <1>4
  <2>4. QED
    BY <1>2, <1>3, <1>5, <1>6, <2>1, <2>2, <2>3 DEF ReadHolds, a
<1>11. AbstractNext
  <2>1. CASE a \in orderly'
    <3>1. orderly' = orderly /\ told = delivered
      BY <1>1, <2>1 DEF a
    <3>2. CASE delivered
      <4>1. status[a] \in {"proposed", "approved"}
        BY <1>2, <1>3, <1>5, <2>1 DEF ReadHolds, a
      <4>2. Lifecycle!Keep(a)
        BY <1>2, <1>4, <2>1, <3>1, <3>2, <4>1 DEF Lifecycle!Keep, Lifecycle!Deliver, Lifecycle!Open
      <4>3. QED
        BY <1>3, <4>2 DEF AbstractNext, Lifecycle!Next
    <3>3. CASE ~delivered
      BY <1>2, <1>4, <3>1, <3>3 DEF AbstractNext
    <3>4. QED
      BY <3>2, <3>3
  <2>2. CASE a \notin orderly'
    <3>1. orderly' = orderly \ {a}
      BY <1>1, <2>2 DEF a
    <3>2. status[a] \in Statuses /\ status' = [status EXCEPT ![a] = status[a]]
      BY <1>2, <1>3 DEF Types
    <3>3. QED
      BY <1>3, <1>4, <3>1, <3>2, Disturbs
  <2>3. QED
    BY <2>1, <2>2
<1>12. QED
  BY <1>7, <1>8, <1>9, <1>10, <1>11 DEF DecidingInv

LEMMA LogKeeps ==
    ASSUME DecidingInv, NEW d \in Deciders, Log(d)
    PROVE  DecidingInv' /\ AbstractNext
<1>1. /\ pc[d] = "log" /\ status' = status /\ sent' = sent /\ outbox' = outbox
      /\ orderly' = orderly /\ Done(d)
  BY DEF Log
<1>2. Types /\ OneHand /\ OutIsKnown /\ ReadHolds /\ Delivered' = Delivered
  BY <1>1, SilenceDeliversNothing DEF DecidingInv
<1>3. DecidingInv'
  BY <1>1, <1>2, DoneIsLocal DEF DecidingInv, Types, OneHand, OutIsKnown, ReadHolds, Deciding
<1>4. QED
  BY <1>1, <1>3, UntouchedStays

LEMMA CrashKeeps ==
    ASSUME DecidingInv, NEW d \in Deciders, Crash(d)
    PROVE  DecidingInv' /\ AbstractNext
<1> DEFINE a == asked[d].action
<1>1. /\ pc[d] # "idle" /\ status' = status /\ sent' = sent /\ outbox' = outbox
      /\ orderly' = orderly \ {a} /\ Done(d)
  BY DEF Crash, table
<1>2. /\ Types /\ OneHand /\ OutIsKnown /\ ReadHolds /\ Delivered' = Delivered
      /\ a \in Actions
  BY <1>1, SilenceDeliversNothing DEF DecidingInv, Types, Decision
<1>3. DecidingInv'
  BY <1>1, <1>2, DoneIsLocal DEF DecidingInv, Types, OneHand, OutIsKnown, ReadHolds, Deciding
<1>4. status[a] \in Statuses /\ status' = [status EXCEPT ![a] = status[a]]
  BY <1>1, <1>2 DEF Types
<1>5. QED
  BY <1>1, <1>2, <1>3, <1>4, Disturbs

LEMMA OthersKeep ==
    ASSUME DecidingInv, UNCHANGED <<status, sent, outbox, pc, asked, answer, orderly>>
    PROVE  DecidingInv' /\ AbstractNext
<1>1. Delivered' = Delivered
  BY SilenceDeliversNothing
<1>2. DecidingInv'
  BY <1>1 DEF DecidingInv, Types, OneHand, OutIsKnown, ReadHolds, Deciding
<1>3. QED
  BY <1>2, UntouchedStays

LEMMA StepKeeps == DecidingInv /\ [InboxNext]_inboxVars => DecidingInv' /\ AbstractNext
<1> SUFFICES ASSUME DecidingInv, [InboxNext]_inboxVars PROVE DecidingInv' /\ AbstractNext
  OBVIOUS
<1>1. ASSUME NEW d \in Deciders, NEW r \in Decision, AskFor(d, r) PROVE DecidingInv' /\ AbstractNext
  BY <1>1, AskForKeeps
<1>2. ASSUME NEW d \in Deciders, Handle(d) \/ Crash(d) PROVE DecidingInv' /\ AbstractNext
  BY <1>2, ReadKeeps, RejectKeeps, SaveContactKeeps, LookUpKeeps, SendKeeps, RecordKeeps,
     LogKeeps, CrashKeeps DEF Handle
<1>3. ASSUME NEW c \in Customers, AddContact(c) PROVE DecidingInv' /\ AbstractNext
  BY <1>3, OthersKeep DEF AddContact
<1>4. CASE UNCHANGED inboxVars
  BY <1>4, OthersKeep DEF inboxVars, table
<1>5. QED
  BY <1>1, <1>2, <1>3, <1>4 DEF InboxNext

LEMMA StartKeeps == InboxInit => DecidingInv /\ Lifecycle!Init
<1> SUFFICES ASSUME InboxInit PROVE DecidingInv /\ Lifecycle!Init
  OBVIOUS
<1>1. outbox = <<>> /\ outbox \in Seq(Message) /\ DOMAIN outbox = {}
  BY DEF InboxInit
<1>2. Delivered = {}
  BY <1>1, CountIsPositive DEF Delivered, Deliveries
<1>3. Types
  BY <1>1 DEF InboxInit, Types, Statuses
<1>4. OneHand /\ OutIsKnown /\ ReadHolds
  BY <1>2 DEF InboxInit, OneHand, OutIsKnown, ReadHolds, Deciding
<1>5. Lifecycle!Init
  BY <1>2 DEF InboxInit, Lifecycle!Init
<1>6. QED
  BY <1>3, <1>4, <1>5 DEF DecidingInv

-----------------------------------------------------------------------------
\* The docstring of actions_decide, for any number of actions, threads, people and
\* crashes: an action that is decided in an orderly way is proposed, then rejected
\* for good or approved until it is delivered and executed, whatever becomes of
\* the others beside it.
THEOREM DecidingKeepsTheLifecycle == InboxSpec => KeepsLifecycle
<1>1. AbstractNext => [Lifecycle!Next]_Lifecycle!vars
  BY DEF AbstractNext, Lifecycle!vars
<1>2. QED
  BY <1>1, StartKeeps, StepKeeps, PTL DEF InboxSpec, KeepsLifecycle, Lifecycle!Spec

-----------------------------------------------------------------------------
(* Deliveries, chases and permissions, of every action, orderly or not.    *)

\* Chases a request may still record: it was told that its message is out.
Owed(a) == {d \in Deciders : /\ pc[d] \in {"record", "log"} /\ asked[d].action = a
                             /\ pc[d] = "record" => answer[d]}

Approving == {"contact", "look_up", "send", "record", "log"}

ApproversMay ==
    \A d \in Deciders : pc[d] \in Approving =>
        asked[d].decision = "approve" /\ Needed(asked[d].action) \in Grants[asked[d].user]

SendersMight == \A k \in DOMAIN outbox : Needed(outbox[k].action) \in Grants[outbox[k].user]

OutIsOut ==
    /\ \A a \in Actions : status[a] = "executed" => a \in Delivered
    /\ \A d \in Deciders : pc[d] = "record" /\ answer[d] => asked[d].action \in Delivered

ChasesAreCovered ==
    \A a \in Actions : /\ IsFiniteSet(Owed(a))
                       /\ Chases(a) + Cardinality(Owed(a)) <= Deliveries(a)

AccountInv == /\ chase_log \in Seq(Actions)
              /\ ApproversMay /\ SendersMight /\ OutIsOut /\ ChasesAreCovered

\* A set that differs in one thing at most.
LEMMA OneMoreOrLess ==
    ASSUME NEW S, IsFiniteSet(S), NEW T, NEW d, T \ {d} = S \ {d}
    PROVE  /\ IsFiniteSet(T) /\ Cardinality(S) \in Nat /\ Cardinality(T) \in Nat
           /\ (d \in S <=> d \in T) => Cardinality(T) = Cardinality(S)
           /\ d \in S /\ d \notin T => Cardinality(T) = Cardinality(S) - 1
           /\ d \notin S /\ d \in T => Cardinality(T) = Cardinality(S) + 1
<1>1. Cardinality(S) \in Nat
  BY FS_CardinalityType
<1>2. CASE d \in S <=> d \in T
  <2>1. T = S
    BY <1>2
  <2>2. QED
    BY <1>1, <1>2, <2>1
<1>3. CASE d \in S /\ d \notin T
  <2>1. T = S \ {d}
    BY <1>3
  <2>2. QED
    BY <1>1, <1>3, <2>1, FS_RemoveElement, FS_CardinalityType
<1>4. CASE d \notin S /\ d \in T
  <2>1. T = S \cup {d}
    BY <1>4
  <2>2. QED
    BY <1>1, <1>4, <2>1, FS_AddElement, FS_CardinalityType
<1>5. QED
  BY <1>2, <1>3, <1>4

LEMMA DeliveriesGrow ==
    ASSUME outbox \in Seq(Message), NEW m \in Message, NEW a, outbox' = Append(outbox, m)
    PROVE  Deliveries(a)' = IF m.action = a THEN Deliveries(a) + 1 ELSE Deliveries(a)
<1> DEFINE S == {k \in DOMAIN outbox : outbox[k].action = a}
           T == {k \in DOMAIN outbox' : outbox'[k].action = a}
           d == Len(outbox) + 1
<1>1. /\ Len(outbox) \in Nat /\ DOMAIN outbox = 1..Len(outbox)
      /\ \A i \in 1..Len(outbox) : outbox'[i] = outbox[i]
      /\ outbox'[d] = m /\ DOMAIN outbox' = 1..d
  BY AppendProperties, LenProperties
<1>2. IsFiniteSet(S)
  <2>1. IsFiniteSet(DOMAIN outbox)
    BY <1>1, FS_Interval
  <2>2. S \subseteq DOMAIN outbox
    OBVIOUS
  <2> HIDE DEF S
  <2>3. QED
    BY <2>1, <2>2, FS_Subset
<1>3. T \ {d} = S \ {d} /\ d \notin S /\ (d \in T <=> m.action = a)
  BY <1>1
<1> HIDE DEF S, T, d
<1>4. Cardinality(S) \in Nat /\ Cardinality(T) = IF m.action = a THEN Cardinality(S) + 1
                                                 ELSE Cardinality(S)
  BY <1>2, <1>3, OneMoreOrLess
<1>5. QED
  BY <1>4 DEF S, T, Deliveries

LEMMA ChasesGrow ==
    ASSUME chase_log \in Seq(Actions), NEW b \in Actions, NEW a,
           chase_log' = Append(chase_log, b)
    PROVE  Chases(a)' = IF b = a THEN Chases(a) + 1 ELSE Chases(a)
<1> DEFINE S == {k \in DOMAIN chase_log : chase_log[k] = a}
           T == {k \in DOMAIN chase_log' : chase_log'[k] = a}
           d == Len(chase_log) + 1
<1>1. /\ Len(chase_log) \in Nat /\ DOMAIN chase_log = 1..Len(chase_log)
      /\ \A i \in 1..Len(chase_log) : chase_log'[i] = chase_log[i]
      /\ chase_log'[d] = b /\ DOMAIN chase_log' = 1..d
  BY AppendProperties, LenProperties
<1>2. IsFiniteSet(S)
  <2>1. IsFiniteSet(DOMAIN chase_log)
    BY <1>1, FS_Interval
  <2>2. S \subseteq DOMAIN chase_log
    OBVIOUS
  <2> HIDE DEF S
  <2>3. QED
    BY <2>1, <2>2, FS_Subset
<1>3. T \ {d} = S \ {d} /\ d \notin S /\ (d \in T <=> b = a)
  BY <1>1
<1> HIDE DEF S, T, d
<1>4. Cardinality(S) \in Nat /\ Cardinality(T) = IF b = a THEN Cardinality(S) + 1
                                                 ELSE Cardinality(S)
  BY <1>2, <1>3, OneMoreOrLess
<1>5. QED
  BY <1>4 DEF S, T, Chases

\* One request moves, and what it may still record is what it was told.
LEMMA OweChanges ==
    ASSUME NEW d \in Deciders, NEW a, IsFiniteSet(Owed(a)),
           \A e \in Deciders \ {d} :
              pc'[e] = pc[e] /\ asked'[e] = asked[e] /\ answer'[e] = answer[e]
    PROVE  /\ IsFiniteSet(Owed(a)') /\ Cardinality(Owed(a)) \in Nat
           /\ Cardinality(Owed(a)') \in Nat
           /\ (d \in Owed(a) <=> d \in Owed(a)') => Cardinality(Owed(a)') = Cardinality(Owed(a))
           /\ d \in Owed(a) /\ d \notin Owed(a)' =>
                 Cardinality(Owed(a)') = Cardinality(Owed(a)) - 1
           /\ d \notin Owed(a) /\ d \in Owed(a)' =>
                 Cardinality(Owed(a)') = Cardinality(Owed(a)) + 1
<1>1. Owed(a)' \ {d} = Owed(a) \ {d}
  BY DEF Owed
<1> DEFINE S == Owed(a)
           T == Owed(a)'
<1>2. IsFiniteSet(S) /\ T \ {d} = S \ {d}
  BY <1>1
<1> HIDE DEF S, T
<1>3. /\ IsFiniteSet(T) /\ Cardinality(S) \in Nat /\ Cardinality(T) \in Nat
      /\ (d \in S <=> d \in T) => Cardinality(T) = Cardinality(S)
      /\ d \in S /\ d \notin T => Cardinality(T) = Cardinality(S) - 1
      /\ d \notin S /\ d \in T => Cardinality(T) = Cardinality(S) + 1
  BY <1>2, OneMoreOrLess
<1>4. QED
  BY <1>3 DEF S, T

LEMMA CountsAreNumbers ==
    ASSUME DecidingInv, AccountInv, NEW a \in Actions
    PROVE  Deliveries(a) \in Nat /\ Chases(a) \in Nat
<1>1. outbox \in Seq(Message) /\ chase_log \in Seq(Actions)
  BY DEF DecidingInv, Types, AccountInv
<1>2. IsFiniteSet(DOMAIN outbox) /\ IsFiniteSet(DOMAIN chase_log)
  BY <1>1, LenProperties, FS_Interval
<1>3. /\ IsFiniteSet({k \in DOMAIN outbox : outbox[k].action = a})
      /\ IsFiniteSet({k \in DOMAIN chase_log : chase_log[k] = a})
  BY <1>2, FS_Subset
<1>4. QED
  BY <1>3, FS_CardinalityType DEF Deliveries, Chases

\* A step that neither sends nor logs, after which the request is owed no more.
LEMMA PassingKeepsAccount ==
    ASSUME DecidingInv, AccountInv, NEW d \in Deciders, UNCHANGED <<outbox, chase_log>>,
           \A e \in Deciders \ {d} :
              pc'[e] = pc[e] /\ asked'[e] = asked[e] /\ answer'[e] = answer[e],
           \A a \in Actions : d \in Owed(a)' => d \in Owed(a),
           pc'[d] \in Approving =>
              asked'[d].decision = "approve"
                 /\ Needed(asked'[d].action) \in Grants[asked'[d].user],
           pc'[d] = "record" => ~answer'[d],
           \A a \in Actions : status'[a] = "executed" => a \in Delivered
    PROVE  AccountInv'
<1>1. Delivered' = Delivered
  BY SilenceDeliversNothing
<1>2. ApproversMay' /\ SendersMight'
  BY DEF AccountInv, ApproversMay, SendersMight
<1>3. OutIsOut'
  BY <1>1 DEF AccountInv, OutIsOut
<1>4. ChasesAreCovered'
  <2>1. SUFFICES ASSUME NEW a \in Actions
                 PROVE  /\ IsFiniteSet(Owed(a)')
                        /\ Chases(a)' + Cardinality(Owed(a)') <= Deliveries(a)'
    BY DEF ChasesAreCovered
  <2>2. IsFiniteSet(Owed(a)) /\ Chases(a) + Cardinality(Owed(a)) <= Deliveries(a)
    BY DEF AccountInv, ChasesAreCovered
  <2>3. Chases(a)' = Chases(a) /\ Deliveries(a)' = Deliveries(a)
    BY DEF Chases, Deliveries
  <2>4. /\ IsFiniteSet(Owed(a)') /\ Cardinality(Owed(a)) \in Nat /\ Cardinality(Owed(a)') \in Nat
        /\ Cardinality(Owed(a)') <= Cardinality(Owed(a))
    BY <2>2, OweChanges
  <2>5. QED
    BY <2>2, <2>3, <2>4, CountsAreNumbers
<1>5. QED
  BY <1>2, <1>3, <1>4 DEF AccountInv

\* Asking, reading, rejecting, saving an address, looking it up, and dying.
LEMMA PassingStepsKeepAccount ==
    ASSUME DecidingInv, AccountInv, NEW d \in Deciders,
           (\E r \in Decision : AskFor(d, r)) \/ Read(d) \/ Reject(d) \/ SaveContact(d)
              \/ LookUp(d) \/ Crash(d)
    PROVE  AccountInv'
<1>1. Types
  BY DEF DecidingInv
<1>2. \A a \in Actions : status[a] = "executed" => a \in Delivered
  BY DEF AccountInv, OutIsOut
<1>3. UNCHANGED <<outbox, chase_log>>
  BY DEF AskFor, Read, Reject, SaveContact, LookUp, Crash, table
<1>4. pc[d] # "idle" => asked[d] \in Decision
  BY <1>1 DEF Types
<1>5. ASSUME NEW r \in Decision, AskFor(d, r) PROVE AccountInv'
  <2>1. /\ status' = status /\ pc'[d] = "read"
        /\ \A e \in Deciders \ {d} :
              pc'[e] = pc[e] /\ asked'[e] = asked[e] /\ answer'[e] = answer[e]
    BY <1>1, <1>5 DEF AskFor, Goto, table, Types
  <2>2. QED
    BY <1>2, <1>3, <2>1, PassingKeepsAccount DEF Owed, Approving
<1>6. ASSUME Done(d), \A a \in Actions : status'[a] = "executed" => status[a] = "executed"
      PROVE  AccountInv'
  <2>1. /\ pc'[d] = "idle"
        /\ \A e \in Deciders \ {d} :
              pc'[e] = pc[e] /\ asked'[e] = asked[e] /\ answer'[e] = answer[e]
    BY <1>1, <1>6, DoneIsLocal
  <2>2. QED
    BY <1>2, <1>3, <1>6, <2>1, PassingKeepsAccount DEF Owed, Approving
<1>7. ASSUME NEW label \in {"reject", "contact", "look_up", "send"}, pc[d] # "idle",
             Continue(d, label), status' = status,
             label # "reject" => asked[d].decision = "approve"
                                   /\ Needed(asked[d].action) \in Grants[asked[d].user]
      PROVE  AccountInv'
  <2>1. /\ pc'[d] = label /\ asked' = asked
        /\ \A e \in Deciders \ {d} :
              pc'[e] = pc[e] /\ asked'[e] = asked[e] /\ answer'[e] = answer[e]
    BY <1>1, <1>7, ContinueIsLocal
  <2>2. QED
    BY <1>2, <1>3, <1>7, <2>1, PassingKeepsAccount DEF Owed, Approving
<1>8. CASE Read(d)
  <2>1. pc[d] = "read" /\ status' = status
    BY <1>8 DEF Read, table
  <2>2. CASE Done(d)
    BY <1>6, <2>1, <2>2
  <2>3. CASE ~Done(d)
    <3> DEFINE label == IF asked[d].decision = "reject" THEN "reject"
                        ELSE IF asked[d].email THEN "contact" ELSE "look_up"
    <3>1. Granted(asked[d]) /\ Continue(d, label)
      BY <1>8, <2>3 DEF Read
    <3>2. asked[d].decision \in {"approve", "reject"}
      BY <1>4, <2>1 DEF Decision
    <3>3. label # "reject" => asked[d].decision = "approve"
                                /\ Needed(asked[d].action) \in Grants[asked[d].user]
      BY <3>1, <3>2 DEF Granted
    <3>4. label \in {"reject", "contact", "look_up", "send"}
      OBVIOUS
    <3> HIDE DEF label
    <3>5. QED
      BY <1>7, <2>1, <3>1, <3>3, <3>4
  <2>4. QED
    BY <2>2, <2>3
<1>9. CASE Reject(d)
  <2>1. Done(d) /\ status' = [status EXCEPT ![asked[d].action] = "rejected"]
    BY <1>9 DEF Reject
  <2>2. \A a \in Actions : status'[a] = "executed" => status[a] = "executed"
    BY <1>1, <2>1 DEF Types
  <2>3. QED
    BY <1>6, <2>1, <2>2
<1>10. CASE SaveContact(d)
  <2>1. pc[d] = "contact" /\ status' = status /\ Continue(d, "look_up")
    BY <1>10 DEF SaveContact
  <2>2. QED
    BY <1>7, <2>1 DEF AccountInv, ApproversMay, Approving
<1>11. CASE LookUp(d)
  <2>1. pc[d] = "look_up"
    BY <1>11 DEF LookUp
  <2>2. \/ Continue(d, "send") /\ status' = status
        \/ Done(d) /\ status' = [status EXCEPT ![asked[d].action] = "approved"]
    BY <1>11 DEF LookUp
  <2>3. CASE Continue(d, "send") /\ status' = status
    BY <1>7, <2>1, <2>3 DEF AccountInv, ApproversMay, Approving
  <2>4. CASE Done(d) /\ status' = [status EXCEPT ![asked[d].action] = "approved"]
    <3>1. \A a \in Actions : status'[a] = "executed" => status[a] = "executed"
      BY <1>1, <2>4 DEF Types
    <3>2. QED
      BY <1>6, <2>4, <3>1
  <2>5. QED
    BY <2>2, <2>3, <2>4
<1>12. CASE Crash(d)
  <2>1. Done(d) /\ status' = status
    BY <1>12 DEF Crash, table
  <2>2. QED
    BY <1>6, <2>1
<1>13. QED
  BY <1>5, <1>8, <1>9, <1>10, <1>11, <1>12

\* The provider's answer makes a chase due only if the message is out.
LEMMA SendKeepsAccount ==
    ASSUME DecidingInv, AccountInv, NEW d \in Deciders, Send(d)
    PROVE  AccountInv'
<1> DEFINE b == asked[d].action
           m == [action |-> b, user |-> asked[d].user]
<1>1. /\ Types /\ pc[d] = "send" /\ asked[d] \in Decision /\ asked' = asked
      /\ UNCHANGED <<status, chase_log>> /\ pc' = [pc EXCEPT ![d] = "record"]
  BY DEF Send, Goto, table, DecidingInv, Types
<1>2. PICK delivered \in BOOLEAN, told \in BOOLEAN :
        /\ told => delivered
        /\ outbox' = IF delivered THEN Append(outbox, m) ELSE outbox
        /\ answer' = [answer EXCEPT ![d] = told]
  BY DEF Send
<1>3. /\ pc'[d] = "record" /\ answer'[d] = told
      /\ \A e \in Deciders \ {d} :
            pc'[e] = pc[e] /\ asked'[e] = asked[e] /\ answer'[e] = answer[e]
  BY <1>1, <1>2 DEF Types
<1>4. /\ b \in Actions /\ m \in Message /\ outbox \in Seq(Message)
      /\ m.action = b /\ m.user = asked[d].user
      /\ asked[d].decision = "approve" /\ Needed(b) \in Grants[asked[d].user]
  BY <1>1 DEF Types, Decision, Message, AccountInv, ApproversMay, Approving
<1>5. ApproversMay'
  BY <1>1, <1>3, <1>4 DEF AccountInv, ApproversMay
<1>6. Delivered \subseteq Delivered' /\ (delivered => b \in Delivered')
  <2>1. CASE delivered
    BY <1>2, <1>4, <2>1, SendingDelivers
  <2>2. CASE ~delivered
    BY <1>2, <2>2, SilenceDeliversNothing
  <2>3. QED
    BY <2>1, <2>2
<1>7. SendersMight'
  <2>1. CASE delivered
    <3>1. /\ \A i \in 1..Len(outbox) : outbox'[i] = outbox[i]
          /\ outbox'[Len(outbox) + 1] = m /\ DOMAIN outbox = 1..Len(outbox)
          /\ DOMAIN outbox' = 1..Len(outbox) + 1 /\ Len(outbox) \in Nat
      BY <1>2, <1>4, <2>1, AppendProperties, LenProperties
    <3>2. \A k \in DOMAIN outbox' : k \in DOMAIN outbox \/ k = Len(outbox) + 1
      BY <3>1
    <3>3. \A k \in DOMAIN outbox : outbox'[k] = outbox[k]
      BY <3>1
    <3> HIDE DEF m, b
    <3>4. SUFFICES ASSUME NEW k \in DOMAIN outbox'
                   PROVE  Needed(outbox'[k].action) \in Grants[outbox'[k].user]
      BY DEF SendersMight
    <3>5. QED
      BY <1>4, <3>1, <3>2, <3>3 DEF AccountInv, SendersMight
  <2>2. CASE ~delivered
    BY <1>2, <2>2 DEF AccountInv, SendersMight
  <2>3. QED
    BY <2>1, <2>2
<1>8. OutIsOut'
  BY <1>1, <1>2, <1>3, <1>6 DEF AccountInv, OutIsOut
<1>9. ChasesAreCovered'
  <2>1. SUFFICES ASSUME NEW a \in Actions
                 PROVE  /\ IsFiniteSet(Owed(a)')
                        /\ Chases(a)' + Cardinality(Owed(a)') <= Deliveries(a)'
    BY DEF ChasesAreCovered
  <2>2. IsFiniteSet(Owed(a)) /\ Chases(a) + Cardinality(Owed(a)) <= Deliveries(a)
    BY DEF AccountInv, ChasesAreCovered
  <2>3. Chases(a)' = Chases(a)
    BY <1>1 DEF Chases
  <2>4. Deliveries(a)' = IF delivered /\ b = a THEN Deliveries(a) + 1 ELSE Deliveries(a)
    BY <1>2, <1>4, DeliveriesGrow, SilenceDeliversNothing DEF Deliveries
  <2>5. d \notin Owed(a) /\ (d \in Owed(a)' <=> told /\ b = a)
    BY <1>1, <1>3 DEF Owed
  <2>6. /\ IsFiniteSet(Owed(a)') /\ Cardinality(Owed(a)) \in Nat
        /\ Cardinality(Owed(a)') = IF told /\ b = a THEN Cardinality(Owed(a)) + 1
                                   ELSE Cardinality(Owed(a))
    BY <1>3, <2>2, <2>5, OweChanges
  <2>7. QED
    BY <1>2, <2>2, <2>3, <2>4, <2>6, CountsAreNumbers
<1>10. QED
  BY <1>1, <1>5, <1>7, <1>8, <1>9 DEF AccountInv

LEMMA RecordKeepsAccount ==
    ASSUME DecidingInv, AccountInv, NEW d \in Deciders, Record(d)
    PROVE  AccountInv'
<1> DEFINE b == asked[d].action
<1>1. /\ Types /\ pc[d] = "record" /\ UNCHANGED <<outbox, chase_log>>
      /\ status' = [status EXCEPT ![b] = IF answer[d] THEN "executed" ELSE "approved"]
      /\ \/ answer[d] /\ Continue(d, "log")
         \/ Done(d)
  BY DEF Record, DecidingInv
<1>2. answer[d] => b \in Delivered
  BY <1>1 DEF AccountInv, OutIsOut
<1>3. \A a \in Actions : status'[a] = "executed" => a \in Delivered
  BY <1>1, <1>2 DEF Types, AccountInv, OutIsOut
<1>4. CASE answer[d] /\ Continue(d, "log")
  <2>1. /\ pc'[d] = "log" /\ asked' = asked
        /\ \A e \in Deciders \ {d} :
              pc'[e] = pc[e] /\ asked'[e] = asked[e] /\ answer'[e] = answer[e]
    BY <1>1, <1>4, ContinueIsLocal
  <2>2. \A a \in Actions : d \in Owed(a)' => d \in Owed(a)
    BY <1>1, <1>4, <2>1 DEF Owed
  <2>3. asked[d].decision = "approve" /\ Needed(asked[d].action) \in Grants[asked[d].user]
    BY <1>1 DEF AccountInv, ApproversMay, Approving
  <2>4. QED
    BY <1>1, <1>3, <2>1, <2>2, <2>3, PassingKeepsAccount
<1>5. CASE Done(d)
  <2>1. /\ pc'[d] = "idle"
        /\ \A e \in Deciders \ {d} :
              pc'[e] = pc[e] /\ asked'[e] = asked[e] /\ answer'[e] = answer[e]
    BY <1>1, <1>5, DoneIsLocal
  <2>2. QED
    BY <1>1, <1>3, <2>1, PassingKeepsAccount DEF Owed, Approving
<1>6. QED
  BY <1>1, <1>4, <1>5

\* A chase that is due becomes one on record, or is forgotten.
LEMMA LogKeepsAccount ==
    ASSUME DecidingInv, AccountInv, NEW d \in Deciders, Log(d)
    PROVE  AccountInv'
<1> DEFINE b == asked[d].action
<1>1. /\ Types /\ pc[d] = "log" /\ b \in Actions /\ UNCHANGED <<outbox, status>> /\ Done(d)
      /\ chase_log' = Append(chase_log, b) \/ chase_log' = chase_log
  BY DEF Log, DecidingInv, Types, Decision
<1>2. /\ pc'[d] = "idle"
      /\ \A e \in Deciders \ {d} :
            pc'[e] = pc[e] /\ asked'[e] = asked[e] /\ answer'[e] = answer[e]
  BY <1>1, DoneIsLocal
<1>3. CASE chase_log' = chase_log
  BY <1>1, <1>2, <1>3, PassingKeepsAccount DEF Owed, Approving, AccountInv, OutIsOut
<1>4. CASE chase_log' = Append(chase_log, b)
  <2>1. chase_log \in Seq(Actions) /\ chase_log' \in Seq(Actions) /\ Delivered' = Delivered
    BY <1>1, <1>4, AppendProperties, SilenceDeliversNothing DEF AccountInv
  <2>2. ApproversMay' /\ SendersMight'
    BY <1>1, <1>2 DEF AccountInv, ApproversMay, SendersMight, Approving
  <2>3. OutIsOut'
    BY <1>1, <1>2, <2>1 DEF AccountInv, OutIsOut
  <2>4. ASSUME NEW a \in Actions
        PROVE  /\ IsFiniteSet(Owed(a)')
               /\ Chases(a)' + Cardinality(Owed(a)') <= Deliveries(a)'
    <3>1. IsFiniteSet(Owed(a)) /\ Chases(a) + Cardinality(Owed(a)) <= Deliveries(a)
      BY DEF AccountInv, ChasesAreCovered
    <3>2. Deliveries(a)' = Deliveries(a)
      BY <1>1 DEF Deliveries
    <3>3. Chases(a)' = IF b = a THEN Chases(a) + 1 ELSE Chases(a)
      BY <1>1, <1>4, <2>1, ChasesGrow DEF Chases
    <3>4. d \notin Owed(a)' /\ (d \in Owed(a) <=> b = a)
      BY <1>1, <1>2 DEF Owed
    <3>5. /\ IsFiniteSet(Owed(a)') /\ Cardinality(Owed(a)) \in Nat
          /\ Cardinality(Owed(a)') = IF b = a THEN Cardinality(Owed(a)) - 1
                                     ELSE Cardinality(Owed(a))
      BY <1>2, <3>1, <3>4, OweChanges
    <3>6. QED
      BY <3>1, <3>2, <3>3, <3>5, CountsAreNumbers
  <2>5. QED
    BY <2>1, <2>2, <2>3, <2>4 DEF AccountInv, ChasesAreCovered
<1>5. QED
  BY <1>1, <1>3, <1>4

LEMMA AccountAtFirst == InboxInit => AccountInv
<1>1. SUFFICES ASSUME InboxInit PROVE AccountInv
  OBVIOUS
<1>2. /\ outbox = <<>> /\ chase_log = <<>> /\ \A d \in Deciders : pc[d] = "idle"
      /\ \A a \in Actions : status[a] = "proposed"
  BY <1>1 DEF InboxInit
<1>3. \A a : Chases(a) = 0 /\ Deliveries(a) = 0
  <2>1. DOMAIN outbox = {} /\ DOMAIN chase_log = {}
    BY <1>2
  <2>2. \A a : {k \in DOMAIN outbox : outbox[k].action = a} = {}
               /\ {k \in DOMAIN chase_log : chase_log[k] = a} = {}
    BY <2>1
  <2>3. QED
    BY <2>2, FS_EmptySet DEF Chases, Deliveries
<1>4. \A a : Owed(a) = {}
  BY <1>2 DEF Owed
<1>5. ChasesAreCovered
  BY <1>3, <1>4, FS_EmptySet DEF ChasesAreCovered
<1>6. QED
  BY <1>2, <1>5 DEF AccountInv, ApproversMay, SendersMight, OutIsOut, Approving

LEMMA AccountStays == DecidingInv /\ AccountInv /\ [InboxNext]_inboxVars => AccountInv'
<1>1. SUFFICES ASSUME DecidingInv, AccountInv, [InboxNext]_inboxVars PROVE AccountInv'
  OBVIOUS
<1>2. CASE UNCHANGED <<status, chase_log, outbox, pc, asked, answer>>
  <2>1. Delivered' = Delivered
    BY <1>2, SilenceDeliversNothing
  <2>2. ChasesAreCovered'
    BY <1>1, <1>2 DEF AccountInv, ChasesAreCovered, Owed, Chases, Deliveries
  <2>3. QED
    BY <1>1, <1>2, <2>1, <2>2 DEF AccountInv, ApproversMay, SendersMight, OutIsOut
<1>3. CASE UNCHANGED inboxVars \/ \E c \in Customers : AddContact(c)
  BY <1>2, <1>3 DEF inboxVars, table, AddContact
<1>4. QED
  BY <1>1, <1>3, PassingStepsKeepAccount, SendKeepsAccount, RecordKeepsAccount, LogKeepsAccount
  DEF InboxNext, Handle

\* actions_decide, however decisions cross, fail or are cut off: an action is
\* executed only if its message went out, a customer has no more chases on record
\* than messages, and every message was sent by someone allowed to.
THEOREM DeliveriesAreAlwaysAccounted == InboxSpec => []DeliveriesAreAccounted
<1>1. DecidingInv /\ AccountInv => DeliveriesAreAccounted
  <2>1. SUFFICES ASSUME DecidingInv, AccountInv PROVE DeliveriesAreAccounted
    OBVIOUS
  <2>2. ASSUME NEW a \in Actions PROVE Chases(a) <= Deliveries(a)
    <3>1. /\ Chases(a) + Cardinality(Owed(a)) <= Deliveries(a)
          /\ Cardinality(Owed(a)) \in Nat
      BY <2>1, FS_CardinalityType DEF AccountInv, ChasesAreCovered
    <3>2. QED
      BY <2>1, <3>1, CountsAreNumbers
  <2>3. QED
    BY <2>1, <2>2 DEF AccountInv, OutIsOut, SendersMight, DeliveriesAreAccounted
<1>2. QED
  BY <1>1, StartKeeps, StepKeeps, AccountAtFirst, AccountStays, PTL DEF InboxSpec

\* Every variable of deciding keeps its type, and only reminders are logged.
InboxTyped ==
    /\ InboxTypeOK
    /\ \A d \in Deciders : pc[d] = "log" => Tool[asked[d].action] = "draft"

LEMMA InboxTypedStays ==
    ASSUME InboxTyped, Types, [InboxNext]_inboxVars
    PROVE  InboxTyped'
<1> DEFINE Drafts == {a \in Actions : Tool[a] = "draft"}
<1> USE DEF InboxTyped, InboxTypeOK
<1>1. \A d \in Deciders : pc[d] # "idle" => asked[d] \in Decision /\ asked[d].action \in Actions
  BY DEF Types, Decision
<1>2. ASSUME NEW d \in Deciders, NEW r \in Decision, AskFor(d, r) PROVE InboxTyped'
  <2>1. requests' \in 0..MaxRequests
    BY <1>2, InboxAssumption DEF AskFor
  <2>2. orderly' \subseteq Actions
    BY <1>2 DEF AskFor
  <2>3. QED
    BY <1>2, <2>1, <2>2 DEF AskFor, Goto, table
<1>3. ASSUME NEW d \in Deciders, Read(d) PROVE InboxTyped'
  BY <1>3 DEF Read, Continue, Done, Goto, table, bounds
<1>4. ASSUME NEW d \in Deciders, Reject(d) PROVE InboxTyped'
  BY <1>1, <1>4 DEF Reject, Done, Goto, bounds
<1>5. ASSUME NEW d \in Deciders, SaveContact(d) PROVE InboxTyped'
  <2>1. CustomerOf[asked[d].action] \in Customers
    BY <1>1, <1>5 DEF SaveContact, Customers
  <2>2. QED
    BY <1>5, <2>1 DEF SaveContact, Continue, Goto, bounds
<1>6. ASSUME NEW d \in Deciders, LookUp(d) PROVE InboxTyped'
  <2> DEFINE a == asked[d].action
  <2>1. a \in Actions
    BY <1>1, <1>6 DEF LookUp
  <2>2. /\ status' \in {status, [status EXCEPT ![a] = "approved"]}
        /\ sent' \in {sent, [sent EXCEPT ![a] = FALSE]}
        /\ pc' \in {[pc EXCEPT ![d] = "send"], [pc EXCEPT ![d] = "idle"]}
        /\ asked' \in {asked, [asked EXCEPT ![d] = AnyDecision]}
        /\ asked' # asked => pc' = [pc EXCEPT ![d] = "idle"]
        /\ answer' \in {answer, [answer EXCEPT ![d] = FALSE]}
        /\ UNCHANGED <<contacts, chase_log, outbox, orderly, bounds>>
    BY <1>6 DEF LookUp, Continue, Done, Goto
  <2>3. status' \in [Actions -> Statuses] /\ sent' \in [Actions -> BOOLEAN]
    BY <2>1, <2>2 DEF Types, Statuses
  <2> HIDE DEF a
  <2>4. InboxTypeOK'
    <3>1. asked' \in [Deciders -> Decision \cup {AnyDecision}] /\ answer' \in [Deciders -> BOOLEAN]
      BY <2>2
    <3>2. pc' \in [Deciders -> {"idle", "read", "reject", "contact", "look_up",
                                "send", "record", "log"}]
      BY <2>2
    <3>3. QED
      BY <2>2, <2>3, <3>1, <3>2 DEF bounds, Statuses
  <2>5. \A e \in Deciders : pc'[e] = "log" => pc[e] = "log" /\ asked'[e] = asked[e]
    BY <2>2
  <2>6. QED
    BY <2>4, <2>5
<1>7. ASSUME NEW d \in Deciders, Send(d) PROVE InboxTyped'
  <2>1. PICK delivered \in BOOLEAN, said \in BOOLEAN :
          /\ outbox' = IF delivered
                       THEN Append(outbox, [action |-> asked[d].action, user |-> asked[d].user])
                       ELSE outbox
          /\ answer' = [answer EXCEPT ![d] = said]
          /\ orderly' \subseteq orderly
    BY <1>7 DEF Send
  <2>2. [action |-> asked[d].action, user |-> asked[d].user] \in Message
    BY <1>1, <1>7 DEF Send, Decision, Message
  <2>3. outbox' \in Seq(Message)
    BY <2>1, <2>2
  <2>4. pc' = [pc EXCEPT ![d] = "record"] /\ UNCHANGED <<table, asked, bounds>>
    BY <1>7 DEF Send, Goto
  <2>5. answer' \in [Deciders -> BOOLEAN] /\ orderly' \subseteq Actions
    BY <2>1
  <2>6. /\ pc' \in [Deciders -> {"idle", "read", "reject", "contact", "look_up",
                                "send", "record", "log"}]
        /\ \A e \in Deciders : pc'[e] = "log" => pc[e] = "log"
    BY <2>4
  <2>7. QED
    BY <2>3, <2>4, <2>5, <2>6 DEF table, bounds
<1>8. ASSUME NEW d \in Deciders, Record(d) PROVE InboxTyped'
  <2> DEFINE a == asked[d].action
             code == IF answer[d] THEN "executed" ELSE "approved"
  <2>1. a \in Actions /\ code \in Statuses
    BY <1>1, <1>8 DEF Record, Statuses
  <2>2. /\ status' = [status EXCEPT ![a] = code]
        /\ sent' = [sent EXCEPT ![a] = answer[d]]
        /\ UNCHANGED <<contacts, chase_log, outbox, orderly, bounds>>
        /\ \/ /\ Tool[a] = "draft" /\ pc' = [pc EXCEPT ![d] = "log"]
              /\ asked' = asked /\ answer' = answer
           \/ /\ pc' = [pc EXCEPT ![d] = "idle"]
              /\ asked' = [asked EXCEPT ![d] = AnyDecision]
              /\ answer' = [answer EXCEPT ![d] = FALSE]
    BY <1>8 DEF Record, Continue, Done, Goto
  <2>3. status' \in [Actions -> Statuses] /\ sent' \in [Actions -> BOOLEAN]
    <3> HIDE DEF a, code
    <3>1. QED
      BY <2>1, <2>2 DEF Types
  <2>4. InboxTypeOK'
    <3>1. asked' \in [Deciders -> Decision \cup {AnyDecision}] /\ answer' \in [Deciders -> BOOLEAN]
      BY <2>2
    <3>2. pc' \in [Deciders -> {"idle", "read", "reject", "contact", "look_up",
                                "send", "record", "log"}]
      BY <2>2
    <3> HIDE DEF a, code
    <3>3. QED
      BY <2>2, <2>3, <3>1, <3>2 DEF bounds, Statuses
  <2>5. \A e \in Deciders : pc'[e] = "log" => Tool[asked'[e].action] = "draft"
    BY <2>2
  <2>6. QED
    BY <2>4, <2>5
<1>9. ASSUME NEW d \in Deciders, Log(d) PROVE InboxTyped'
  <2>1. asked[d].action \in Drafts
    BY <1>1, <1>9 DEF Log
  <2>2. chase_log' \in Seq(Drafts)
    <3>1. chase_log \in Seq(Drafts) /\ chase_log' \in {chase_log, Append(chase_log, asked[d].action)}
      BY <1>9 DEF Log
    <3> HIDE DEF Drafts
    <3>2. Append(chase_log, asked[d].action) \in Seq(Drafts)
      BY <2>1, <3>1, AppendProperties
    <3>3. QED
      BY <3>1, <3>2
  <2>3. QED
    BY <1>9, <2>2 DEF Log, Done, Goto, bounds
<1>10. ASSUME NEW d \in Deciders, Crash(d) PROVE InboxTyped'
  <2>1. crashes' \in 0..MaxCrashes
    BY <1>10, InboxAssumption DEF Crash
  <2>2. QED
    BY <1>10, <2>1 DEF Crash, Done, Goto, table
<1>11. ASSUME NEW c \in Customers, AddContact(c) PROVE InboxTyped'
  BY <1>11 DEF AddContact, bounds
<1>12. CASE UNCHANGED inboxVars
  BY <1>12 DEF inboxVars, table, bounds
<1>13. QED
  BY <1>2, <1>3, <1>4, <1>5, <1>6, <1>7, <1>8, <1>9, <1>10, <1>11, <1>12 DEF InboxNext, Handle

\* The inbox keeps its types, whoever decides what and however often it crashes.
THEOREM InboxIsTyped == InboxSpec => []InboxTyped
<1>1. InboxInit => InboxTyped
  <2>1. SUFFICES ASSUME InboxInit PROVE InboxTyped
    OBVIOUS
  <2>2. \A d \in Deciders : pc[d] = "idle"
    BY <2>1 DEF InboxInit
  <2>3. InboxTypeOK
    BY <2>1, InboxAssumption DEF InboxInit, InboxTypeOK
  <2>4. QED
    BY <2>2, <2>3 DEF InboxTyped
<1>2. DecidingInv => Types
  BY DEF DecidingInv
<1>3. QED
  BY <1>1, <1>2, StartKeeps, StepKeeps, InboxTypedStays, PTL DEF InboxSpec

-----------------------------------------------------------------------------
(* Memory.                                                                 *)

FactRow == [status : {"uncommitted", "active", "stale", "superseded", "undone"},
        superseded_by : {0} \cup Ids]

Telling == {t \in Tellers : teller[t].at # "idle"}

\* Each write that is under way has a row of its own, not committed yet.
OwnRows ==
    /\ \A t \in Telling : teller[t].id \in With("uncommitted")
    /\ \A t, u \in Telling : t # u => teller[t].id # teller[u].id

\* What a transaction has changed is active, and nobody else has changed it.
HeldApart ==
    /\ \A t \in Tellers : teller[t].changed \subseteq With("active")
    /\ \A t, u \in Tellers : t # u => teller[t].changed \cap teller[u].changed = {}
    /\ sweep.changed \subseteq With("active") /\ sweep.todo \subseteq DOMAIN facts
    /\ \A t \in Tellers : teller[t].changed \cap sweep.changed = {}

\* A row with a successor is superseded, and the successor is committed.
Successors ==
    \A i \in DOMAIN facts : facts[i].superseded_by # 0 =>
        /\ facts[i].status = "superseded"
        /\ facts[i].superseded_by \in Committed

\* A write that is alone has the latest row, and finds every active one.
Alone ==
    ~writes_overlap =>
        /\ \A t, u \in Telling : t = u
        /\ \A t \in Telling :
              /\ teller[t].id = Len(facts)
              /\ teller[t].at = "waits" => With("active") \subseteq teller[t].after
              /\ teller[t].at = "changed" => With("active") \subseteq teller[t].changed

Latest == ~writes_overlap => \A i \in With("active"), j \in Committed : j <= i

MemoryInv == MemoryTypeOK /\ OwnRows /\ HeldApart /\ Successors /\ Alone /\ Latest

-----------------------------------------------------------------------------
(* The rows. *)

LEMMA FactsAreTyped ==
    ASSUME MemoryTypeOK
    PROVE  /\ facts \in Seq(FactRow) /\ Len(facts) \in Nat /\ DOMAIN facts = 1..Len(facts)
           /\ Len(facts) <= MaxFacts /\ DOMAIN facts \subseteq Ids
           /\ \A i \in DOMAIN facts : facts[i] \in FactRow
<1>1. facts \in Seq(FactRow) /\ Len(facts) <= MaxFacts
  BY DEF MemoryTypeOK, FactRow
<1>2. QED
  BY <1>1, LenProperties, ElementOfSeq, MemoryAssumption DEF Ids

\* Rows given new values are a sequence of rows again, of the same length.
LEMMA RowsChanged ==
    ASSUME MemoryTypeOK, NEW f \in [DOMAIN facts -> FactRow]
    PROVE  f \in Seq(FactRow) /\ Len(f) = Len(facts) /\ DOMAIN f = DOMAIN facts
<1>1. Len(facts) \in Nat /\ DOMAIN facts = 1..Len(facts)
  BY FactsAreTyped
<1>2. f \in Seq(FactRow)
  BY <1>1
<1>3. QED
  BY <1>1, <1>2, LenProperties

LEMMA InvariantMeansProperty == MemoryInv => CurrentIsLatest
<1> SUFFICES ASSUME MemoryInv PROVE CurrentIsLatest
  OBVIOUS
<1>1. ~writes_overlap => With("active") \subseteq {i \in Committed : \A j \in Committed : j <= i}
  BY DEF MemoryInv, Latest, With, Committed
<1>2. \A i \in DOMAIN facts : facts[i].superseded_by # 0 =>
          i \notin active_facts(TRUE) /\ facts[i].superseded_by \in Committed
  BY DEF MemoryInv, Successors, active_facts, With
<1>3. QED
  BY <1>1, <1>2 DEF CurrentIsLatest

LEMMA MemoryStartKeeps == MemoryInit => MemoryInv
<1> SUFFICES ASSUME MemoryInit PROVE MemoryInv
  OBVIOUS
<1>1. facts = <<>> /\ DOMAIN facts = {} /\ Len(facts) = 0 /\ Telling = {}
  BY DEF MemoryInit, Telling, NoTelling
<1>2. MemoryTypeOK
  <2>1. facts \in Seq(FactRow)
    BY <1>1
  <2>2. NoTelling \in [at : {"idle", "told", "waits", "changed"}, id : {0} \cup Ids,
                       after : SUBSET Ids, changed : SUBSET Ids]
    BY DEF NoTelling
  <2>3. teller \in [Tellers -> [at : {"idle", "told", "waits", "changed"}, id : {0} \cup Ids,
                                after : SUBSET Ids, changed : SUBSET Ids]]
    BY <2>2 DEF MemoryInit
  <2>4. sweep \in [at : {"idle", "listed"}, todo : SUBSET Ids, changed : SUBSET Ids]
    BY DEF MemoryInit, NoSweep
  <2>5. Len(facts) <= MaxFacts
    BY <1>1, MemoryAssumption
  <2>6. expired \subseteq DOMAIN facts /\ writes_overlap \in BOOLEAN
    BY DEF MemoryInit
  <2>7. QED
    BY <2>1, <2>3, <2>4, <2>5, <2>6 DEF MemoryTypeOK, FactRow
<1>3. OwnRows /\ Successors /\ Alone /\ Latest
  BY <1>1 DEF OwnRows, Successors, Alone, Latest, With
<1>4. HeldApart
  BY <1>1 DEF MemoryInit, HeldApart, NoTelling, NoSweep
<1>5. QED
  BY <1>2, <1>3, <1>4 DEF MemoryInv

-----------------------------------------------------------------------------
(* The steps that leave the rows as they are. *)

LEMMA SeeKeeps ==
    ASSUME MemoryInv, NEW t \in Tellers, SeeActive(t)
    PROVE  MemoryInv'
<1>1. /\ facts' = facts /\ expired' = expired /\ sweep' = sweep
      /\ writes_overlap' = writes_overlap
      /\ teller' = [teller EXCEPT ![t] = [at |-> "waits", id |-> teller[t].id,
                                          after |-> With("active"), changed |-> {}]]
      /\ teller[t].at = "told"
  BY DEF SeeActive
<1>2. With("active") \subseteq Ids
  BY FactsAreTyped DEF MemoryInv, With
<1>3. MemoryTypeOK'
  BY <1>1, <1>2 DEF MemoryInv, MemoryTypeOK
<1>4. /\ \A u \in Tellers : teller'[u].id = teller[u].id
      /\ \A u \in Tellers : u # t => teller'[u] = teller[u]
      /\ teller'[t].at = "waits" /\ teller'[t].after = With("active") /\ teller'[t].changed = {}
      /\ Telling' = Telling
  BY <1>1 DEF MemoryInv, MemoryTypeOK, Telling
<1>5. OwnRows' /\ HeldApart' /\ Successors' /\ Latest'
  BY <1>1, <1>4 DEF MemoryInv, OwnRows, HeldApart, Successors, Latest, With, Committed, Telling
<1>6. Alone'
  BY <1>1, <1>4 DEF MemoryInv, Alone, With, Telling
<1>7. QED
  BY <1>3, <1>5, <1>6 DEF MemoryInv

LEMMA SupersedePreviousKeeps ==
    ASSUME MemoryInv, NEW t \in Tellers, SupersedePrevious(t)
    PROVE  MemoryInv'
<1> DEFINE C == teller[t].after \cap With("active")
<1>1. /\ facts' = facts /\ expired' = expired /\ sweep' = sweep
      /\ writes_overlap' = writes_overlap
      /\ teller' = [teller EXCEPT ![t] = [at |-> "changed", id |-> teller[t].id, after |-> {},
                                          changed |-> C]]
      /\ teller[t].at = "waits"
      /\ teller[t].after \cap LockedAgainst(t) = {}
  BY DEF SupersedePrevious
<1>2. C \subseteq Ids /\ C \subseteq With("active")
  BY FactsAreTyped DEF MemoryInv, With
<1>3. MemoryTypeOK'
  BY <1>1, <1>2 DEF MemoryInv, MemoryTypeOK
<1>4. /\ \A u \in Tellers : teller'[u].id = teller[u].id
      /\ \A u \in Tellers : u # t => teller'[u] = teller[u]
      /\ teller'[t].at = "changed" /\ teller'[t].changed = C
      /\ Telling' = Telling
  BY <1>1 DEF MemoryInv, MemoryTypeOK, Telling
<1>5. /\ \A u \in Tellers : u # t => C \cap teller[u].changed = {}
      /\ C \cap sweep.changed = {}
  <2>1. \A u \in Tellers \ {t} : teller[u].changed \subseteq LockedAgainst(t)
    BY DEF LockedAgainst
  <2>2. sweep.changed \subseteq LockedAgainst(t)
    BY DEF LockedAgainst
  <2>3. QED
    BY <1>1, <2>1, <2>2
<1>6. OwnRows' /\ Successors' /\ Latest'
  BY <1>1, <1>4 DEF MemoryInv, OwnRows, Successors, Latest, With, Committed, Telling
<1>7. HeldApart'
  BY <1>1, <1>2, <1>4, <1>5 DEF MemoryInv, HeldApart, With
<1>8. Alone'
  <2>1. t \in Telling
    BY <1>1 DEF Telling
  <2>2. ~writes_overlap => With("active") \subseteq C
    BY <1>1, <2>1 DEF MemoryInv, Alone
  <2>3. /\ With("active")' = With("active") /\ writes_overlap' = writes_overlap
        /\ Len(facts)' = Len(facts)
    BY <1>1 DEF With
  <2>4. ~writes_overlap => Telling = {t} /\ teller[t].id = Len(facts)
    BY <2>1 DEF MemoryInv, Alone
  <2>5. QED
    BY <1>4, <2>2, <2>3, <2>4 DEF Alone
<1>9. QED
  BY <1>3, <1>6, <1>7, <1>8 DEF MemoryInv

\* Steps of the sweep and of the clock: no write moves, and the sweep has changed
\* rows that are active and in nobody's hands.
LEMMA SweepKeeps ==
    ASSUME MemoryInv, UNCHANGED <<facts, teller, writes_overlap>>,
           expired' \subseteq DOMAIN facts,
           sweep' \in [at : {"idle", "listed"}, todo : SUBSET Ids, changed : SUBSET Ids],
           sweep'.changed \subseteq With("active"), sweep'.todo \subseteq DOMAIN facts,
           sweep'.changed \cap LockedAgainstSweep = {}
    PROVE  MemoryInv'
<1>1. MemoryTypeOK'
  BY DEF MemoryInv, MemoryTypeOK
<1>2. OwnRows' /\ Successors' /\ Alone' /\ Latest'
  BY DEF MemoryInv, OwnRows, Successors, Alone, Latest, With, Committed, Telling
<1>3. \A t \in Tellers : teller[t].changed \cap sweep'.changed = {}
  BY DEF LockedAgainstSweep
<1>4. HeldApart'
  BY <1>3 DEF MemoryInv, HeldApart, With
<1>5. QED
  BY <1>1, <1>2, <1>4 DEF MemoryInv

LEMMA SweepIsApart ==
    ASSUME MemoryInv
    PROVE  /\ sweep \in [at : {"idle", "listed"}, todo : SUBSET Ids, changed : SUBSET Ids]
           /\ sweep.changed \subseteq With("active") /\ sweep.todo \subseteq DOMAIN facts
           /\ sweep.changed \cap LockedAgainstSweep = {}
           /\ expired \subseteq DOMAIN facts
           /\ With("active") \subseteq Ids /\ With("active") \subseteq DOMAIN facts
<1>1. With("active") \subseteq Ids /\ With("active") \subseteq DOMAIN facts
  BY FactsAreTyped DEF MemoryInv, With
<1>2. QED
  BY <1>1 DEF MemoryInv, MemoryTypeOK, HeldApart, LockedAgainstSweep

LEMMA ValidityKeeps ==
    ASSUME MemoryInv, NEW i \in DOMAIN facts, ValidityEnds(i)
    PROVE  MemoryInv'
BY SweepIsApart, SweepKeeps DEF ValidityEnds

LEMMA MarkKeeps ==
    ASSUME MemoryInv, MarkExpired
    PROVE  MemoryInv'
<1> DEFINE found == With("active") \cap expired
<1>1. /\ sweep' = [at |-> "listed", todo |-> With("active") \ found, changed |-> found]
      /\ found \cap LockedAgainstSweep = {}
      /\ UNCHANGED <<facts, expired, teller, writes_overlap>>
  BY DEF MarkExpired
<1>2. QED
  BY <1>1, SweepIsApart, SweepKeeps

LEMMA CheckKeeps ==
    ASSUME MemoryInv, NEW i \in sweep.todo, NEW contradicted \in BOOLEAN, CheckTerms(i, contradicted)
    PROVE  MemoryInv'
<1> DEFINE more == {j \in {i} : contradicted /\ StillActive(i)}
<1>1. /\ sweep' = [at |-> "listed", todo |-> sweep.todo \ {i}, changed |-> sweep.changed \cup more]
      /\ contradicted => i \notin LockedAgainstSweep
      /\ UNCHANGED <<facts, expired, teller, writes_overlap>>
  BY DEF CheckTerms
<1>2. i \in DOMAIN facts
  BY SweepIsApart
<1>3. more \subseteq With("active")
  BY <1>2 DEF StillActive, With
<1>4. more \cap LockedAgainstSweep = {}
  BY <1>1
<1>5. QED
  BY <1>1, <1>2, <1>3, <1>4, SweepIsApart, SweepKeeps

LEMMA CutDecayKeeps ==
    ASSUME MemoryInv, CutDecay
    PROVE  MemoryInv'
<1>1. /\ sweep' = [at |-> "idle", todo |-> {}, changed |-> {}]
      /\ UNCHANGED <<facts, expired, teller, writes_overlap>>
  BY DEF CutDecay, NoSweep
<1>2. QED
  BY <1>1, SweepIsApart, SweepKeeps

-----------------------------------------------------------------------------
(* The steps that write rows. *)

LEMMA InsertKeeps ==
    ASSUME MemoryInv, NEW t \in Tellers, InsertFact(t)
    PROVE  MemoryInv'
<1> DEFINE n   == Len(facts)
           new == [status |-> "uncommitted", superseded_by |-> 0]
<1>1. /\ facts' = Append(facts, new) /\ expired' = expired /\ sweep' = sweep
      /\ teller' = [teller EXCEPT ![t] = [at |-> "told", id |-> n + 1, after |-> {}, changed |-> {}]]
      /\ teller[t].at = "idle" /\ n < MaxFacts
      /\ writes_overlap' = (writes_overlap \/ \E u \in Tellers \ {t} : teller[u].at # "idle")
  BY DEF InsertFact
<1>2. /\ facts \in Seq(FactRow) /\ n \in Nat /\ DOMAIN facts = 1..n
  BY FactsAreTyped DEF MemoryInv
<1>3. /\ facts' \in Seq(FactRow) /\ Len(facts') = n + 1 /\ DOMAIN facts' = 1..(n + 1)
      /\ \A i \in 1..n : facts'[i] = facts[i]
      /\ facts'[n + 1] = new
  <2>1. new \in FactRow
    BY DEF FactRow
  <2>2. /\ facts' \in Seq(FactRow) /\ Len(facts') = n + 1
        /\ \A i \in 1..n : facts'[i] = facts[i]
        /\ facts'[n + 1] = new
    BY <1>1, <1>2, <2>1, AppendProperties
  <2>3. QED
    BY <1>2, <2>2, LenProperties
<1> HIDE DEF n, new
<1>4. /\ With("active")' = With("active") /\ Committed' = Committed
      /\ With("uncommitted") \subseteq With("uncommitted")' /\ n + 1 \in With("uncommitted")'
  BY <1>2, <1>3 DEF With, Committed, new
<1>5. /\ teller'[t] = [at |-> "told", id |-> n + 1, after |-> {}, changed |-> {}]
      /\ \A u \in Tellers : u # t => teller'[u] = teller[u]
      /\ Telling' = Telling \cup {t} /\ t \notin Telling
  BY <1>1 DEF MemoryInv, MemoryTypeOK, Telling
<1>6. MemoryTypeOK'
  <2>1. n + 1 \in Ids /\ n + 1 <= MaxFacts
    BY <1>1, <1>2, MemoryAssumption DEF Ids
  <2>2. teller' \in [Tellers -> [at : {"idle", "told", "waits", "changed"}, id : {0} \cup Ids,
                                 after : SUBSET Ids, changed : SUBSET Ids]]
    BY <1>1, <2>1 DEF MemoryInv, MemoryTypeOK
  <2>3. facts' \in Seq(FactRow) /\ Len(facts') <= MaxFacts /\ expired' \subseteq DOMAIN facts'
    BY <1>1, <1>2, <1>3, <2>1 DEF MemoryInv, MemoryTypeOK
  <2>4. writes_overlap' \in BOOLEAN /\ sweep' = sweep
    BY <1>1 DEF MemoryInv, MemoryTypeOK
  <2>5. QED
    BY <2>2, <2>3, <2>4 DEF MemoryInv, MemoryTypeOK, FactRow
<1>7. OwnRows'
  <2>1. \A u \in Telling : teller[u].id \in 1..n
    BY <1>2 DEF MemoryInv, OwnRows, With
  <2>2. \A u \in Telling : teller[u].id # n + 1
    BY <1>2, <2>1
  <2>3. \A u \in Telling : teller'[u].id = teller[u].id
    BY <1>5 DEF Telling
  <2>4. teller'[t].id = n + 1
    BY <1>5
  <2>5. QED
    BY <1>4, <1>5, <2>2, <2>3, <2>4 DEF MemoryInv, OwnRows
<1>8. HeldApart'
  <2>1. sweep.todo \subseteq DOMAIN facts'
    BY <1>2, <1>3 DEF MemoryInv, HeldApart
  <2>2. \A u \in Tellers : teller'[u].changed \subseteq teller[u].changed
    BY <1>5
  <2>3. QED
    BY <1>1, <1>4, <2>1, <2>2 DEF MemoryInv, HeldApart
<1>9. Successors'
  BY <1>2, <1>3, <1>4 DEF MemoryInv, Successors, new
<1>10. Alone'
  <2>1. ~writes_overlap' => Telling' = {t}
    BY <1>1, <1>5 DEF Telling
  <2>2. QED
    BY <1>3, <1>5, <2>1 DEF Alone
<1>11. Latest'
  BY <1>1, <1>4 DEF MemoryInv, Latest
<1>12. QED
  BY <1>6, <1>7, <1>8, <1>9, <1>10, <1>11 DEF MemoryInv

LEMMA CommitKeeps ==
    ASSUME MemoryInv, NEW t \in Tellers, CommitFact(t)
    PROVE  MemoryInv'
<1> DEFINE me  == teller[t].id
           C   == teller[t].changed
           old == [status |-> "superseded", superseded_by |-> me]
           new == [status |-> "active", superseded_by |-> 0]
           f   == [i \in DOMAIN facts |-> IF i = me THEN new ELSE IF i \in C THEN old ELSE facts[i]]
<1>1. /\ teller[t].at = "changed" /\ t \in Telling /\ expired' = expired /\ sweep' = sweep
      /\ teller' = [teller EXCEPT ![t] = NoTelling] /\ writes_overlap' = writes_overlap
      /\ facts' = [Restated(C, old) EXCEPT ![me] = new]
  BY DEF CommitFact, Telling
<1>2. /\ me \in With("uncommitted") /\ me \in DOMAIN facts /\ facts[me] \in FactRow
      /\ C \subseteq With("active") /\ me \notin C /\ me \in Ids
  BY <1>1, FactsAreTyped DEF MemoryInv, OwnRows, HeldApart, With
<1>3. facts' = f
  BY <1>1, <1>2 DEF Restated
<1>4. f \in [DOMAIN facts -> FactRow]
  BY <1>2, FactsAreTyped DEF MemoryInv, FactRow
<1>5. facts' \in Seq(FactRow) /\ Len(facts') = Len(facts) /\ DOMAIN facts' = DOMAIN facts
  BY <1>3, <1>4, RowsChanged DEF MemoryInv
<1>6. /\ \A i \in DOMAIN facts : i # me /\ i \notin C => facts'[i] = facts[i]
      /\ \A i \in C : facts'[i] = old
      /\ facts'[me] = new
  BY <1>2, <1>3 DEF With
<1> HIDE DEF f
<1>7. /\ With("active")' = (With("active") \ C) \cup {me}
      /\ Committed' = Committed \cup {me}
      /\ With("uncommitted")' = With("uncommitted") \ {me}
  BY <1>2, <1>5, <1>6 DEF With, Committed
<1>8. /\ teller'[t] = NoTelling /\ Telling' = Telling \ {t}
      /\ \A u \in Tellers : u # t => teller'[u] = teller[u]
  BY <1>1 DEF MemoryInv, MemoryTypeOK, Telling, NoTelling
<1>9. MemoryTypeOK'
  <2>1. NoTelling \in [at : {"idle", "told", "waits", "changed"}, id : {0} \cup Ids,
                       after : SUBSET Ids, changed : SUBSET Ids]
    BY DEF NoTelling
  <2>2. teller' \in [Tellers -> [at : {"idle", "told", "waits", "changed"}, id : {0} \cup Ids,
                                 after : SUBSET Ids, changed : SUBSET Ids]]
    BY <1>1, <2>1 DEF MemoryInv, MemoryTypeOK
  <2>3. QED
    BY <1>1, <1>5, <2>2 DEF MemoryInv, MemoryTypeOK, FactRow
<1>10. OwnRows'
  <2>1. \A u \in Telling' : u \in Telling /\ teller'[u].id = teller[u].id /\ teller[u].id # me
    BY <1>1, <1>8 DEF MemoryInv, OwnRows, Telling
  <2>2. QED
    BY <1>7, <2>1 DEF MemoryInv, OwnRows
<1>11. HeldApart'
  <2>1. \A u \in Tellers : teller'[u].changed \subseteq teller[u].changed \ C
    BY <1>8 DEF MemoryInv, HeldApart, NoTelling
  <2>2. sweep.changed \cap C = {}
    BY DEF MemoryInv, HeldApart
  <2>3. QED
    BY <1>1, <1>5, <1>7, <2>1, <2>2 DEF MemoryInv, HeldApart
<1>12. Successors'
  <2>1. \A i \in C : facts'[i].status = "superseded" /\ facts'[i].superseded_by \in Committed'
    BY <1>6, <1>7
  <2>2. QED
    BY <1>5, <1>6, <1>7, <2>1 DEF MemoryInv, Successors
<1>13. ~writes_overlap => With("active") \subseteq C /\ me = Len(facts) /\ Telling = {t}
  BY <1>1 DEF MemoryInv, Alone
<1>14. Alone'
  BY <1>1, <1>8, <1>13 DEF Alone
<1>15. Latest'
  <2>1. \A j \in Committed' : j <= Len(facts)
    BY <1>5, FactsAreTyped DEF MemoryInv, Committed
  <2>2. ~writes_overlap => With("active")' = {me}
    BY <1>7, <1>13
  <2>3. QED
    BY <1>1, <1>13, <2>1, <2>2 DEF Latest
<1>16. QED
  BY <1>9, <1>10, <1>11, <1>12, <1>14, <1>15 DEF MemoryInv

LEMMA CutKeeps ==
    ASSUME MemoryInv, NEW t \in Tellers, CutTelling(t)
    PROVE  MemoryInv'
<1> DEFINE me == teller[t].id
           f  == [i \in DOMAIN facts |-> IF i = me THEN [status |-> "undone", superseded_by |-> facts[me].superseded_by]
                                         ELSE facts[i]]
<1>1. /\ t \in Telling /\ expired' = expired /\ sweep' = sweep
      /\ teller' = [teller EXCEPT ![t] = NoTelling] /\ writes_overlap' = writes_overlap
      /\ facts' = Marked(me, "undone")
  BY DEF CutTelling, Telling
<1>2. me \in With("uncommitted") /\ me \in DOMAIN facts /\ facts[me] \in FactRow
  BY <1>1, FactsAreTyped DEF MemoryInv, OwnRows, With
<1>3. facts' = f
  <2>1. facts \in [DOMAIN facts -> FactRow]
    BY FactsAreTyped, LenProperties DEF MemoryInv
  <2>2. QED
    BY <1>1, <1>2, <2>1 DEF Marked
<1>4. f \in [DOMAIN facts -> FactRow]
  BY <1>2, FactsAreTyped DEF MemoryInv, FactRow
<1>5. facts' \in Seq(FactRow) /\ Len(facts') = Len(facts) /\ DOMAIN facts' = DOMAIN facts
  BY <1>3, <1>4, RowsChanged DEF MemoryInv
<1>6. /\ \A i \in DOMAIN facts : i # me => facts'[i] = facts[i]
      /\ facts'[me].status = "undone" /\ facts'[me].superseded_by = facts[me].superseded_by
  BY <1>2, <1>3
<1> HIDE DEF f
<1>7. /\ With("active")' = With("active") /\ Committed' = Committed
      /\ With("uncommitted")' = With("uncommitted") \ {me}
  BY <1>2, <1>5, <1>6 DEF With, Committed
<1>8. /\ teller'[t] = NoTelling /\ Telling' = Telling \ {t}
      /\ \A u \in Tellers : u # t => teller'[u] = teller[u]
  BY <1>1 DEF MemoryInv, MemoryTypeOK, Telling, NoTelling
<1>9. MemoryTypeOK'
  <2>1. NoTelling \in [at : {"idle", "told", "waits", "changed"}, id : {0} \cup Ids,
                       after : SUBSET Ids, changed : SUBSET Ids]
    BY DEF NoTelling
  <2>2. teller' \in [Tellers -> [at : {"idle", "told", "waits", "changed"}, id : {0} \cup Ids,
                                 after : SUBSET Ids, changed : SUBSET Ids]]
    BY <1>1, <2>1 DEF MemoryInv, MemoryTypeOK
  <2>3. QED
    BY <1>1, <1>5, <2>2 DEF MemoryInv, MemoryTypeOK, FactRow
<1>10. OwnRows'
  <2>1. \A u \in Telling' : u \in Telling /\ teller'[u].id = teller[u].id /\ teller[u].id # me
    BY <1>1, <1>8 DEF MemoryInv, OwnRows, Telling
  <2>2. QED
    BY <1>7, <2>1 DEF MemoryInv, OwnRows
<1>11. HeldApart'
  <2>1. \A u \in Tellers : teller'[u].changed \subseteq teller[u].changed
    BY <1>8 DEF NoTelling
  <2>2. QED
    BY <1>1, <1>5, <1>7, <2>1 DEF MemoryInv, HeldApart
<1>12. Successors'
  <2>1. facts[me].superseded_by = 0
    BY <1>2 DEF MemoryInv, Successors, With
  <2>2. QED
    BY <1>5, <1>6, <1>7, <2>1 DEF MemoryInv, Successors
<1>13. Alone'
  BY <1>1, <1>8 DEF MemoryInv, Alone
<1>14. Latest'
  BY <1>1, <1>7 DEF MemoryInv, Latest
<1>15. QED
  BY <1>9, <1>10, <1>11, <1>12, <1>13, <1>14 DEF MemoryInv

\* Rows that nobody holds, or that the sweep held and lets go, cease to be active.
LEMMA RetireKeeps ==
    ASSUME MemoryInv, NEW gone \in SUBSET DOMAIN facts, NEW s \in {"stale", "superseded"},
           gone \cap With("uncommitted") = {}, gone \cap With("undone") = {},
           s = "stale" => gone \subseteq With("active"),
           \A u \in Tellers : gone \cap teller[u].changed = {},
           facts' = [i \in DOMAIN facts |->
                        IF i \in gone THEN [status |-> s, superseded_by |-> facts[i].superseded_by]
                        ELSE facts[i]],
           UNCHANGED <<expired, teller, writes_overlap>>,
           sweep' \in {sweep, NoSweep}, sweep'.changed \cap gone = {}
    PROVE  MemoryInv'
<1>1. facts' \in [DOMAIN facts -> FactRow]
  BY FactsAreTyped DEF MemoryInv, FactRow
<1>2. facts' \in Seq(FactRow) /\ Len(facts') = Len(facts) /\ DOMAIN facts' = DOMAIN facts
  BY <1>1, RowsChanged DEF MemoryInv
<1>3. /\ \A i \in DOMAIN facts : facts'[i].superseded_by = facts[i].superseded_by
      /\ \A i \in DOMAIN facts \ gone : facts'[i] = facts[i]
      /\ \A i \in gone : facts'[i].status = s
  OBVIOUS
<1>4. /\ With("active")' = With("active") \ gone /\ Committed' = Committed
      /\ With("uncommitted")' = With("uncommitted")
  BY <1>2, <1>3 DEF With, Committed
<1>5. Telling' = Telling /\ teller' = teller
  BY DEF Telling
<1>6. sweep' \in [at : {"idle", "listed"}, todo : SUBSET Ids, changed : SUBSET Ids]
  BY DEF MemoryInv, MemoryTypeOK, NoSweep
<1>7. MemoryTypeOK'
  BY <1>2, <1>6 DEF MemoryInv, MemoryTypeOK, FactRow
<1>8. OwnRows'
  BY <1>4, <1>5 DEF MemoryInv, OwnRows
<1>9. HeldApart'
  <2>1. sweep'.changed \subseteq sweep.changed /\ sweep'.todo \subseteq sweep.todo
    BY DEF NoSweep
  <2>2. QED
    BY <1>2, <1>4, <1>5, <2>1 DEF MemoryInv, HeldApart
<1>10. Successors'
  <2>1. \A i \in gone : facts[i].superseded_by # 0 => s = "superseded"
    BY DEF MemoryInv, Successors, With
  <2>2. QED
    BY <1>2, <1>3, <1>4, <2>1 DEF MemoryInv, Successors
<1>11. Alone'
  BY <1>2, <1>4, <1>5 DEF MemoryInv, Alone
<1>12. Latest'
  BY <1>4 DEF MemoryInv, Latest
<1>13. QED
  BY <1>7, <1>8, <1>9, <1>10, <1>11, <1>12 DEF MemoryInv

LEMMA SupersedeFactKeeps ==
    ASSUME MemoryInv, NEW i \in DOMAIN facts, supersede_fact(i)
    PROVE  MemoryInv'
<1>1. /\ i \in With("active") \cup With("stale") \cup With("superseded")
      /\ i \notin LockedAgainstSweep \cup sweep.changed
      /\ facts' = Marked(i, "superseded")
      /\ UNCHANGED <<expired, teller, sweep, writes_overlap>>
  BY DEF supersede_fact
<1>2. facts' = [j \in DOMAIN facts |->
                   IF j \in {i} THEN [status |-> "superseded", superseded_by |-> facts[j].superseded_by]
                   ELSE facts[j]]
  <2>1. facts \in [DOMAIN facts -> FactRow]
    BY FactsAreTyped, LenProperties DEF MemoryInv
  <2>2. QED
    BY <1>1, <2>1 DEF Marked
<1>3. {i} \cap With("uncommitted") = {} /\ {i} \cap With("undone") = {}
  BY <1>1 DEF With
<1>4. \A u \in Tellers : {i} \cap teller[u].changed = {}
  BY <1>1 DEF LockedAgainstSweep
<1>5. /\ {i} \in SUBSET DOMAIN facts /\ "superseded" \in {"stale", "superseded"}
      /\ sweep' \in {sweep, NoSweep} /\ sweep'.changed \cap {i} = {}
  BY <1>1
<1> DEFINE gone == {i}
<1>6. /\ gone \in SUBSET DOMAIN facts /\ gone \cap With("uncommitted") = {}
      /\ gone \cap With("undone") = {} /\ \A u \in Tellers : gone \cap teller[u].changed = {}
      /\ facts' = [j \in DOMAIN facts |->
                      IF j \in gone THEN [status |-> "superseded", superseded_by |-> facts[j].superseded_by]
                      ELSE facts[j]]
      /\ sweep'.changed \cap gone = {}
  BY <1>2, <1>3, <1>4, <1>5
<1> HIDE DEF gone
<1>7. QED
  BY <1>1, <1>5, <1>6, RetireKeeps

LEMMA EndKeeps ==
    ASSUME MemoryInv, EndDecay
    PROVE  MemoryInv'
<1>1. /\ facts' = [i \in DOMAIN facts |->
                      IF i \in sweep.changed THEN [facts[i] EXCEPT !.status = "stale"] ELSE facts[i]]
      /\ sweep' = NoSweep /\ UNCHANGED <<expired, teller, writes_overlap>>
  BY DEF EndDecay
<1>2. facts' = [i \in DOMAIN facts |->
                   IF i \in sweep.changed THEN [status |-> "stale", superseded_by |-> facts[i].superseded_by]
                   ELSE facts[i]]
  BY <1>1, FactsAreTyped DEF MemoryInv, FactRow
<1>3. /\ sweep.changed \subseteq With("active") /\ sweep.changed \subseteq DOMAIN facts
      /\ sweep.changed \cap With("uncommitted") = {} /\ sweep.changed \cap With("undone") = {}
      /\ \A u \in Tellers : sweep.changed \cap teller[u].changed = {}
  BY DEF MemoryInv, HeldApart, With
<1>4. sweep'.changed \cap sweep.changed = {}
  BY <1>1 DEF NoSweep
<1>5. QED
  BY <1>1, <1>2, <1>3, <1>4, RetireKeeps

-----------------------------------------------------------------------------
LEMMA MemoryStepKeeps == MemoryInv /\ [MemoryNext]_memoryVars => MemoryInv'
<1> SUFFICES ASSUME MemoryInv, [MemoryNext]_memoryVars PROVE MemoryInv'
  OBVIOUS
<1>1. ASSUME NEW t \in Tellers,
             InsertFact(t) \/ SeeActive(t) \/ SupersedePrevious(t) \/ CommitFact(t) \/ CutTelling(t)
      PROVE  MemoryInv'
  BY <1>1, InsertKeeps, SeeKeeps, SupersedePreviousKeeps, CommitKeeps, CutKeeps
<1>2. ASSUME NEW i \in DOMAIN facts, supersede_fact(i) \/ ValidityEnds(i) PROVE MemoryInv'
  BY <1>2, SupersedeFactKeeps, ValidityKeeps
<1>3. ASSUME NEW i \in sweep.todo, NEW contradicted \in BOOLEAN, CheckTerms(i, contradicted)
      PROVE  MemoryInv'
  BY <1>3, CheckKeeps
<1>4. CASE MarkExpired \/ EndDecay \/ CutDecay
  BY <1>4, MarkKeeps, EndKeeps, CutDecayKeeps
<1>5. CASE UNCHANGED memoryVars
  BY <1>5
  DEF memoryVars, MemoryInv, MemoryTypeOK, OwnRows, HeldApart, Successors, Alone, Latest, With, Committed, Telling
<1>6. QED
  BY <1>1, <1>2, <1>3, <1>4, <1>5 DEF MemoryNext

\* Type correctness, for any number of writers and of facts.
THEOREM MemoryIsTyped == MemorySpec => []MemoryTypeOK
<1>1. MemoryInv => MemoryTypeOK
  BY DEF MemoryInv
<1>2. QED
  BY <1>1, MemoryStartKeeps, MemoryStepKeeps, PTL DEF MemorySpec

\* store.py: the current value is a single active row, that of the latest fact,
\* until two writes overlap; and a superseded fact is not shown again.
THEOREM TheLatestIsCurrent == MemorySpec => []CurrentIsLatest
BY InvariantMeansProperty, MemoryStartKeeps, MemoryStepKeeps, PTL DEF MemorySpec

-----------------------------------------------------------------------------
(* Asking.                                                                 *)

\* What the types alone do not say: a turn can be saved while a request runs.
Room == asking # "idle" => turns < MaxTurns

\* The evidence of a question is what its tools returned: there is none before
\* one was used, and a text is corrected only against some.
EvidenceIsOfTools ==
    /\ evidence_all # {} => used_tools
    /\ asking = "correct" => evidence_all # {}

AskingInv == AskingTypeOK /\ Room /\ EvidenceIsOfTools /\ GuardHolds

-----------------------------------------------------------------------------
(* The safety spine. *)

\* Of the three answers `confidence` gives, certain is the one for which every
\* figure is grounded, in some evidence, with nothing blocked.
LEMMA ConfidenceIsEarned ==
    ASSUME NEW g \in BOOLEAN, NEW e \in SUBSET Evidence, NEW u \in BOOLEAN, NEW b \in BOOLEAN
    PROVE  /\ confidence(g, e, u, b) \in {"CERTAIN", "PROBABLE", "UNCERTAIN"}
           /\ confidence(g, e, u, b) = "CERTAIN" => g /\ e # {} /\ ~b
           /\ (u /\ b) => confidence(g, e, u, b) = "PROBABLE"
<1>1. CASE ~u
  BY <1>1 DEF confidence
<1>2. CASE u /\ ~b /\ g /\ e # {}
  BY <1>2 DEF confidence
<1>3. CASE u /\ ~(~b /\ g /\ e # {})
  BY <1>3 DEF confidence
<1>4. QED
  BY <1>1, <1>2, <1>3

\* What may be said of evidence alone: figures of the data, and no other.
LEMMA GroundedSaysData ==
    ASSUME NEW text \in SUBSET Sayable, NEW e \in SUBSET Evidence, grounded(text, e)
    PROVE  text \subseteq Figures /\ Invented \notin text
BY AskingAssumption DEF grounded, Evidence, Sayable

LEMMA SummariesAreGrounded ==
    ASSUME NEW e \in SUBSET Evidence, NEW text \in safe_summaries(e)
    PROVE  /\ text \in SUBSET Sayable /\ text \subseteq Figures /\ grounded(text, e)
           /\ Invented \notin text
<1>1. PICK shown \in SUBSET e : text = shown \cap Figures
  BY DEF safe_summaries
<1>2. QED
  BY <1>1, AskingAssumption DEF Sayable, grounded

\* An answer of the agent is as the guard wants it, when it is grounded or rests
\* on no evidence at all, and what is blocked is grounded in evidence.
LEMMA FinalizedIsGuarded ==
    ASSUME NEW text \in SUBSET Sayable, NEW b \in BOOLEAN,
           evidence_all \in SUBSET Evidence, used_tools \in BOOLEAN, EvidenceIsOfTools,
           evidence_all = {} \/ grounded(text, evidence_all),
           b => evidence_all # {}
    PROVE  LET r == Finalized(text, b) IN
           /\ r \in Reply
           /\ Invented \in r.says => r.by = "agent" /\ r.evidence = {} /\ r.confidence # "CERTAIN"
           /\ r.confidence = "CERTAIN" =>
                 r.says \subseteq Figures /\ (r.by = "agent" => r.says \subseteq r.evidence /\ r.evidence # {})
           /\ (r.by = "agent" /\ r.blocked) => r.confidence = "PROBABLE" /\ r.says \subseteq r.evidence
<1> DEFINE c == confidence(grounded(text, evidence_all), evidence_all, used_tools, b)
<1>1. grounded(text, evidence_all) \in BOOLEAN
  BY DEF grounded
<1>2. /\ c \in {"CERTAIN", "PROBABLE", "UNCERTAIN"}
      /\ c = "CERTAIN" => grounded(text, evidence_all) /\ evidence_all # {}
      /\ (used_tools /\ b) => c = "PROBABLE"
  BY <1>1, ConfidenceIsEarned
<1>3. Finalized(text, b) = [by |-> "agent", says |-> text, evidence |-> evidence_all,
                            confidence |-> c, blocked |-> b]
  BY DEF Finalized
<1> HIDE DEF c
<1>4. Finalized(text, b) \in Reply
  BY <1>2, <1>3 DEF Reply
<1>5. Invented \in text => evidence_all = {} /\ c # "CERTAIN"
  BY <1>2, GroundedSaysData
<1>6. c = "CERTAIN" => text \subseteq Figures /\ text \subseteq evidence_all /\ evidence_all # {}
  BY <1>2, GroundedSaysData DEF grounded
<1>7. b => c = "PROBABLE" /\ text \subseteq evidence_all
  BY <1>2 DEF EvidenceIsOfTools, grounded
<1>8. QED
  BY <1>3, <1>4, <1>5, <1>6, <1>7

\* The prose the engine returns states figures of the data, whatever a model made
\* of the handler's text.
LEMMA PhrasedSaysData ==
    ASSUME NEW prose \in SUBSET Sayable, NEW retry \in SUBSET Sayable,
           NEW text \in SUBSET Figures, NEW e \in SUBSET Evidence
    PROVE  /\ Phrased(prose, retry, text, e).says \in SUBSET Figures
           /\ Phrased(prose, retry, text, e).blocked \in BOOLEAN
<1>1. ASSUME NEW p \in SUBSET Sayable, _numbers_supported(p, text, e)
      PROVE  p \in SUBSET Figures
  BY <1>1, AskingAssumption DEF _numbers_supported, Sayable, Evidence
<1>2. CASE _numbers_supported(prose, text, e)
  BY <1>1, <1>2 DEF Phrased
<1>3. CASE ~_numbers_supported(prose, text, e) /\ _numbers_supported(retry, text, e)
  BY <1>1, <1>3 DEF Phrased
<1>4. CASE ~_numbers_supported(prose, text, e) /\ ~_numbers_supported(retry, text, e)
  BY <1>4 DEF Phrased
<1>5. QED
  BY <1>2, <1>3, <1>4

LEMMA EnginesIsGuarded ==
    ASSUME NEW h \in Handled, NEW prose, prose.says \in SUBSET Figures, prose.blocked \in BOOLEAN
    PROVE  LET r == Engines(h, prose) IN
           r \in Reply /\ r.by = "engine" /\ r.says \subseteq Figures /\ Invented \notin r.says
<1> DEFINE c == Gated(h.sure, h.evidence, h.cited, h.known, h.unknowns)
<1>1. h.evidence \in SUBSET Evidence /\ h.sure \in {"CERTAIN", "PROBABLE", "UNCERTAIN"}
  BY DEF Handled
<1>2. c \in {"CERTAIN", "PROBABLE", "UNCERTAIN"}
  BY <1>1 DEF Gated
<1>3. Engines(h, prose) = [by |-> "engine", says |-> prose.says, evidence |-> h.evidence,
                           blocked |-> prose.blocked, confidence |-> c]
  BY DEF Engines
<1> HIDE DEF c
<1>4. QED
  BY <1>1, <1>2, <1>3, AskingAssumption DEF Reply, Sayable

-----------------------------------------------------------------------------
(* Every step keeps the invariant. *)

\* Where an answer is finalized, the next state is as the invariant wants it.
LEMMA FinalizeKeeps ==
    ASSUME AskingInv, NEW text \in SUBSET Sayable, NEW b \in BOOLEAN, asking # "idle",
           Finalize(text, b), iter' \in 0..MAX_ITERS,
           UNCHANGED <<evidence_all, used_tools, query_failed, turns>>,
           evidence_all = {} \/ grounded(text, evidence_all),
           b => evidence_all # {}
    PROVE  AskingInv'
<1>1. evidence_all \in SUBSET Evidence /\ used_tools \in BOOLEAN /\ EvidenceIsOfTools
  BY DEF AskingInv, AskingTypeOK
<1>2. asking' = "save" /\ reply' = Finalized(text, b)
  BY DEF Finalize
<1>3. reply' \in Reply
  BY <1>1, <1>2, FinalizedIsGuarded
<1>4. GuardHolds'
  BY <1>1, <1>2, FinalizedIsGuarded DEF GuardHolds
<1>5. AskingTypeOK' /\ Room' /\ EvidenceIsOfTools'
  BY <1>2, <1>3 DEF AskingInv, AskingTypeOK, Room, EvidenceIsOfTools
<1>6. QED
  BY <1>4, <1>5 DEF AskingInv

LEMMA EnginesKeeps ==
    ASSUME AskingInv, NEW h \in Handled, NEW prose, prose.says \in SUBSET Figures,
           prose.blocked \in BOOLEAN, asking # "idle", asking' = "save",
           reply' = Engines(h, prose),
           UNCHANGED <<iter, evidence_all, used_tools, query_failed, turns>>
    PROVE  AskingInv'
<1>1. reply' \in Reply /\ reply'.by = "engine" /\ reply'.says \subseteq Figures /\ Invented \notin reply'.says
  BY EnginesIsGuarded
<1>2. GuardHolds'
  BY <1>1 DEF GuardHolds
<1>3. AskingTypeOK' /\ Room' /\ EvidenceIsOfTools'
  BY <1>1 DEF AskingInv, AskingTypeOK, Room, EvidenceIsOfTools
<1>4. QED
  BY <1>2, <1>3 DEF AskingInv

LEMMA AskingStepKeeps == AskingInv /\ [AskingNext]_askVars => AskingInv'
<1> SUFFICES ASSUME AskingInv, [AskingNext]_askVars PROVE AskingInv'
  OBVIOUS
<1> USE AskingAssumption
<1>t. /\ AskingTypeOK /\ Room /\ EvidenceIsOfTools /\ GuardHolds
  BY DEF AskingInv
<1>1. ASSUME NEW path \in {"agent", "engine"}, TakeQuestion(path) PROVE AskingInv'
  <2>1. NoReply \in Reply
    BY DEF NoReply, Reply
  <2>2. asking' \in {"model", "engine"} /\ turns' = turns /\ turns < MaxTurns
    BY <1>1 DEF TakeQuestion
  <2>a. /\ asking' \in {"model", "engine"} /\ evidence_all' \subseteq Evidence
        /\ used_tools' \in BOOLEAN /\ query_failed' \in BOOLEAN
    BY <1>1, <2>2 DEF TakeQuestion
  <2>b. iter' \in 0..MAX_ITERS /\ turns' \in 0..MaxTurns /\ reply' \in Reply
    BY <1>1, <1>t, <2>1 DEF TakeQuestion, AskingTypeOK
  <2>3. AskingTypeOK'
    BY <2>a, <2>b DEF AskingTypeOK
  <2>4. Room' /\ EvidenceIsOfTools' /\ GuardHolds'
    BY <1>1, <2>2 DEF TakeQuestion, Room, EvidenceIsOfTools, GuardHolds
  <2>5. QED
    BY <2>3, <2>4 DEF AskingInv
<1>2. CASE WantsTools
  BY <1>2, <1>t DEF WantsTools, AskingInv, AskingTypeOK, Room, EvidenceIsOfTools, GuardHolds
<1>3. CASE Refuse
  BY <1>3, <1>t DEF Refuse, askVars, AskingInv, AskingTypeOK, Room, EvidenceIsOfTools, GuardHolds
<1>4. CASE HandBack
  BY <1>4, <1>t DEF HandBack, AskingInv, AskingTypeOK, Room, EvidenceIsOfTools, GuardHolds
<1>5. ASSUME NEW result \in SUBSET Evidence, NEW fails \in BOOLEAN, RunTool(result, fails) PROVE AskingInv'
  BY <1>5, <1>t DEF RunTool, AskingInv, AskingTypeOK, Room, EvidenceIsOfTools, GuardHolds
<1>6. ASSUME NEW text \in SUBSET Sayable, Says(text) PROVE AskingInv'
  <2>0. asking = "model" /\ iter' \in 0..MAX_ITERS
    BY <1>6, <1>t DEF Says, AskingTypeOK
  <2>1. CASE Guarded(text)
    BY <1>6, <1>t, <2>0, <2>1
    DEF Says, Guarded, AskingInv, AskingTypeOK, Room, EvidenceIsOfTools, GuardHolds
  <2>2. CASE ~Guarded(text)
    <3>1. Finalize(text, FALSE) /\ UNCHANGED <<evidence_all, used_tools, query_failed, turns>>
      BY <1>6, <2>2 DEF Says
    <3>2. evidence_all = {} \/ grounded(text, evidence_all)
      BY <2>2 DEF Guarded
    <3>3. QED
      BY <2>0, <3>1, <3>2, FinalizeKeeps
  <2>3. QED
    BY <2>1, <2>2
<1>7. ASSUME NEW text \in SUBSET Sayable, Corrects(text) PROVE AskingInv'
  <2>1. /\ asking # "idle" /\ iter' \in 0..MAX_ITERS /\ Finalize(text, FALSE)
        /\ UNCHANGED <<evidence_all, used_tools, query_failed, turns>>
        /\ grounded(text, evidence_all)
    BY <1>7, <1>t DEF Corrects, AskingTypeOK
  <2>2. QED
    BY <2>1, FinalizeKeeps
<1>8. CASE Blocks
  <2>1. PICK text \in safe_summaries(evidence_all) : Finalize(text, TRUE)
    BY <1>8 DEF Blocks
  <2>2. text \in SUBSET Sayable /\ grounded(text, evidence_all)
    BY <1>t, SummariesAreGrounded DEF AskingTypeOK
  <2>3. /\ asking # "idle" /\ iter' \in 0..MAX_ITERS /\ evidence_all # {}
        /\ UNCHANGED <<evidence_all, used_tools, query_failed, turns>>
    BY <1>8, <1>t DEF Blocks, AskingTypeOK, EvidenceIsOfTools
  <2>4. QED
    BY <2>1, <2>2, <2>3, FinalizeKeeps
<1>9. CASE GivesUp
  <2>1. /\ asking # "idle" /\ iter' \in 0..MAX_ITERS /\ Finalize({}, FALSE)
        /\ UNCHANGED <<evidence_all, used_tools, query_failed, turns>>
    BY <1>9, <1>t DEF GivesUp, AskingTypeOK
  <2>2. {} \in SUBSET Sayable /\ grounded({}, evidence_all)
    BY DEF grounded
  <2>3. QED
    BY <2>1, <2>2, FinalizeKeeps
<1>10. CASE FallBack
  BY <1>10, <1>t DEF FallBack, AskingInv, AskingTypeOK, Room, EvidenceIsOfTools, GuardHolds
<1>11. ASSUME NEW h \in Handled, NEW prose \in SUBSET Sayable, NEW retry \in SUBSET Sayable,
              EngineAnswers(h, prose, retry)
       PROVE  AskingInv'
  <2>1. h.text \in SUBSET Figures /\ h.evidence \in SUBSET Evidence
    BY DEF Handled
  <2>2. QED
    BY <1>11, <2>1, PhrasedSaysData, EnginesKeeps DEF EngineAnswers
<1>12. ASSUME NEW h \in Handled, EngineFallsIn(h) PROVE AskingInv'
  <2> DEFINE prose == [says |-> h.text, blocked |-> FALSE]
  <2>1. prose.says \in SUBSET Figures /\ prose.blocked \in BOOLEAN
    BY DEF Handled
  <2>2. /\ asking # "idle" /\ asking' = "save" /\ reply' = Engines(h, prose)
        /\ UNCHANGED <<iter, evidence_all, used_tools, query_failed, turns>>
    BY <1>12 DEF EngineFallsIn
  <2> HIDE DEF prose
  <2>3. QED
    BY <2>1, <2>2, EnginesKeeps
<1>13. CASE EngineRaises
  BY <1>13, <1>t DEF EngineRaises, AskingInv, AskingTypeOK, Room, EvidenceIsOfTools, GuardHolds
<1>14. CASE SaveTurn
  BY <1>14, <1>t DEF SaveTurn, AskingInv, AskingTypeOK, Room, EvidenceIsOfTools, GuardHolds
<1>15. CASE UNCHANGED askVars
  BY <1>15, <1>t DEF askVars, AskingInv, AskingTypeOK, Room, EvidenceIsOfTools, GuardHolds
<1>16. QED
  BY <1>1, <1>2, <1>3, <1>4, <1>5, <1>6, <1>7, <1>8, <1>9, <1>10, <1>11, <1>12, <1>13, <1>14,
     <1>15 DEF AskingNext

LEMMA AskingStartKeeps == AskingInit => AskingInv
<1> SUFFICES ASSUME AskingInit PROVE AskingInv
  OBVIOUS
<1>1. NoReply \in Reply
  BY DEF NoReply, Reply
<1>a. /\ asking = "idle" /\ evidence_all \subseteq Evidence
      /\ used_tools \in BOOLEAN /\ query_failed \in BOOLEAN
  BY DEF AskingInit
<1>b. iter \in 0..MAX_ITERS /\ turns \in 0..MaxTurns /\ reply \in Reply
  BY <1>1, AskingAssumption DEF AskingInit
<1>2. AskingTypeOK
  BY <1>a, <1>b DEF AskingTypeOK
<1>3. Room /\ EvidenceIsOfTools /\ GuardHolds
  BY DEF AskingInit, Room, EvidenceIsOfTools, GuardHolds
<1>4. QED
  BY <1>2, <1>3 DEF AskingInv

-----------------------------------------------------------------------------
\* Type correctness, for every budget and every thread.
THEOREM AskingIsTyped == AskingSpec => []AskingTypeOK
<1>1. AskingInv => AskingTypeOK
  BY DEF AskingInv
<1>2. QED
  BY <1>1, AskingStartKeeps, AskingStepKeeps, PTL DEF AskingSpec

\* The guard of agent.py, engine and safety.py: an invented figure is never
\* surfaced against evidence, by the engine, or as a certainty.
THEOREM InventedIsNeverCertain == AskingSpec => []GuardHolds
<1>1. AskingInv => GuardHolds
  BY DEF AskingInv
<1>2. QED
  BY <1>1, AskingStartKeeps, AskingStepKeeps, PTL DEF AskingSpec
=============================================================================
