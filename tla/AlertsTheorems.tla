--------------------------- MODULE AlertsTheorems ---------------------------
(***************************************************************************)
(* Alerts, for any number of processes and conditions: with the database   *)
(* up, no condition is emailed twice within a cooldown, and none is quiet  *)
(* that nobody was told of.  Counting emails is not inductive: the second  *)
(* email is delivered by a process that has been sending for a while.      *)
(* MarkedFirst says what the mark buys: whoever is sending holds the only  *)
(* claim on its condition, and nothing was delivered under that mark yet.  *)
(***************************************************************************)
EXTENDS Alerts, TLAPS

About(p, k) == ~Idle(p) /\ sending[p].key = k

\* A claim is on the table, over a mark that had run out.
MarkedFirst ==
    \A p \in Processes : ~Idle(p) =>
        /\ sending[p].table
        /\ sending[p].previous # "recent"
        /\ last_sent[sending[p].key] = "recent"
        /\ emails[sending[p].key] = 0

OneSender ==
    \A p, q \in Processes, k \in Conditions : About(p, k) /\ About(q, k) => p = q

\* An email is remembered by the mark.
Remembered ==
    \A k \in Conditions : emails[k] \in {0, 1} /\ (emails[k] = 1 => last_sent[k] = "recent")

OneClaim == MarkedFirst /\ OneSender /\ Remembered

\* What a claim is about is a condition.
LEMMA SendingIsTyped ==
    ASSUME AlertsTypeOK, NEW p \in Processes, ~Idle(p)
    PROVE  /\ sending[p] \in Sending
           /\ sending[p].key \in Conditions
           /\ sending[p].previous \in Times
BY DEF AlertsTypeOK, Idle, Sending

\* Every variable keeps its type: the marks are times, what is sent is a record.
THEOREM AlertsAreTyped == AlertsSpec => []AlertsTypeOK
<1>1. AlertsInit => AlertsTypeOK
  BY AlertsAssumption DEF AlertsInit, AlertsTypeOK, Times
<1>2. AlertsTypeOK /\ [AlertsNext]_alertVars => AlertsTypeOK'
  <2> SUFFICES ASSUME AlertsTypeOK, [AlertsNext]_alertVars PROVE AlertsTypeOK'
    OBVIOUS
  <2> USE AlertsAssumption DEF AlertsTypeOK, Times
  <2>1. ASSUME NEW p \in Processes, NEW k \in Conditions, Raise(p, k) PROVE AlertsTypeOK'
    <3>1. [key |-> k, table |-> TRUE, previous |-> last_sent[k]] \in Sending
      BY DEF Sending
    <3> QED
      BY <2>1, <3>1 DEF Raise, Begin
  <2>2. ASSUME NEW p \in Processes, NEW k \in Conditions, RaiseLocally(p, k) PROVE AlertsTypeOK'
    <3>1. [key |-> k, table |-> FALSE, previous |-> local_sent[p][k]] \in Sending
      BY DEF Sending
    <3>2. outages' \in 0..MaxOutages
      BY <2>2 DEF RaiseLocally
    <3>3. local_sent' \in [Processes -> [Conditions -> Times]]
      <4>1. CASE ShouldSend(local_sent[p][k])
        <5> DEFINE marked == [local_sent[p] EXCEPT ![k] = "recent"]
        <5>1. local_sent' = [local_sent EXCEPT ![p] = marked]
          BY <2>2, <4>1 DEF RaiseLocally
        <5>2. marked \in [Conditions -> Times]
          OBVIOUS
        <5> HIDE DEF marked
        <5> QED
          BY <5>1, <5>2
      <4> QED
        BY <2>2, <4>1 DEF RaiseLocally
    <3>4. sending' \in [Processes -> Sending \cup {NoAlert}]
      BY <2>2, <3>1 DEF RaiseLocally, Begin
    <3> QED
      BY <2>2, <3>2, <3>3, <3>4 DEF RaiseLocally
  <2>3. ASSUME NEW p \in Processes, Deliver(p) PROVE AlertsTypeOK'
    <3>1. sending[p].key \in Conditions
      BY <2>3, SendingIsTyped DEF Deliver
    <3>2. emails[sending[p].key] + 1 \in Nat
      BY <3>1
    <3> QED
      BY <2>3, <3>1, <3>2 DEF Deliver
  <2>4. ASSUME NEW p \in Processes, Unmark(p) PROVE AlertsTypeOK'
    <3>1. sending[p].key \in Conditions /\ sending[p].previous \in Times
      BY <2>4, SendingIsTyped DEF Unmark
    <3>2. last_sent' \in [Conditions -> Times]
      BY <2>4, <3>1 DEF Unmark
    <3>3. local_sent' \in [Processes -> [Conditions -> Times]]
      <4> DEFINE restored == [local_sent[p] EXCEPT ![sending[p].key] = sending[p].previous]
      <4>1. restored \in [Conditions -> Times]
        BY <3>1
      <4>2. local_sent' \in {local_sent, [local_sent EXCEPT ![p] = restored]}
        BY <2>4 DEF Unmark
      <4> HIDE DEF restored
      <4> QED
        BY <4>1, <4>2
    <3>4. sending' \in [Processes -> Sending \cup {NoAlert}]
      BY <2>4 DEF Unmark
    <3> QED
      BY <2>4, <3>2, <3>3, <3>4 DEF Unmark
  <2>5. ASSUME NEW p \in Processes, Lose(p) PROVE AlertsTypeOK'
    BY <2>5 DEF Lose, NoMemory
  <2>8. ASSUME NEW p \in Processes, Restart(p) PROVE AlertsTypeOK'
    BY <2>8 DEF Restart, NoMemory
  <2>6. ASSUME NEW k \in Conditions, CooldownEnds(k) PROVE AlertsTypeOK'
    BY <2>6 DEF CooldownEnds, Aged
  <2>7. CASE UNCHANGED alertVars
    BY <2>7 DEF alertVars
  <2> QED
    BY <2>1, <2>2, <2>3, <2>4, <2>5, <2>6, <2>7, <2>8 DEF AlertsNext, Finish
<1> QED
  BY <1>1, <1>2, PTL DEF AlertsSpec

-----------------------------------------------------------------------------
\* A new claim is made on a condition nobody is sending and nobody was sent.
LEMMA RaiseKeepsOneClaim ==
    ASSUME AlertsTypeOK, OneClaim, NEW p \in Processes, NEW k \in Conditions, Raise(p, k)
    PROVE  OneClaim'
<1>1. CASE ~ShouldSend(last_sent[k])
  BY <1>1 DEF Raise, OneClaim, MarkedFirst, OneSender, Remembered, About, Idle
<1>2. CASE ShouldSend(last_sent[k])
  <2> DEFINE claim == [key |-> k, table |-> TRUE, previous |-> last_sent[k]]
  <2>1. /\ last_sent' = [last_sent EXCEPT ![k] = "recent"]
        /\ sending' = [sending EXCEPT ![p] = claim]
        /\ emails' = emails
    BY <1>2 DEF Raise, Begin
  <2>2. last_sent[k] # "recent" /\ emails[k] = 0
    BY <1>2 DEF ShouldSend, OneClaim, Remembered
  <2>3. \A q \in Processes : ~About(q, k)
    BY <2>2 DEF OneClaim, MarkedFirst, About
  <2>4. claim # NoAlert /\ sending'[p] = claim
    <3>1. last_sent[k] \in {"never", "recent", "old"}
      BY DEF AlertsTypeOK, Times
    <3> DEFINE Claims == [key : Conditions, table : BOOLEAN,
                          previous : {"never", "recent", "old"}]
    <3>4. claim \in Claims
      BY <3>1
    <3>5. NoAlert \notin Claims
      BY AlertsAssumption
    <3> HIDE DEF claim, Claims
    <3>2. claim # NoAlert
      BY <3>4, <3>5
    <3>3. sending'[p] = claim
      BY <2>1 DEF AlertsTypeOK
    <3> QED
      BY <3>2, <3>3
  <2>5. \A q \in Processes \ {p} : sending'[q] = sending[q]
    BY <2>1 DEF AlertsTypeOK
  <2>6. MarkedFirst'
    <3> SUFFICES ASSUME NEW q \in Processes, ~Idle(q)'
                 PROVE  /\ sending'[q].table
                        /\ sending'[q].previous # "recent"
                        /\ last_sent'[sending'[q].key] = "recent"
                        /\ emails'[sending'[q].key] = 0
      BY DEF MarkedFirst
    <3>1. CASE q = p
      BY <3>1, <2>1, <2>2, <2>4 DEF AlertsTypeOK
    <3>2. CASE q # p
      <4>1. ~Idle(q) /\ sending'[q] = sending[q]
        BY <3>2, <2>5 DEF Idle
      <4>2. sending[q].key # k
        BY <4>1, <2>3 DEF About
      <4> QED
        BY <4>1, <4>2, <2>1, SendingIsTyped DEF OneClaim, MarkedFirst, AlertsTypeOK
    <3> QED
      BY <3>1, <3>2
  <2>7. OneSender'
    BY <2>1, <2>3, <2>4, <2>5 DEF OneClaim, OneSender, About, Idle
  <2>8. Remembered'
    BY <2>1, <2>2 DEF OneClaim, Remembered, AlertsTypeOK
  <2> QED
    BY <2>6, <2>7, <2>8 DEF OneClaim
<1> QED
  BY <1>1, <1>2

\* Delivering turns the claim of the one sender into the one email.
LEMMA DeliverKeepsOneClaim ==
    ASSUME AlertsTypeOK, OneClaim, NEW p \in Processes, Deliver(p)
    PROVE  OneClaim'
<1> DEFINE k == sending[p].key
<1>1. /\ ~Idle(p)
      /\ emails' = [emails EXCEPT ![k] = emails[k] + 1]
      /\ sending' = [sending EXCEPT ![p] = NoAlert]
      /\ last_sent' = last_sent
  BY DEF Deliver
<1>2. k \in Conditions /\ emails[k] = 0 /\ last_sent[k] = "recent"
  BY <1>1, SendingIsTyped DEF OneClaim, MarkedFirst
<1>3. \A q \in Processes : ~Idle(q)' =>
         q # p /\ ~Idle(q) /\ sending'[q] = sending[q]
  BY <1>1 DEF Idle, AlertsTypeOK
<1>4. \A q \in Processes \ {p} : ~Idle(q) => sending[q].key # k
  BY <1>1, <1>2 DEF OneClaim, OneSender, About
<1>5. MarkedFirst'
  <2> SUFFICES ASSUME NEW q \in Processes, ~Idle(q)'
               PROVE  /\ sending'[q].table
                      /\ sending'[q].previous # "recent"
                      /\ last_sent'[sending'[q].key] = "recent"
                      /\ emails'[sending'[q].key] = 0
    BY DEF MarkedFirst
  <2>1. q # p /\ ~Idle(q) /\ sending'[q] = sending[q]
    BY <1>3
  <2>2. sending[q].key \in Conditions /\ sending[q].key # k
    BY <2>1, <1>4, SendingIsTyped
  <2>3. emails'[sending[q].key] = emails[sending[q].key]
    BY <1>1, <2>2 DEF AlertsTypeOK
  <2> QED
    BY <1>1, <2>1, <2>3 DEF OneClaim, MarkedFirst
<1>6. OneSender'
  BY <1>3 DEF OneClaim, OneSender, About
<1>7. Remembered'
  BY <1>1, <1>2 DEF OneClaim, Remembered, AlertsTypeOK
<1> QED
  BY <1>5, <1>6, <1>7 DEF OneClaim

\* Giving the mark back leaves a condition that nobody was sent.
LEMMA UnmarkKeepsOneClaim ==
    ASSUME AlertsTypeOK, OneClaim, NEW p \in Processes, Unmark(p)
    PROVE  OneClaim'
<1> DEFINE k == sending[p].key
<1>1. ~Idle(p) /\ sending[p].table
  BY DEF Unmark, OneClaim, MarkedFirst
<1>2. /\ last_sent' = [last_sent EXCEPT ![k] = sending[p].previous]
      /\ sending' = [sending EXCEPT ![p] = NoAlert]
      /\ emails' = emails
  BY <1>1 DEF Unmark
<1>3. k \in Conditions /\ emails[k] = 0
  BY <1>1, SendingIsTyped DEF OneClaim, MarkedFirst
<1>4. \A q \in Processes : ~Idle(q)' =>
         q # p /\ ~Idle(q) /\ sending'[q] = sending[q]
  BY <1>2 DEF Idle, AlertsTypeOK
<1>5. \A q \in Processes \ {p} : ~Idle(q) => sending[q].key # k
  BY <1>1, <1>3 DEF OneClaim, OneSender, About
<1>6. MarkedFirst'
  <2> SUFFICES ASSUME NEW q \in Processes, ~Idle(q)'
               PROVE  /\ sending'[q].table
                      /\ sending'[q].previous # "recent"
                      /\ last_sent'[sending'[q].key] = "recent"
                      /\ emails'[sending'[q].key] = 0
    BY DEF MarkedFirst
  <2>1. q # p /\ ~Idle(q) /\ sending'[q] = sending[q]
    BY <1>4
  <2>2. sending[q].key \in Conditions /\ sending[q].key # k
    BY <2>1, <1>5, SendingIsTyped
  <2>3. last_sent'[sending[q].key] = last_sent[sending[q].key]
    BY <1>2, <2>2 DEF AlertsTypeOK
  <2> QED
    BY <1>2, <2>1, <2>3 DEF OneClaim, MarkedFirst
<1>7. OneSender'
  BY <1>4 DEF OneClaim, OneSender, About
<1>8. Remembered'
  BY <1>2, <1>3 DEF OneClaim, Remembered, AlertsTypeOK
<1> QED
  BY <1>6, <1>7, <1>8 DEF OneClaim

\* Every step but one of an outage keeps the claim exclusive.
LEMMA StepKeepsOneClaim ==
    ASSUME AlertsTypeOK, OneClaim, outages = 0, outages' = 0, [AlertsNext]_alertVars
    PROVE  OneClaim'
<1>1. ASSUME NEW p \in Processes, NEW k \in Conditions, Raise(p, k) PROVE OneClaim'
  BY <1>1, RaiseKeepsOneClaim
<1>2. ASSUME NEW p \in Processes, NEW k \in Conditions, RaiseLocally(p, k) PROVE OneClaim'
  BY <1>2 DEF RaiseLocally, AlertsTypeOK
<1>3. ASSUME NEW p \in Processes, Deliver(p) PROVE OneClaim'
  BY <1>3, DeliverKeepsOneClaim
<1>4. ASSUME NEW p \in Processes, Unmark(p) PROVE OneClaim'
  BY <1>4, UnmarkKeepsOneClaim
<1>5. ASSUME NEW p \in Processes, Lose(p) PROVE OneClaim'
  <2>1. \A q \in Processes : ~Idle(q)' => ~Idle(q) /\ sending'[q] = sending[q]
    BY <1>5 DEF Lose, Idle, AlertsTypeOK
  <2> QED
    BY <1>5, <2>1 DEF Lose, OneClaim, MarkedFirst, OneSender, Remembered, About
<1>8. ASSUME NEW p \in Processes, Restart(p) PROVE OneClaim'
  BY <1>8 DEF Restart, OneClaim, MarkedFirst, OneSender, Remembered, About, Idle
<1>6. ASSUME NEW k \in Conditions, CooldownEnds(k) PROVE OneClaim'
  <2>1. /\ \A p \in Processes : ~Idle(p) => sending[p].key # k
        /\ last_sent' = [last_sent EXCEPT ![k] = Aged(last_sent[k])]
        /\ emails' = [emails EXCEPT ![k] = 0]
        /\ sending' = sending
    BY <1>6 DEF CooldownEnds
  <2>2. \A j \in Conditions \ {k} : last_sent'[j] = last_sent[j] /\ emails'[j] = emails[j]
    BY <2>1 DEF AlertsTypeOK
  <2>3. emails'[k] = 0
    BY <2>1 DEF AlertsTypeOK
  <2>4. MarkedFirst'
    BY <2>1, <2>2, SendingIsTyped DEF OneClaim, MarkedFirst, Idle
  <2>5. OneSender'
    BY <2>1 DEF OneClaim, OneSender, About, Idle
  <2>6. Remembered'
    BY <2>2, <2>3 DEF OneClaim, Remembered
  <2> QED
    BY <2>4, <2>5, <2>6 DEF OneClaim
<1>7. CASE UNCHANGED alertVars
  BY <1>7 DEF alertVars, OneClaim, MarkedFirst, OneSender, Remembered, About, Idle
<1> QED
  BY <1>1, <1>2, <1>3, <1>4, <1>5, <1>6, <1>7, <1>8 DEF AlertsNext, Finish

\* Outages and losses are never forgotten.
LEMMA BoundsOnlyGrow ==
    ASSUME AlertsTypeOK, [AlertsNext]_alertVars
    PROVE  (outages' = 0 => outages = 0) /\ (losses' = 0 => losses = 0)
<1>1. outages \in Nat /\ losses \in Nat
  BY AlertsAssumption DEF AlertsTypeOK
<1>2. outages' \in {outages, outages + 1} /\ losses' \in {losses, losses + 1}
  <2>1. ASSUME NEW p \in Processes, NEW k \in Conditions, Raise(p, k) \/ RaiseLocally(p, k)
        PROVE  outages' \in {outages, outages + 1} /\ losses' = losses
    BY <2>1 DEF Raise, RaiseLocally
  <2>2. ASSUME NEW p \in Processes, Finish(p)
        PROVE  outages' = outages /\ losses' \in {losses, losses + 1}
    BY <2>2 DEF Finish, Deliver, Unmark, Lose
  <2>3. ASSUME NEW k \in Conditions, CooldownEnds(k)
        PROVE  outages' = outages /\ losses' = losses
    BY <2>3 DEF CooldownEnds
  <2>4. ASSUME NEW p \in Processes, Restart(p)
        PROVE  outages' = outages /\ losses' = losses
    BY <2>4 DEF Restart
  <2> QED
    BY <2>1, <2>2, <2>3, <2>4 DEF AlertsNext, alertVars
<1> QED
  BY <1>1, <1>2

\* However many processes meet a condition at once, fail to send or die, it is
\* emailed at most once in a cooldown, as long as the database was there.
THEOREM EmailedOncePerCooldown == AlertsSpec => []OneEmailPerCooldown
<1> DEFINE Inv == outages = 0 => OneClaim
<1>1. AlertsInit => Inv
  BY DEF AlertsInit, OneClaim, MarkedFirst, OneSender, Remembered, About, Idle
<1>2. AlertsTypeOK /\ Inv /\ [AlertsNext]_alertVars => Inv'
  BY StepKeepsOneClaim, BoundsOnlyGrow
<1>3. Inv => OneEmailPerCooldown
  BY DEF OneClaim, Remembered, OneEmailPerCooldown
<1> QED
  BY <1>1, <1>2, <1>3, AlertsAreTyped, PTL DEF AlertsSpec

-----------------------------------------------------------------------------
(* Quiet conditions.  That a mark is backed is kept by a failed send only     *)
(* because what it puts back is a mark that had run out.                      *)

RanOut == \A p \in Processes : ~Idle(p) => sending[p].previous # "recent"

\* What backs the mark of the table, and that of a process's own memory.
Backed(k) == last_sent[k] = "recent" => emails[k] > 0 \/ SendingNow(k, TRUE)

BackedLocally(k, p) ==
    local_sent[p][k] = "recent" =>
        emails[k] > 0 \/ (~Idle(p) /\ sending[p].key = k /\ ~sending[p].table)

AllBacked == \A k \in Conditions : Backed(k) /\ \A p \in Processes : BackedLocally(k, p)

\* A claim is made over a mark that ran out, and with the database is the only
\* thing that changed.
LEMMA ClaimIsMade ==
    ASSUME AlertsTypeOK, NEW p \in Processes, NEW k \in Conditions, NEW t \in BOOLEAN,
           NEW previous \in Times, Begin(p, k, t, previous)
    PROVE  /\ ~Idle(p)'
           /\ sending'[p].key = k /\ sending'[p].table = t
           /\ sending'[p].previous = previous
           /\ \A q \in Processes \ {p} : sending'[q] = sending[q]
<1> DEFINE claim == [key |-> k, table |-> t, previous |-> previous]
           Claims == [key : Conditions, table : BOOLEAN, previous : {"never", "recent", "old"}]
<1>1. claim \in Claims
  BY DEF Times
<1>2. NoAlert \notin Claims
  BY AlertsAssumption
<1>3. sending' = [sending EXCEPT ![p] = claim]
  BY DEF Begin
<1>4. sending'[p] = claim /\ \A q \in Processes \ {p} : sending'[q] = sending[q]
  BY <1>3 DEF AlertsTypeOK
<1>5. claim.key = k /\ claim.table = t /\ claim.previous = previous
  OBVIOUS
<1>6. claim # NoAlert
  <2> HIDE DEF claim, Claims
  <2> QED
    BY <1>1, <1>2
<1> HIDE DEF claim
<1> QED
  BY <1>4, <1>5, <1>6 DEF Idle

\* Without a loss, every step leaves each mark backed.
LEMMA StepKeepsBacked ==
    ASSUME AlertsTypeOK, RanOut, AllBacked, losses = 0, losses' = 0, [AlertsNext]_alertVars
    PROVE  RanOut' /\ AllBacked'
<1> USE DEF Backed, BackedLocally, SendingNow
<1>1. ASSUME NEW p \in Processes, NEW k \in Conditions, Raise(p, k)
      PROVE  RanOut' /\ AllBacked'
  <2>1. CASE ~ShouldSend(last_sent[k])
    BY <1>1, <2>1 DEF Raise, RanOut, AllBacked, Idle
  <2>2. CASE ShouldSend(last_sent[k])
    <3>1. /\ last_sent' = [last_sent EXCEPT ![k] = "recent"]
          /\ Begin(p, k, TRUE, last_sent[k])
          /\ emails' = emails /\ local_sent' = local_sent
          /\ Idle(p)
      BY <1>1, <2>2 DEF Raise
    <3>2. last_sent[k] \in Times /\ last_sent[k] # "recent"
      BY <2>2 DEF ShouldSend, AlertsTypeOK
    <3>3. /\ ~Idle(p)' /\ sending'[p].key = k /\ sending'[p].table
          /\ sending'[p].previous = last_sent[k]
          /\ \A q \in Processes \ {p} : sending'[q] = sending[q]
      BY <3>1, <3>2, ClaimIsMade
    <3>4. RanOut'
      BY <3>2, <3>3 DEF RanOut, Idle
    <3>5. ASSUME NEW j \in Conditions PROVE Backed(j)'
      <4>1. CASE j = k
        BY <3>3, <4>1
      <4>2. CASE j # k
        <5>1. last_sent'[j] = last_sent[j] /\ emails'[j] = emails[j]
          BY <3>1, <4>2 DEF AlertsTypeOK
        <5>2. SendingNow(j, TRUE) => SendingNow(j, TRUE)'
          BY <3>1, <3>3 DEF Idle
        <5> QED
          BY <5>1, <5>2 DEF AllBacked
      <4> QED
        BY <4>1, <4>2
    <3>6. ASSUME NEW j \in Conditions, NEW q \in Processes PROVE BackedLocally(j, q)'
      BY <3>1, <3>3 DEF AllBacked, Idle
    <3> QED
      BY <3>4, <3>5, <3>6 DEF AllBacked
  <2> QED
    BY <2>1, <2>2
<1>2. ASSUME NEW p \in Processes, NEW k \in Conditions, RaiseLocally(p, k)
      PROVE  RanOut' /\ AllBacked'
  <2>1. CASE ~ShouldSend(local_sent[p][k])
    BY <1>2, <2>1 DEF RaiseLocally, RanOut, AllBacked, Idle
  <2>2. CASE ShouldSend(local_sent[p][k])
    <3> DEFINE marked == [local_sent[p] EXCEPT ![k] = "recent"]
    <3>1. /\ local_sent' = [local_sent EXCEPT ![p] = marked]
          /\ Begin(p, k, FALSE, local_sent[p][k])
          /\ emails' = emails /\ last_sent' = last_sent
          /\ Idle(p)
      BY <1>2, <2>2 DEF RaiseLocally
    <3>2. local_sent[p][k] \in Times /\ local_sent[p][k] # "recent"
      BY <2>2 DEF ShouldSend, AlertsTypeOK
    <3>3. /\ ~Idle(p)' /\ sending'[p].key = k /\ ~sending'[p].table
          /\ sending'[p].previous = local_sent[p][k]
          /\ \A q \in Processes \ {p} : sending'[q] = sending[q]
      BY <3>1, <3>2, ClaimIsMade
    <3>4. RanOut'
      BY <3>2, <3>3 DEF RanOut, Idle
    <3>5. ASSUME NEW j \in Conditions PROVE Backed(j)'
      BY <3>1, <3>3 DEF AllBacked, Idle
    <3>6. ASSUME NEW j \in Conditions, NEW q \in Processes PROVE BackedLocally(j, q)'
      <4>1. CASE q = p /\ j = k
        BY <3>3, <4>1
      <4>2. CASE q = p /\ j # k
        <5>1. local_sent'[q] = marked
          BY <3>1, <4>2 DEF AlertsTypeOK
        <5>2. marked[j] = local_sent[p][j]
          BY <4>2 DEF AlertsTypeOK
        <5>3. local_sent'[q][j] = local_sent[p][j]
          BY <5>1, <5>2
        <5> QED
          BY <3>1, <4>2, <5>3 DEF AllBacked
      <4>3. CASE q # p
        BY <3>1, <3>3, <4>3 DEF AllBacked, AlertsTypeOK, Idle
      <4> QED
        BY <4>1, <4>2, <4>3
    <3> QED
      BY <3>4, <3>5, <3>6 DEF AllBacked
  <2> QED
    BY <2>1, <2>2
<1>3. ASSUME NEW p \in Processes, Deliver(p) PROVE RanOut' /\ AllBacked'
  <2> DEFINE k == sending[p].key
  <2>1. /\ emails' = [emails EXCEPT ![k] = emails[k] + 1]
        /\ sending' = [sending EXCEPT ![p] = NoAlert]
        /\ last_sent' = last_sent /\ local_sent' = local_sent
    BY <1>3 DEF Deliver
  <2>2. k \in Conditions /\ emails[k] \in Nat
    BY <1>3, SendingIsTyped DEF Deliver, AlertsTypeOK
  <2>3. emails'[k] > 0 /\ \A j \in Conditions \ {k} : emails'[j] = emails[j]
    BY <2>1, <2>2 DEF AlertsTypeOK
  <2>4. \A q \in Processes \ {p} : sending'[q] = sending[q]
    BY <2>1 DEF AlertsTypeOK
  <2>5. sending'[p] = NoAlert
    BY <2>1 DEF AlertsTypeOK
  <2>6. RanOut'
    BY <2>4, <2>5 DEF RanOut, Idle
  <2>7. ASSUME NEW j \in Conditions PROVE Backed(j)' /\ \A q \in Processes : BackedLocally(j, q)'
    <3>1. CASE j = k
      BY <2>3, <3>1
    <3>2. CASE j # k
      BY <2>1, <2>3, <2>4, <3>2 DEF AllBacked, Idle
    <3> QED
      BY <3>1, <3>2
  <2> QED
    BY <2>6, <2>7 DEF AllBacked
<1>4. ASSUME NEW p \in Processes, Unmark(p) PROVE RanOut' /\ AllBacked'
  <2> DEFINE k == sending[p].key
             previous == sending[p].previous
  <2>1. /\ sending' = [sending EXCEPT ![p] = NoAlert]
        /\ emails' = emails
        /\ k \in Conditions /\ previous # "recent"
    BY <1>4, SendingIsTyped DEF Unmark, RanOut
  <2>2. sending'[p] = NoAlert /\ \A q \in Processes \ {p} : sending'[q] = sending[q]
    BY <2>1 DEF AlertsTypeOK
  <2>3. RanOut'
    BY <2>2 DEF RanOut, Idle
  <2>4. CASE sending[p].table
    <3>1. last_sent' = [last_sent EXCEPT ![k] = previous] /\ local_sent' = local_sent
      BY <1>4, <2>4 DEF Unmark
    <3>2. ASSUME NEW j \in Conditions PROVE Backed(j)'
      <4>1. CASE j = k
        BY <2>1, <3>1, <4>1 DEF AlertsTypeOK
      <4>2. CASE j # k
        BY <2>1, <2>2, <3>1, <4>2 DEF AllBacked, AlertsTypeOK, Idle
      <4> QED
        BY <4>1, <4>2
    <3>3. ASSUME NEW j \in Conditions, NEW q \in Processes PROVE BackedLocally(j, q)'
      BY <2>1, <2>2, <2>4, <3>1 DEF AllBacked, Idle
    <3> QED
      BY <2>3, <3>2, <3>3 DEF AllBacked
  <2>5. CASE ~sending[p].table
    <3> DEFINE restored == [local_sent[p] EXCEPT ![k] = previous]
    <3>1. last_sent' = last_sent /\ local_sent' = [local_sent EXCEPT ![p] = restored]
      BY <1>4, <2>5 DEF Unmark
    <3>2. ASSUME NEW j \in Conditions PROVE Backed(j)'
      BY <2>1, <2>2, <2>5, <3>1 DEF AllBacked, Idle
    <3>3. ASSUME NEW j \in Conditions, NEW q \in Processes PROVE BackedLocally(j, q)'
      <4>1. CASE q = p
        <5>1. local_sent'[q] = restored
          BY <3>1, <4>1 DEF AlertsTypeOK
        <5>2. restored[k] = previous /\ (j # k => restored[j] = local_sent[p][j])
          BY <2>1 DEF AlertsTypeOK
        <5> HIDE DEF restored
        <5> QED
          BY <2>1, <4>1, <5>1, <5>2 DEF AllBacked, Idle
      <4>2. CASE q # p
        BY <2>1, <2>2, <3>1, <4>2 DEF AllBacked, AlertsTypeOK, Idle
      <4> QED
        BY <4>1, <4>2
    <3> QED
      BY <2>3, <3>2, <3>3 DEF AllBacked
  <2> QED
    BY <2>4, <2>5
<1>5. ASSUME NEW p \in Processes, Lose(p) PROVE RanOut' /\ AllBacked'
  BY <1>5 DEF Lose, AlertsTypeOK
<1>8. ASSUME NEW p \in Processes, Restart(p) PROVE RanOut' /\ AllBacked'
  <2>1. /\ sending' = sending /\ last_sent' = last_sent /\ emails' = emails
        /\ local_sent' = [local_sent EXCEPT ![p] = NoMemory]
    BY <1>8 DEF Restart
  <2>2. \A q \in Processes, j \in Conditions :
           local_sent'[q][j] = "recent" => local_sent[q][j] = "recent"
    BY <2>1 DEF AlertsTypeOK, NoMemory
  <2> QED
    BY <2>1, <2>2 DEF RanOut, AllBacked, Idle
<1>6. ASSUME NEW k \in Conditions, CooldownEnds(k) PROVE RanOut' /\ AllBacked'
  <2>1. /\ \A p \in Processes : ~Idle(p) => sending[p].key # k
        /\ last_sent' = [last_sent EXCEPT ![k] = Aged(last_sent[k])]
        /\ local_sent' = [p \in Processes |-> [local_sent[p] EXCEPT ![k] = Aged(@)]]
        /\ emails' = [emails EXCEPT ![k] = 0]
        /\ sending' = sending
    BY <1>6 DEF CooldownEnds
  <2>2. \A t \in Times : Aged(t) # "recent"
    BY DEF Times, Aged
  <2>3. /\ last_sent'[k] # "recent"
        /\ \A j \in Conditions \ {k} : last_sent'[j] = last_sent[j] /\ emails'[j] = emails[j]
    BY <2>1, <2>2 DEF AlertsTypeOK
  <2>4. \A p \in Processes : /\ local_sent'[p][k] # "recent"
                             /\ \A j \in Conditions \ {k} : local_sent'[p][j] = local_sent[p][j]
    BY <2>1, <2>2 DEF AlertsTypeOK
  <2>5. RanOut'
    BY <2>1 DEF RanOut, Idle
  <2>6. ASSUME NEW j \in Conditions PROVE Backed(j)' /\ \A q \in Processes : BackedLocally(j, q)'
    BY <2>1, <2>3, <2>4 DEF AllBacked, Idle
  <2> QED
    BY <2>5, <2>6 DEF AllBacked
<1>7. CASE UNCHANGED alertVars
  BY <1>7 DEF alertVars, RanOut, AllBacked, Idle
<1> QED
  BY <1>1, <1>2, <1>3, <1>4, <1>5, <1>6, <1>7, <1>8 DEF AlertsNext, Finish

\* As long as no process died while it was sending, a condition is quiet only
\* because somebody was told of it, or is being told.
THEOREM QuietMeansTold == AlertsSpec => []OnlyDeliveryQuiets
<1> DEFINE Inv == losses = 0 => RanOut /\ AllBacked
<1>1. AlertsInit => Inv
  BY DEF AlertsInit, RanOut, AllBacked, Backed, BackedLocally, Idle
<1>2. AlertsTypeOK /\ Inv /\ [AlertsNext]_alertVars => Inv'
  BY StepKeepsBacked, BoundsOnlyGrow
<1>3. Inv => OnlyDeliveryQuiets
  BY DEF OnlyDeliveryQuiets, AllBacked, Backed, BackedLocally
<1> QED
  BY <1>1, <1>2, <1>3, AlertsAreTyped, PTL DEF AlertsSpec

\* A quiet condition has been emailed about, and once, for any number of
\* processes and conditions, until an outage or a loss makes two memories of it.
THEOREM QuietIsAlwaysEarned == AlertsSpec => []QuietIsEarned
<1>1. OneEmailPerCooldown /\ OnlyDeliveryQuiets => QuietIsEarned
  BY DEF QuietIsEarned
<1>2. QED
  BY <1>1, EmailedOncePerCooldown, QuietMeansTold, PTL
=============================================================================
