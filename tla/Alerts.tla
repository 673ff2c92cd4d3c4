------------------------------- MODULE Alerts -------------------------------
(***************************************************************************)
(* alerts.py: a condition that fails is emailed, and then stays quiet for  *)
(* the cooldown.  raise_alert claims the condition's row, marks it as sent *)
(* before sending, and puts the mark back when nothing was delivered.  The *)
(* row lock makes claim and mark one step; the sending is another.         *)
(*                                                                         *)
(* Without the database a memory of the process stands in for the table.   *)
(* A send takes seconds and the cooldown hours: no cooldown ends during a  *)
(* send.                                                                   *)
(***************************************************************************)
EXTENDS Integers

CONSTANTS
    Processes,      \* whoever raises alerts
    NoAlert,        \* what an idle process is sending
    Conditions,           \* dedupe keys, one a condition
    MaxOutages,     \* bound: alerts raised without the database
    MaxLosses,      \* bound: sends that are cut off by a crash
    Undelivered     \* may the mail provider fail to deliver?

ASSUME AlertsAssumption ==
    /\ MaxOutages \in Nat /\ MaxLosses \in Nat
    /\ Undelivered \in BOOLEAN
    /\ NoAlert \notin [key : Conditions, table : BOOLEAN, previous : {"never", "recent", "old"}]

VARIABLES
    last_sent,    \* alerts.last_sent_at of each condition
    local_sent,   \* _local_sent of each process
    emails,       \* how often each was delivered within this cooldown
    sending,      \* what each process is sending
    outages, losses    \* bounds only

alertVars == <<last_sent, local_sent, emails, sending, outages, losses>>

Times == {"never", "recent", "old"}

\* What a process is about: the condition, where it marked it, and what the
\* mark was before.
Sending == [key : Conditions, table : BOOLEAN, previous : Times]

AlertsTypeOK ==
    /\ last_sent \in [Conditions -> Times]
    /\ local_sent \in [Processes -> [Conditions -> Times]]
    /\ emails \in [Conditions -> Nat]
    /\ sending \in [Processes -> Sending \cup {NoAlert}]
    /\ outages \in 0..MaxOutages /\ losses \in 0..MaxLosses

AlertsInit ==
    /\ last_sent = [k \in Conditions |-> "never"]
    /\ local_sent = [p \in Processes |-> [k \in Conditions |-> "never"]]
    /\ emails = [k \in Conditions |-> 0]
    /\ sending = [p \in Processes |-> NoAlert]
    /\ outages = 0 /\ losses = 0

Idle(p) == sending[p] = NoAlert

\* Slip: the cooldown is not looked at.
ShouldSend_always(previous) == TRUE

ShouldSend(previous) == previous \in {"never", "old"}

Begin(p, k, table, previous) ==
    sending' = [sending EXCEPT ![p] =
                   [key |-> k, table |-> table, previous |-> previous]]

\* _claim and _mark in one transaction; suppressed within the cooldown.
Raise(p, k) ==
    /\ Idle(p)
    /\ IF ShouldSend(last_sent[k])
       THEN /\ last_sent' = [last_sent EXCEPT ![k] = "recent"]
            /\ Begin(p, k, TRUE, last_sent[k])
       ELSE UNCHANGED <<last_sent, sending>>
    /\ UNCHANGED <<local_sent, emails, outages, losses>>

\* The same on the process's own memory.
RaiseLocally(p, k) ==
    /\ Idle(p) /\ outages < MaxOutages
    /\ outages' = outages + 1
    /\ IF ShouldSend(local_sent[p][k])
       THEN /\ local_sent' = [local_sent EXCEPT ![p][k] = "recent"]
            /\ Begin(p, k, FALSE, local_sent[p][k])
       ELSE UNCHANGED <<local_sent, sending>>
    /\ UNCHANGED <<last_sent, emails, losses>>

\* The email goes out; the mark stays.
Deliver(p) ==
    /\ ~Idle(p)
    /\ emails' = [emails EXCEPT ![sending[p].key] = @ + 1]
    /\ sending' = [sending EXCEPT ![p] = NoAlert]
    /\ UNCHANGED <<last_sent, local_sent, outages, losses>>

\* Slip: the mark stays although nothing was delivered.
Unmark_keeps(p) ==
    /\ Undelivered /\ ~Idle(p)
    /\ sending' = [sending EXCEPT ![p] = NoAlert]
    /\ UNCHANGED <<last_sent, local_sent, emails, outages, losses>>

\* Nothing was delivered: _unmark puts back what the mark was.
Unmark(p) ==
    LET s == sending[p] IN
    /\ Undelivered /\ ~Idle(p)
    /\ IF s.table
       THEN /\ last_sent' = [last_sent EXCEPT ![s.key] = s.previous]
            /\ UNCHANGED local_sent
       ELSE /\ local_sent' = [local_sent EXCEPT ![p][s.key] = s.previous]
            /\ UNCHANGED last_sent
    /\ sending' = [sending EXCEPT ![p] = NoAlert]
    /\ UNCHANGED <<emails, outages, losses>>

\* A process that died has no memory.
NoMemory == [k \in Conditions |-> "never"]

\* The process dies before the email, or lives and cannot put the mark of the
\* table back after the email failed.
Lose(p) ==
    /\ ~Idle(p) /\ losses < MaxLosses
    /\ losses' = losses + 1
    /\ sending' = [sending EXCEPT ![p] = NoAlert]
    /\ \/ local_sent' = [local_sent EXCEPT ![p] = NoMemory]
       \/ sending[p].table /\ UNCHANGED local_sent
    /\ UNCHANGED <<last_sent, emails, outages>>

\* The process starts again while it is sending nothing.
Restart(p) ==
    /\ Idle(p)
    /\ local_sent' = [local_sent EXCEPT ![p] = NoMemory]
    /\ UNCHANGED <<last_sent, emails, sending, outages, losses>>

Aged(t) == IF t = "recent" THEN "old" ELSE t

\* ALERT_COOLDOWN_HOURS have passed.
CooldownEnds(k) ==
    /\ \A p \in Processes : ~Idle(p) => sending[p].key # k
    /\ last_sent' = [last_sent EXCEPT ![k] = Aged(@)]
    /\ local_sent' = [p \in Processes |-> [local_sent[p] EXCEPT ![k] = Aged(@)]]
    /\ emails' = [emails EXCEPT ![k] = 0]
    /\ UNCHANGED <<sending, outages, losses>>

Finish(p) == Deliver(p) \/ Unmark(p) \/ Lose(p)

AlertsNext ==
    \/ \E p \in Processes, k \in Conditions : Raise(p, k) \/ RaiseLocally(p, k)
    \/ \E p \in Processes : Finish(p) \/ Restart(p)
    \/ \E k \in Conditions : CooldownEnds(k)

AlertsSpec == AlertsInit /\ [][AlertsNext]_alertVars

-----------------------------------------------------------------------------
(* Safety. *)

\* However many processes meet the condition at once, and whatever fails, it
\* is emailed at most once in a cooldown: marked before sending.  Table and
\* memories are never reconciled, so an outage may cost a second email.
OneEmailPerCooldown == outages = 0 => \A k \in Conditions : emails[k] <= 1

SendingNow(k, table) ==
    \E p \in Processes :
        ~Idle(p) /\ sending[p].key = k /\ sending[p].table = table

\* Only a delivery makes a condition quiet, with the database and without: a
\* mark is backed by an email of this cooldown or by one being sent.  A process
\* that dies while sending leaves a mark behind that nothing backs.
OnlyDeliveryQuiets == losses = 0 =>
    \A k \in Conditions :
        /\ last_sent[k] = "recent" => emails[k] > 0 \/ SendingNow(k, TRUE)
        /\ \A p \in Processes : local_sent[p][k] = "recent" =>
              emails[k] > 0 \/ (~Idle(p) /\ sending[p].key = k /\ ~sending[p].table)

\* A condition that is quiet has been emailed, once.
QuietIsEarned == OneEmailPerCooldown /\ OnlyDeliveryQuiets
=============================================================================
