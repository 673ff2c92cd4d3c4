-------------------------------- MODULE Brief --------------------------------
(***************************************************************************)
(* The morning brief: send_all_briefs goes through the workspaces on one   *)
(* database connection; for each it builds the cards (pulse_cards), reads  *)
(* the experiments, looks up who gets the brief, sends it to each and logs *)
(* each attempt.  A query that fails leaves its transaction aborted, and   *)
(* every query after it fails, until somebody rolls back; a connection     *)
(* that is lost stays lost until the morning is over.  What the cards say  *)
(* is in Pulse.                                                            *)
(***************************************************************************)
EXTENDS Integers, FiniteSets

CONSTANTS
    Workspaces,       \* with a connected source, and data
    Readers,          \* users of each
    Cards,            \* _BUILDERS
    BriefDays,        \* the days looked at; day 6 is a Sunday
    NoWorkspace,
    MaxBriefFaults    \* bound: queries, sends, connections and processes that fail

ASSUME BriefAssumption ==
    BriefDays \subseteq Nat /\ NoWorkspace \notin Workspaces /\ MaxBriefFaults \in Nat

VARIABLES
    briefed,      \* the mornings the job has run
    at,           \* where it stands
    morning,      \* the day it runs for
    left,         \* workspaces not yet begun
    serving,      \* the one it is at
    aborted,      \* is the connection's transaction aborted?
    built,        \* cards tried
    failed,       \* cards that failed
    faulty,       \* cards whose own query failed (history)
    said,         \* were the experiments read?
    readers,      \* who is still to be sent it
    addressed,      \* who was sent it last
    told,         \* was that said to be delivered?
    result,       \* how it went with each workspace
    deliveries,   \* brief_deliveries rows with delivered = TRUE
    arrived,      \* what reached a mailbox (external)
    hurt,         \* workspaces and days with a failure of their own (history)
    died,         \* the mornings the worker died in the job (history)
    lost,         \* the mornings the job's connection went away
    alerted,      \* workspaces and days an alert was raised for
    briefFaults   \* how many (bound only)

cards     == <<built, failed, faulty, said>>
turn      == <<cards, readers, addressed, told>>
evidence  == <<deliveries, arrived>>
briefVars == <<briefed, at, morning, left, serving, aborted, turn, result, evidence, hurt, died, lost,
               alerted, briefFaults>>

Mailed == [of : Workspaces, to : Readers, on : BriefDays]
Day == Workspaces \X BriefDays

AnyReader == CHOOSE r \in Readers : TRUE

BriefTypeOK ==
    /\ briefed \subseteq BriefDays /\ morning \in BriefDays
    /\ at \in {"idle", "next", "data", "cards", "experiments", "recipients", "send", "log", "alerts"}
    /\ left \subseteq Workspaces /\ serving \in Workspaces \cup {NoWorkspace}
    /\ aborted \in BOOLEAN /\ said \in BOOLEAN
    /\ faulty \subseteq built /\ failed \subseteq built /\ built \subseteq Cards
    /\ readers \subseteq Readers /\ addressed \in Readers \cup {AnyReader} /\ told \in BOOLEAN
    /\ result \in [Workspaces -> {"none", "sent", "unsent", "error"}]
    /\ deliveries \subseteq Mailed /\ arrived \subseteq Mailed
    /\ hurt \subseteq Day /\ died \subseteq BriefDays /\ alerted \subseteq Day
    /\ lost \subseteq BriefDays
    /\ briefFaults \in 0..MaxBriefFaults

BriefInit ==
    /\ briefed = {} /\ at = "idle" /\ morning \in BriefDays
    /\ left = {} /\ serving = NoWorkspace /\ aborted = FALSE
    /\ built = {} /\ failed = {} /\ faulty = {} /\ said = FALSE /\ readers = {}
    /\ addressed = AnyReader /\ told = FALSE
    /\ result = [c \in Workspaces |-> "none"]
    /\ deliveries = {} /\ arrived = {} /\ hurt = {} /\ died = {} /\ alerted = {} /\ briefFaults = 0
    /\ lost = {}

Here     == <<serving, morning>>
Mail(to) == [of |-> serving, to |-> to, on |-> morning]

\* Something of the workspace's own goes wrong.
Fault ==
    /\ briefFaults < MaxBriefFaults /\ briefFaults' = briefFaults + 1
    /\ hurt' = hurt \cup {Here}
Fine  == UNCHANGED <<briefFaults, hurt>>

\* A statement on the connection: it works if there is one, and its transaction
\* is sound.
Broken == aborted \/ morning \in lost
Works  == ~Broken /\ Fine
Fails  == IF Broken THEN Fine ELSE Fault

-----------------------------------------------------------------------------
(* send_all_briefs. *)

StartJob(d) ==
    /\ at = "idle" /\ d \notin briefed /\ \A e \in briefed : e < d
    /\ briefed' = briefed \cup {d} /\ morning' = d
    /\ at' = "next" /\ left' = Workspaces /\ aborted' = FALSE
    /\ result' = [c \in Workspaces |-> "none"]
    /\ UNCHANGED <<serving, turn, evidence, hurt, died, lost, alerted, briefFaults>>

NextWorkspace ==
    /\ at = "next"
    /\ \/ \E c \in left : serving' = c /\ left' = left \ {c} /\ at' = "data"
       \/ left = {} /\ at' = "alerts" /\ UNCHANGED <<serving, left>>
    /\ built' = {} /\ failed' = {} /\ faulty' = {} /\ said' = FALSE
    /\ readers' = {} /\ UNCHANGED <<addressed, told>>
    /\ UNCHANGED <<briefed, morning, aborted, result, evidence, hurt, died, lost, alerted,
                   briefFaults>>

\* Slip: the connection is not made usable again.
GiveUp_aborted ==
    /\ result' = [result EXCEPT ![serving] = "error"]
    /\ aborted' = TRUE /\ at' = "next"

\* Whatever send_brief raises: the next workspace gets a usable connection, if
\* there is one to roll back.
GiveUp ==
    /\ result' = [result EXCEPT ![serving] = "error"]
    /\ aborted' = FALSE /\ at' = "next"

\* _has_business_data
HasData ==
    /\ at = "data"
    /\ \/ Works /\ at' = "cards" /\ UNCHANGED <<result, aborted>>
       \/ Fails /\ GiveUp
    /\ UNCHANGED <<briefed, morning, left, serving, turn, evidence, died, lost, alerted>>

\* One card: what goes wrong is caught, and the connection left as it is.
BuildCard(k) ==
    /\ at = "cards" /\ k \in Cards \ built
    /\ built' = built \cup {k}
    /\ \/ Works /\ UNCHANGED <<failed, faulty, aborted>>
       \/ /\ Fails /\ failed' = failed \cup {k} /\ aborted' = TRUE
          /\ faulty' = IF Broken THEN faulty ELSE faulty \cup {k}
    /\ at' = IF built' = Cards THEN "experiments" ELSE at
    /\ UNCHANGED <<briefed, morning, left, serving, said, readers, addressed, told, result,
                   evidence, died, lost, alerted>>

\* _read_experiments: a failure costs the section, and rolls back.
ReadExperiments ==
    /\ at = "experiments" /\ at' = "recipients"
    /\ \/ Works /\ said' = TRUE /\ UNCHANGED aborted
       \/ Fails /\ said' = FALSE /\ aborted' = FALSE
    /\ UNCHANGED <<briefed, morning, left, serving, built, failed, faulty, readers, addressed,
                   told, result,
                   evidence, died, lost, alerted>>

BriefRecipients ==
    /\ at = "recipients"
    /\ \/ Works /\ readers' = Readers /\ at' = "send" /\ UNCHANGED <<result, aborted>>
       \/ Fails /\ GiveUp /\ UNCHANGED readers
    /\ UNCHANGED <<briefed, morning, left, serving, cards, addressed, told, evidence, died, lost,
                   alerted>>

\* notify.send_email never raises.  A mail may be refused, and it may arrive
\* although the answer is lost.
SendBrief(to) ==
    /\ at = "send" /\ to \in readers
    /\ \/ Fine /\ told' = TRUE /\ arrived' = arrived \cup {Mail(to)}
       \/ Fault /\ told' = FALSE /\ arrived' \in {arrived, arrived \cup {Mail(to)}}
    /\ result' = [result EXCEPT ![serving] = IF told' \/ @ = "sent" THEN "sent" ELSE "unsent"]
    /\ readers' = readers \ {to} /\ addressed' = to /\ at' = "log"
    /\ UNCHANGED <<briefed, morning, left, serving, aborted, cards, deliveries, died, lost,
                   alerted>>

\* The rows that say a mail was delivered.
Confirmed == IF told THEN {Mail(addressed)} ELSE {}

\* log_delivery, a transaction of its own: a failure is rolled back, the row lost.
LogDelivery ==
    /\ at = "log"
    /\ \/ Works /\ deliveries' = deliveries \cup Confirmed
       \/ Fails /\ UNCHANGED deliveries
    /\ aborted' = FALSE /\ at' = "send" /\ told' = FALSE
    /\ UNCHANGED <<briefed, morning, left, serving, cards, readers, addressed, result, arrived,
                   died, lost, alerted>>

Served ==
    /\ at = "send" /\ readers = {}
    /\ at' = "next"
    /\ UNCHANGED <<briefed, morning, left, serving, aborted, turn, result, evidence, hurt, died,
                   lost, alerted, briefFaults>>

\* brief_failure
Unreached == {c \in Workspaces : result[c] # "sent"}

\* _alert_undelivered, on a connection of its own.
EndJob ==
    /\ at = "alerts" /\ at' = "idle"
    /\ alerted' = alerted \cup (Unreached \X {morning})
    /\ serving' = NoWorkspace
    /\ UNCHANGED <<briefed, morning, left, aborted, turn, result, evidence, hurt, died, lost,
                   briefFaults>>

\* The server closes the connection, or the network does.  The rollbacks fail
\* with everything else, and nobody connects again before tomorrow.
ConnectionLost ==
    /\ at \notin {"idle", "alerts"} /\ morning \notin lost /\ briefFaults < MaxBriefFaults
    /\ briefFaults' = briefFaults + 1
    /\ lost' = lost \cup {morning}
    /\ UNCHANGED <<briefed, at, morning, left, serving, aborted, turn, result, evidence, hurt, died,
                   alerted>>

\* The worker dies, or the list of workspaces cannot be read and nothing is
\* reported; the job is not begun again.
WorkerDies ==
    /\ at # "idle" /\ briefFaults < MaxBriefFaults
    /\ briefFaults' = briefFaults + 1
    /\ died' = died \cup {morning}
    /\ at' = "idle" /\ serving' = NoWorkspace
    /\ UNCHANGED <<briefed, morning, left, aborted, turn, result, evidence, hurt, lost, alerted>>

BriefNext ==
    \/ \E d \in BriefDays : StartJob(d)
    \/ NextWorkspace \/ HasData \/ ReadExperiments \/ BriefRecipients \/ LogDelivery \/ Served
    \/ EndJob \/ ConnectionLost \/ WorkerDies
    \/ \E k \in Cards : BuildCard(k)
    \/ \E to \in Readers : SendBrief(to)

BriefSpec == BriefInit /\ [][BriefNext]_briefVars

-----------------------------------------------------------------------------
(* The evidence: GET /milestones reads it. *)

is_working_day(d) == d % 7 # 6

\* delivery_summary as of a day, for one reader: today counts once it came.
delivery_summary(c, to, now) ==
    LET got == {r.on : r \in {q \in deliveries : q.of = c /\ q.to = to}}
        expected == {d \in BriefDays : is_working_day(d) /\ (d < now \/ d \in got)}
    IN  [missed |-> expected \ got, every |-> expected # {} /\ expected \subseteq got]

-----------------------------------------------------------------------------
(* Properties. *)
Failures(c, d) == <<c, d>> \in hurt

\* brief.py, send_all_briefs: "A failure for one workspace never stops the
\* others."  They share a connection, and whoever's brief did not go out had a
\* failure of its own, or the connection was lost for all of them.
NoOneElsesFailure ==
    \A c \in Workspaces :
        result[c] \in {"unsent", "error"} => Failures(c, morning) \/ morning \in lost

\* brief.py: the log is evidence.  What it says was delivered did arrive; and a
\* record that says every working day was earned on every one of them.
EvidenceIsTrue ==
    /\ deliveries \subseteq arrived
    /\ \A r \in arrived \ deliveries :
          Failures(r.of, r.on) \/ r.on \in died \cup lost \/ (at = "log" /\ r = Mail(addressed))
    /\ \A c \in Workspaces, to \in Readers :
          delivery_summary(c, to, morning).every =>
              \A d \in BriefDays : is_working_day(d) /\ d < morning => [of |-> c, to |-> to, on |-> d] \in arrived

\* A brief that reached nobody is the morning's one job not done: when the job is
\* over, for every workspace an alert was raised or a mail said to be delivered,
\* unless the worker died.
SilenceIsAlerted ==
    \A c \in Workspaces :
        morning \in briefed \ died /\ at = "idle" => result[c] = "sent" \/ <<c, morning>> \in alerted

\* No one's failure is another's, the log is evidence and silence is reported: brief.py
\* says so of itself, and all hold whatever fails on the way, the process included.
BriefsAreAccounted == NoOneElsesFailure /\ EvidenceIsTrue /\ SilenceIsAlerted
=============================================================================
