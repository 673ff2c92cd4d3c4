-------------------------- MODULE ActionLifecycle ---------------------------
(***************************************************************************)
(* What the approval inbox promises of each row of the actions ledger      *)
(* (docstring of actions_decide): it is proposed, then rejected for good,  *)
(* or approved as often as it takes until it is delivered and executed.    *)
(* Nothing is delivered for an action a person has already settled.        *)
(*                                                                         *)
(* The promise holds action by action, for those that are decided in an    *)
(* orderly way: one decision at a time, none cut off, and what the mail     *)
(* provider answers is true.  Of the others it promises nothing.            *)
(***************************************************************************)
CONSTANT Actions

VARIABLES
    status,      \* of each action
    delivered,   \* the actions whose message has gone out
    orderly      \* the actions that were decided in an orderly way so far

vars == <<status, delivered, orderly>>

Init ==
    /\ status = [a \in Actions |-> "proposed"]
    /\ delivered = {}
    /\ orderly = Actions

Open(a) == status[a] \in {"proposed", "approved"}

Reject(a) ==
    /\ status[a] = "proposed" /\ a \notin delivered
    /\ status' = [status EXCEPT ![a] = "rejected"]
    /\ UNCHANGED delivered

\* Approved, and to be tried again.
Approve(a) ==
    /\ Open(a)
    /\ status' = [status EXCEPT ![a] = "approved"]
    /\ UNCHANGED delivered

Deliver(a) ==
    /\ Open(a)
    /\ delivered' = delivered \cup {a}
    /\ UNCHANGED status

Execute(a) ==
    /\ Open(a) /\ a \in delivered
    /\ status' = [status EXCEPT ![a] = "executed"]
    /\ UNCHANGED delivered

Keep(a) ==
    /\ a \in orderly /\ UNCHANGED orderly
    /\ Reject(a) \/ Approve(a) \/ Deliver(a) \/ Execute(a)

\* Whatever becomes of an action in disorder, it is that action's alone.
Disturb(a) ==
    /\ orderly' = orderly \ {a}
    /\ \E s \in {"proposed", "approved", "executed", "rejected"} :
          status' = [status EXCEPT ![a] = s]
    /\ delivered' \in {delivered, delivered \cup {a}}

Next == \E a \in Actions : Keep(a) \/ Disturb(a)

Spec == Init /\ [][Next]_vars
=============================================================================
