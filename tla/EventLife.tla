------------------------------ MODULE EventLife ------------------------------
(***************************************************************************)
(* What the event bus promises of each event (bus.py: emit, pending,       *)
(* mark_processed, expire_stale): a fact is raised once, is open until a   *)
(* pass closes it, and says from then on what was done with it, in one     *)
(* closing that no later pass touches.  Where passes have overlapped, the  *)
(* later closing may stand in for the earlier one; still no event is       *)
(* reopened, closed without a word or closed in two ways.                  *)
(***************************************************************************)
CONSTANTS
    Facts,       \* what can be raised
    Outcomes     \* closings: each of an event, saying what was done with it

VARIABLES
    status,      \* of each event
    closing,     \* the closings there are
    overlapped   \* have two passes overlapped so far?

vars == <<status, closing, overlapped>>

Init ==
    /\ status = [e \in Facts |-> "absent"]
    /\ closing = {}
    /\ overlapped = FALSE

Of(e) == {m \in closing : m.event = e}

Raise(e) ==
    /\ status[e] = "absent"
    /\ status' = [status EXCEPT ![e] = "pending"]
    /\ UNCHANGED <<closing, overlapped>>

MayClose(e) == status[e] = "pending" \/ (overlapped /\ status[e] = "closed")

\* What a pass has closed shows all at once, each event with its one closing.
Close(S) ==
    /\ \A e \in S : MayClose(e)
    /\ status' = [e \in Facts |-> IF e \in S THEN "closed" ELSE status[e]]
    /\ \A e \in S : \E m \in Outcomes : Of(e)' = {m}
    /\ \A e \in Facts \ S : Of(e)' = Of(e)
    /\ UNCHANGED overlapped

Overlap == overlapped' = TRUE /\ UNCHANGED <<status, closing>>

Next ==
    \/ \E e \in Facts : Raise(e)
    \/ \E S \in (SUBSET Facts) \ {{}} : Close(S)
    \/ Overlap

Spec == Init /\ [][Next]_vars
=============================================================================
