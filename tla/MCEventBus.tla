----------------------------- MODULE MCEventBus -----------------------------
(* Values for TLC: which events there are, and whom they are about. *)
EXTENDS EventBus, TLC

CONSTANTS acme, bolt

\* Two drafts for one customer; a hold beside a draft; what nobody handles.
MCMixes == {[e \in Facts |-> IF e = 1 THEN m[1] ELSE m[2]] :
              m \in {<<"promise", "chase">>, <<"hold", "chase">>,
                     <<"unknown", "hold">>, <<"chase", "noted">>}}

MCDrafts == {[e \in Facts |-> "chase"]}
MCMixed  == {[e \in Facts |-> IF e = 1 THEN "unknown" ELSE "promise"]}

\* The two processes do the same.
MCSymmetry == Permutations(Workers)

MCCustomerOf  == [e \in Facts |-> acme]
MCCustomerTwo == [e \in Facts |-> IF e = 1 THEN acme ELSE bolt]
MCAskedFor    == [a \in Askers |-> acme]
=============================================================================
