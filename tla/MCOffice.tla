------------------------------ MODULE MCOffice ------------------------------
(***************************************************************************)
(* The parts of the back office that share no state, each on its own: in   *)
(* a behaviour one of them moves and the others rest, so the states of the *)
(* run are those of the parts added up, not multiplied.                    *)
(***************************************************************************)
EXTENDS LadderDays, CreditFlags, Experiments, Tokens, FullSync, Alerts, Inbox, Brief, Heartbeat,
        Memory, Asking, Usage

CONSTANTS
    Parts,     \* the parts this run is about
    reminder, hold, acme, asha, ravi

ASSUME OfficeAssumption ==
    Parts \subseteq {"ladder", "flags", "log", "tokens", "full", "alerts", "inbox", "brief", "beat",
                     "memory", "ask", "usage"}

VARIABLE part       \* the one that moves

allVars == <<part, ladderVars, flagVars, expVars, tokenVars, fullSyncVars, alertVars, inboxVars,
             briefVars, beatVars, memoryVars, askVars, usageVars>>

\* The thresholds of the code.
MCFromDays     == [l \in 1..4 |-> CASE l = 1 -> 7 [] l = 2 -> 30 [] l = 3 -> 60 [] l = 4 -> 90]
MCCooldownDays == [l \in 1..4 |-> CASE l = 1 -> 10 [] l = 2 -> 10 [] l = 3 -> 14 [] l = 4 -> 21]

MCPositions ==
    LET p(owes, oldest, share, rung, broken) ==
          [owes |-> owes, oldest |-> oldest, share |-> share, rung |-> rung, broken |-> broken]
    IN  {p(FALSE, 0, 0, 0, 1), p(TRUE, 5, 5, 0, 0), p(TRUE, 10, 25, 0, 0), p(TRUE, 60, 10, 1, 1)}

MCCalm == [owes |-> FALSE, oldest |-> 0, share |-> 0, rung |-> 0, broken |-> 1]

MCPlan == <<"fast", "slow">>

\* As the two clients have it.
MCMaxRetries == [p \in {"tranzact", "zoho"} |-> IF p = "tranzact" THEN 3 ELSE 4]

\* A reminder and a hold for one customer, and two people of whom one may
\* approve messages only.
MCTool       == [a \in Actions |-> IF a = hold THEN "hold" ELSE "draft"]
MCCustomerOf == [a \in Actions |-> acme]
MCGrants     == [u \in Users |-> IF u = asha THEN {"messages", "money"} ELSE {"messages"}]

\* A part that rests has one initial state.
Init ==
    /\ part \in Parts
    /\ LadderInit /\ (part # "ladder" => case = CHOOSE c \in Case : TRUE)
    /\ FlagsInit /\ ExperimentsInit /\ FullSyncInit /\ AlertsInit /\ HeartbeatInit
    /\ MemoryInit /\ AskingInit /\ UsageInit
    /\ TokensInit /\ (part # "tokens" => provider = "zoho")
    /\ InboxInit  /\ (part # "inbox" => contacts = {})
    /\ BriefInit  /\ (part # "brief" => morning = Min(BriefDays))

Rest(p, v) == part # p => UNCHANGED v

Next ==
    /\ UNCHANGED part
    /\ \/ part = "ladder" /\ NextDay
       \/ part = "flags"  /\ FlagsNext
       \/ part = "log"    /\ ExperimentsNext
       \/ part = "tokens" /\ TokensNext
       \/ part = "full"   /\ FullSyncNext
       \/ part = "alerts" /\ AlertsNext
       \/ part = "inbox"  /\ InboxNext
       \/ part = "brief"  /\ BriefNext
       \/ part = "beat"   /\ HeartbeatNext
       \/ part = "memory" /\ MemoryNext
       \/ part = "ask"    /\ AskingNext
       \/ part = "usage"  /\ UsageNext
    /\ Rest("ladder", ladderVars) /\ Rest("flags", flagVars) /\ Rest("log", expVars)
    /\ Rest("tokens", tokenVars) /\ Rest("full", fullSyncVars) /\ Rest("alerts", alertVars)
    /\ Rest("inbox", inboxVars) /\ Rest("brief", briefVars) /\ Rest("beat", beatVars)
    /\ Rest("memory", memoryVars) /\ Rest("ask", askVars) /\ Rest("usage", usageVars)

Spec == Init /\ [][Next]_allVars

-----------------------------------------------------------------------------
(* One type invariant: that of the part that moves. *)
TypeOK ==
    /\ part = "ladder" => case \in Case /\ today \in 0..Horizon
    /\ part = "flags"  => FlagsTypeOK
    /\ part = "log"    => ExperimentsTypeOK
    /\ part = "tokens" => TokensTypeOK
    /\ part = "full"   => FullSyncTypeOK
    /\ part = "alerts" => AlertsTypeOK
    /\ part = "inbox"  => InboxTypeOK
    /\ part = "brief"  => BriefTypeOK
    /\ part = "beat"   => HeartbeatTypeOK
    /\ part = "memory" => MemoryTypeOK
    /\ part = "ask"    => AskingTypeOK
    /\ part = "usage"  => UsageTypeOK
=============================================================================
