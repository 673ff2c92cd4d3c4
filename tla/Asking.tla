------------------------------- MODULE Asking -------------------------------
(***************************************************************************)
(* POST /ask: a question is answered by a model that calls read tools      *)
(* (reasoning/agent.py), or by the keyword engine whose prose a model may  *)
(* rewrite (reasoning/engine); either way the safety spine decides which   *)
(* figures may be stated and how sure the answer is (reasoning/safety.py).  *)
(*                                                                         *)
(* A text is the set of rupee figures in it.  What the model says is any   *)
(* set of them: those of the data, which it may know from this question's  *)
(* tools or from earlier turns, and one that is in nobody's data.          *)
(***************************************************************************)
EXTENDS Integers, FiniteSets, FiniteSetsExt

CONSTANTS
    Figures,          \* rupee figures of the company's data
    Count,            \* evidence that shows no rupee figure
    Invented,         \* a rupee figure nobody computed
    MAX_ITERS, SUMMARY_PARTS,
    MaxTurns          \* bound: turns of the thread

Evidence == Figures \cup {Count}
Sayable  == Figures \cup {Invented}

ASSUME AskingAssumption ==
    /\ Count \notin Sayable /\ Invented \notin Figures
    /\ MAX_ITERS \in Nat \ {0} /\ SUMMARY_PARTS \in Nat \ {0} /\ MaxTurns \in Nat

VARIABLES
    asking,           \* where the request stands
    iter,             \* calls of the model so far
    evidence_all,     \* what this question's tools returned
    used_tools,       \* has one been executed?
    query_failed,     \* has a query failed on the request's connection?
    reply,            \* what is about to be returned
    turns             \* chat_turn: how many answers the thread has saved

askVars == <<asking, iter, evidence_all, used_tools, query_failed, reply, turns>>

Reply == [by : {"agent", "engine"}, says : SUBSET Sayable, evidence : SUBSET Evidence,
          confidence : {"CERTAIN", "PROBABLE", "UNCERTAIN"}, blocked : BOOLEAN]

NoReply == [by |-> "engine", says |-> {}, evidence |-> {}, confidence |-> "UNCERTAIN",
            blocked |-> FALSE]

AskingTypeOK ==
    /\ asking \in {"idle", "model", "tools", "correct", "engine", "fallback", "save"}
    /\ iter \in 0..MAX_ITERS
    /\ evidence_all \subseteq Evidence /\ used_tools \in BOOLEAN /\ query_failed \in BOOLEAN
    /\ reply \in Reply
    /\ turns \in 0..MaxTurns

AskingInit ==
    /\ asking = "idle" /\ iter = 0
    /\ evidence_all = {} /\ used_tools = FALSE /\ query_failed = FALSE
    /\ reply = NoReply /\ turns = 0

-----------------------------------------------------------------------------
(* safety.py *)

grounded(text, evidence) == text \subseteq evidence

confidence(is_grounded, evidence, used, blocked) ==
    CASE ~used                                            -> "UNCERTAIN"
      [] used /\ ~blocked /\ is_grounded /\ evidence # {} -> "CERTAIN"
      [] OTHER                                            -> "PROBABLE"

\* The first few figures the tools returned, and nothing else.
safe_summaries(evidence) ==
    {shown \cap Figures : shown \in {s \in SUBSET evidence :
        Cardinality(s) = Min({SUMMARY_PARTS, Cardinality(evidence)})}}

Finalized(text, blocked) ==
    [by |-> "agent", says |-> text, evidence |-> evidence_all,
     confidence |-> confidence(grounded(text, evidence_all), evidence_all, used_tools, blocked),
     blocked |-> blocked]

Finalize(text, blocked) == asking' = "save" /\ reply' = Finalized(text, blocked)

(* agent.py *)

\* A connection of its own for each question.
TakeQuestion(path) ==
    /\ asking = "idle" /\ turns < MaxTurns
    /\ asking' = (IF path = "agent" THEN "model" ELSE "engine")
    /\ iter' = 0 /\ evidence_all' = {} /\ used_tools' = FALSE /\ query_failed' = FALSE
    /\ reply' = NoReply
    /\ UNCHANGED turns

\* The model asks for tools.
WantsTools ==
    /\ asking = "model" /\ iter < MAX_ITERS
    /\ asking' = "tools" /\ iter' = iter + 1
    /\ UNCHANGED <<evidence_all, used_tools, query_failed, reply, turns>>

\* One of them is unknown or not a read tool: it is not executed.
Refuse == asking = "tools" /\ UNCHANGED askVars

\* One is executed and returns evidence, or an error of its own, or its query
\* fails, after which no other query on this connection succeeds.
RunTool(result, fails) ==
    /\ asking = "tools"
    /\ used_tools' = TRUE
    /\ query_failed' = (query_failed \/ fails)
    /\ evidence_all' = IF query_failed \/ fails THEN evidence_all ELSE evidence_all \cup result
    /\ UNCHANGED <<asking, iter, reply, turns>>

HandBack ==
    /\ asking = "tools" /\ asking' = "model"
    /\ UNCHANGED <<iter, evidence_all, used_tools, query_failed, reply, turns>>

\* The model answers.  A figure that no tool returned gets one correction.
Guarded(text) == evidence_all # {} /\ ~grounded(text, evidence_all)

Says(text) ==
    /\ asking = "model" /\ iter < MAX_ITERS
    /\ IF Guarded(text) THEN asking' = "correct" /\ UNCHANGED reply ELSE Finalize(text, FALSE)
    /\ iter' = iter + 1
    /\ UNCHANGED <<evidence_all, used_tools, query_failed, turns>>

\* Slip: the second text is taken as it is.
Corrects_unchecked(text) ==
    /\ asking = "correct"
    /\ Finalize(text, FALSE)
    /\ UNCHANGED <<iter, evidence_all, used_tools, query_failed, turns>>

\* Its second text states nothing but what the tools returned.
Corrects(text) ==
    /\ asking = "correct"
    /\ grounded(text, evidence_all)
    /\ Finalize(text, FALSE)
    /\ UNCHANGED <<iter, evidence_all, used_tools, query_failed, turns>>

\* Its second text is no better, is empty, or its call fails.
Blocks ==
    /\ asking = "correct"
    /\ \E text \in safe_summaries(evidence_all) : Finalize(text, TRUE)
    /\ UNCHANGED <<iter, evidence_all, used_tools, query_failed, turns>>

GivesUp ==
    /\ asking = "model" /\ iter = MAX_ITERS
    /\ Finalize({}, FALSE)
    /\ UNCHANGED <<iter, evidence_all, used_tools, query_failed, turns>>

\* The call of the model fails: the engine answers, on the same connection.
FallBack ==
    /\ asking = "model" /\ iter < MAX_ITERS
    /\ asking' = "fallback"
    /\ UNCHANGED <<iter, evidence_all, used_tools, query_failed, reply, turns>>

(* engine: a handler computes figures and claims, _validate and _gates     *)
(* hold its confidence down, and prose by the model replaces its text only *)
(* if every figure in it was computed.                                     *)

\* A claim that says it is computed must cite evidence that was returned.
Validated(cited, evidence) == cited # {} /\ cited \subseteq evidence

Gated(sure, evidence, cited, known, unknowns) ==
    LET computed == Validated(cited, evidence) IN
    IF ~known \/ (evidence = {} /\ ~computed) \/ (unknowns /\ ~computed) THEN "UNCERTAIN" ELSE sure

_numbers_supported(prose, text, evidence) == prose \subseteq text \cup evidence

\* A model that is off or fails returns the text itself.
Phrased(prose, retry, text, evidence) ==
    CASE _numbers_supported(prose, text, evidence) -> [says |-> prose, blocked |-> FALSE]
      [] ~_numbers_supported(prose, text, evidence) /\ _numbers_supported(retry, text, evidence)
            -> [says |-> retry, blocked |-> FALSE]
      [] OTHER -> [says |-> text, blocked |-> TRUE]

\* What the handler of an intent may come to, and what the model may make of it.
Handled == [text : SUBSET Figures, evidence : SUBSET Evidence, cited : SUBSET Evidence,
            known : BOOLEAN, unknowns : BOOLEAN, sure : {"CERTAIN", "PROBABLE", "UNCERTAIN"}]

Engines(h, prose) ==
    [by |-> "engine", says |-> prose.says, evidence |-> h.evidence, blocked |-> prose.blocked,
     confidence |-> Gated(h.sure, h.evidence, h.cited, h.known, h.unknowns)]

EngineAnswers(h, prose, retry) ==
    /\ asking = "engine" /\ asking' = "save"
    /\ reply' = Engines(h, Phrased(prose, retry, h.text, h.evidence))
    /\ UNCHANGED <<iter, evidence_all, used_tools, query_failed, turns>>

\* For the agent the engine answers without a model, on the same connection.
EngineFallsIn(h) ==
    /\ asking = "fallback" /\ ~query_failed /\ asking' = "save"
    /\ reply' = Engines(h, [says |-> h.text, blocked |-> FALSE])
    /\ UNCHANGED <<iter, evidence_all, used_tools, query_failed, turns>>

\* A query of the engine's raises, as the first does on a connection whose
\* transaction has failed, and the request with it.
EngineRaises ==
    /\ asking \in {"engine", "fallback"} /\ asking' = "idle"
    /\ UNCHANGED <<iter, evidence_all, used_tools, query_failed, reply, turns>>

\* The turn is saved, unless the connection is beyond that: the answer is
\* returned all the same.
SaveTurn ==
    /\ asking = "save" /\ asking' = "idle"
    /\ turns' = IF query_failed THEN turns ELSE turns + 1
    /\ UNCHANGED <<iter, evidence_all, used_tools, query_failed, reply>>

-----------------------------------------------------------------------------
AskingNext ==
    \/ \E path \in {"agent", "engine"} : TakeQuestion(path)
    \/ WantsTools \/ Refuse \/ HandBack \/ Blocks \/ GivesUp \/ FallBack
    \/ \E result \in SUBSET Evidence, fails \in BOOLEAN : RunTool(result, fails)
    \/ \E text \in SUBSET Sayable : Says(text) \/ Corrects(text)
    \/ \E h \in Handled, prose, retry \in SUBSET Sayable : EngineAnswers(h, prose, retry)
    \/ \E h \in Handled : EngineFallsIn(h)
    \/ EngineRaises \/ SaveTurn

AskingSpec == AskingInit /\ [][AskingNext]_askVars

-----------------------------------------------------------------------------
(* Properties. *)

\* agent.py, safety.py: the invented number is never surfaced once a tool has
\* returned evidence, never by the engine, and never as a certainty; what is
\* certain states nothing but figures of the data, and the agent's certainties
\* only those this question's tools returned; and a blocked answer says so.
GuardHolds ==
    asking = "save" =>
        /\ Invented \in reply.says =>
              reply.by = "agent" /\ reply.evidence = {} /\ reply.confidence # "CERTAIN"
        /\ reply.confidence = "CERTAIN" =>
              /\ reply.says \subseteq Figures
              /\ reply.by = "agent" => reply.says \subseteq reply.evidence /\ reply.evidence # {}
        /\ (reply.by = "agent" /\ reply.blocked) =>
              reply.confidence = "PROBABLE" /\ reply.says \subseteq reply.evidence
=============================================================================
