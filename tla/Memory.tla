------------------------------- MODULE Memory -------------------------------
(***************************************************************************)
(* memory/store.py: what the owner told the system about one claim (a key, *)
(* such as the payment terms of a customer), and how it is superseded,     *)
(* goes stale and is read.                                                 *)
(*                                                                         *)
(* A request is one transaction at READ COMMITTED: an UPDATE sees the rows *)
(* committed when it began, waits for a row another transaction has        *)
(* changed, and then looks at that row again, but at no new ones.          *)
(***************************************************************************)
EXTENDS Integers, Sequences, FiniteSets, FiniteSetsExt

CONSTANTS
    Tellers,      \* request threads that write facts
    MaxFacts      \* bound: facts told

ASSUME MemoryAssumption == MaxFacts \in Nat /\ IsFiniteSet(Tellers)

VARIABLES
    facts,        \* memory_fact, by created_at: its status and its successor
    expired,      \* the facts whose valid_until has passed
    teller,       \* where each write stands, its row, the rows its UPDATE is
                  \* after, and those it has changed
    sweep,        \* where run_decay stands, the facts it has to look at, and
                  \* those it has changed
    writes_overlap    \* have two writes been under way at once? (history)

memoryVars == <<facts, expired, teller, sweep, writes_overlap>>

Ids == 1..MaxFacts

NoTelling == [at |-> "idle", id |-> 0, after |-> {}, changed |-> {}]
NoSweep   == [at |-> "idle", todo |-> {}, changed |-> {}]

MemoryTypeOK ==
    /\ facts \in Seq([status : {"uncommitted", "active", "stale", "superseded", "undone"},
                      superseded_by : {0} \cup Ids])
    /\ Len(facts) <= MaxFacts
    /\ expired \subseteq DOMAIN facts
    /\ teller \in [Tellers -> [at : {"idle", "told", "waits", "changed"}, id : {0} \cup Ids,
                               after : SUBSET Ids, changed : SUBSET Ids]]
    /\ sweep \in [at : {"idle", "listed"}, todo : SUBSET Ids, changed : SUBSET Ids]
    /\ writes_overlap \in BOOLEAN

MemoryInit ==
    /\ facts = <<>> /\ expired = {}
    /\ teller = [t \in Tellers |-> NoTelling]
    /\ sweep = NoSweep
    /\ writes_overlap = FALSE

-----------------------------------------------------------------------------
With(status) == {i \in DOMAIN facts : facts[i].status = status}

\* The rows other transactions have changed and not committed.
LockedAgainst(t) == (UNION {teller[u].changed : u \in Tellers \ {t}}) \cup sweep.changed
LockedAgainstSweep == UNION {teller[u].changed : u \in Tellers}

Marked(i, status) ==
    [facts EXCEPT ![i] = [status |-> status, superseded_by |-> facts[i].superseded_by]]

Restated(changed, f) == [i \in DOMAIN facts |-> IF i \in changed THEN f ELSE facts[i]]

(* Reading. *)

\* Facts that went stale are read with the active ones, flagged.
active_facts(include_stale) ==
    With("active") \cup (IF include_stale THEN With("stale") ELSE {})

\* The terms the answer on late payers reckons with: a dict is built from the
\* list, latest first, and of one key the last entry stays.
payment_terms == Min(active_facts(TRUE))

\* A customer's summary takes the first active one.
summary_terms == Max(active_facts(FALSE))

(* write_fact *)

InsertFact(t) ==
    /\ teller[t].at = "idle" /\ Len(facts) < MaxFacts
    /\ facts' = Append(facts, [status |-> "uncommitted", superseded_by |-> 0])
    /\ teller' = [teller EXCEPT ![t] = [at |-> "told", id |-> Len(facts) + 1, after |-> {},
                                        changed |-> {}]]
    /\ writes_overlap' = (writes_overlap \/ \E u \in Tellers \ {t} : teller[u].at # "idle")
    /\ UNCHANGED <<expired, sweep>>

\* The UPDATE of the previous active facts begins.
SeeActive(t) ==
    /\ teller[t].at = "told"
    /\ teller' = [teller EXCEPT ![t] = [at |-> "waits", id |-> teller[t].id,
                                        after |-> With("active"), changed |-> {}]]
    /\ UNCHANGED <<facts, expired, sweep, writes_overlap>>

\* It gets the rows, and changes those that are active still.
SupersedePrevious(t) ==
    /\ teller[t].at = "waits"
    /\ teller[t].after \cap LockedAgainst(t) = {}
    /\ teller' = [teller EXCEPT ![t] = [at |-> "changed", id |-> teller[t].id, after |-> {},
                                        changed |-> teller[t].after \cap With("active")]]
    /\ UNCHANGED <<facts, expired, sweep, writes_overlap>>

CommitFact(t) ==
    /\ teller[t].at = "changed"
    /\ LET old == [status |-> "superseded", superseded_by |-> teller[t].id]
           new == [status |-> "active", superseded_by |-> 0]
       IN  facts' = [Restated(teller[t].changed, old) EXCEPT ![teller[t].id] = new]
    /\ teller' = [teller EXCEPT ![t] = NoTelling]
    /\ UNCHANGED <<expired, sweep, writes_overlap>>

\* The connection is lost before the commit.
CutTelling(t) ==
    /\ teller[t].at # "idle"
    /\ facts' = Marked(teller[t].id, "undone")
    /\ teller' = [teller EXCEPT ![t] = NoTelling]
    /\ UNCHANGED <<expired, sweep, writes_overlap>>

\* A person deletes a fact, one statement.
supersede_fact(i) ==
    /\ i \in With("active") \cup With("stale") \cup With("superseded")
    /\ i \notin LockedAgainstSweep \cup sweep.changed
    /\ facts' = Marked(i, "superseded")
    /\ UNCHANGED <<expired, teller, sweep, writes_overlap>>

(* run_decay *)

ValidityEnds(i) ==
    /\ i \in DOMAIN facts \ expired
    /\ expired' = expired \cup {i}
    /\ UNCHANGED <<facts, teller, sweep, writes_overlap>>

\* What expired is marked, and the rest of the active facts listed.
MarkExpired ==
    LET found == With("active") \cap expired IN
    /\ sweep.at = "idle"
    /\ found \cap LockedAgainstSweep = {}
    /\ sweep' = [at |-> "listed", todo |-> With("active") \ found, changed |-> found]
    /\ UNCHANGED <<facts, expired, teller, writes_overlap>>

\* Slip: a row that was listed is changed, whatever became of it since.
StillActive_any(i) == i \in DOMAIN facts

StillActive(i) == facts[i].status = "active"

\* Open invoices are, or are not, far older than the terms of fact i say.
CheckTerms(i, contradicted) ==
    /\ sweep.at = "listed" /\ i \in sweep.todo
    /\ contradicted => i \notin LockedAgainstSweep
    /\ sweep' = [at |-> "listed", todo |-> sweep.todo \ {i},
                 changed |-> sweep.changed \cup {j \in {i} : contradicted /\ StillActive(i)}]
    /\ UNCHANGED <<facts, expired, teller, writes_overlap>>

EndDecay ==
    /\ sweep.at = "listed" /\ sweep.todo = {}
    /\ facts' = [i \in DOMAIN facts |->
                    IF i \in sweep.changed THEN [facts[i] EXCEPT !.status = "stale"] ELSE facts[i]]
    /\ sweep' = NoSweep
    /\ UNCHANGED <<expired, teller, writes_overlap>>

CutDecay ==
    /\ sweep.at = "listed" /\ sweep' = NoSweep
    /\ UNCHANGED <<facts, expired, teller, writes_overlap>>

-----------------------------------------------------------------------------
MemoryNext ==
    \/ \E t \in Tellers : InsertFact(t) \/ SeeActive(t) \/ SupersedePrevious(t)
                          \/ CommitFact(t) \/ CutTelling(t)
    \/ \E i \in DOMAIN facts : supersede_fact(i) \/ ValidityEnds(i)
    \/ \E i \in sweep.todo, contradicted \in BOOLEAN : CheckTerms(i, contradicted)
    \/ MarkExpired \/ EndDecay \/ CutDecay

MemorySpec == MemoryInit /\ [][MemoryNext]_memoryVars

-----------------------------------------------------------------------------
(* Properties. *)

\* What was told, and committed.
Committed == DOMAIN facts \ (With("uncommitted") \cup With("undone"))

\* store.py: the current value is a single active row, that of the latest fact,
\* as long as no two writes overlap; and a fact that names its successor is
\* never shown again, whatever a sweep read of it before.
CurrentIsLatest ==
    /\ ~writes_overlap => With("active") \subseteq {i \in Committed : \A j \in Committed : j <= i}
    /\ \A i \in DOMAIN facts :
          facts[i].superseded_by # 0 =>
              i \notin active_facts(TRUE) /\ facts[i].superseded_by \in Committed

\* The reference says (BIDE_BUILD_REFERENCE.md) that a new value supersedes the
\* old one.  A fact that was stale when the owner told a new one is not
\* superseded, and the answer on late payers reckons with it.
NewTermsAreUsed ==
    (~writes_overlap /\ With("active") # {}) => payment_terms = summary_terms
=============================================================================
