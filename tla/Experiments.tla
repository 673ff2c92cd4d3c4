----------------------------- MODULE Experiments -----------------------------
(***************************************************************************)
(* The experiments log: experiments.py and the routes that write it, the   *)
(* weekly suggestions of brain/strategy.py and the watcher of              *)
(* brain/outcomes.py that starts what was accepted and closes what is due. *)
(*                                                                         *)
(* Every writer is a sequence of commits: a suggestion is created, then    *)
(* stamped with its key; a person's experiment is created, then given its  *)
(* metric; the closer lists rows, then updates them one by one, by id.     *)
(* Between two commits the others write.  Figures are left out, and with   *)
(* them the outcome: closing is having one (Pulse has the verdict).  So    *)
(* are dates: which windows have ended when the closer looks is any choice.*)
(***************************************************************************)
EXTENDS Integers, FiniteSets

CONSTANTS
    Experiment_ids,  \* rows, in the order they may be created
    Keys,            \* dedupe keys of suggestions
    Strategists,     \* processes that may file suggestions
    NoRow, NoKey,
    MaxExpFaults     \* bound: passes cut off

STATUSES == {"proposed", "accepted", "running", "closed", "rejected"}
Open     == {"proposed", "accepted", "running"}

\* measured: metric_key and auto_close are set.  about: the key its suggestion
\* will be stamped with.
Row == [status : STATUSES, measured : BOOLEAN, key : Keys \cup {NoKey},
        about : Keys \cup {NoKey}]

ASSUME ExperimentsAssumption ==
    /\ Experiment_ids \subseteq Nat \ {0}
    /\ NoKey \notin Keys /\ NoRow \notin Row
    /\ MaxExpFaults \in Nat

VARIABLES
    experiments,   \* the table
    naming,        \* rows whose creator has still to write their metric
    strategist,    \* what each strategist is doing: where, which key, which row
    closing_pc,    \* where the watcher experiments.close stands
    listed,        \* rows it has read and still to update
    seized,        \* unstamped suggestions a person has taken up (history)
    expFaults      \* bound only

expVars == <<experiments, naming, strategist, closing_pc, listed, seized, expFaults>>

Filing == [at : {"idle", "create", "stamp", "discard"}, key : Keys \cup {NoKey},
           id : Experiment_ids \cup {0}]

ExperimentsTypeOK ==
    /\ experiments \in [Experiment_ids -> Row \cup {NoRow}]
    /\ naming \subseteq Experiment_ids
    /\ strategist \in [Strategists -> Filing]
    /\ closing_pc \in {"idle", "start", "due", "close"}
    /\ listed \subseteq Experiment_ids
    /\ seized \subseteq Experiment_ids
    /\ expFaults \in 0..MaxExpFaults

Resting == [at |-> "idle", key |-> NoKey, id |-> 0]

ExperimentsInit ==
    /\ experiments = [i \in Experiment_ids |-> NoRow]
    /\ naming = {}
    /\ strategist = [s \in Strategists |-> Resting]
    /\ closing_pc = "idle"
    /\ listed = {} /\ seized = {}
    /\ expFaults = 0

Rows       == {i \in Experiment_ids : experiments[i] # NoRow}
In(status) == {i \in Rows : experiments[i].status = status}
Fresh(i)   == i \notin Rows /\ \A j \in Experiment_ids : j < i => j \in Rows

Blank(status) == [status |-> status, measured |-> FALSE, key |-> NoKey, about |-> NoKey]

\* ux_experiments_dedupe: one open row to a key.
Admits(rows) ==
    \A i, j \in Experiment_ids :
        (i # j /\ rows[i] # NoRow /\ rows[j] # NoRow) =>
            ~ /\ rows[i].key = rows[j].key /\ rows[i].key # NoKey
              /\ rows[i].status \in Open /\ rows[j].status \in Open

-----------------------------------------------------------------------------
(* People. *)

\* POST /experiments and POST /actions/{id}/experiment, first commit.  The
\* page gives no metric, a card and an approval do; each says accepted, and any
\* other status is one PATCH further.
CreateByHand(i) ==
    /\ Fresh(i)
    /\ experiments' = [experiments EXCEPT ![i] = Blank("accepted")]
    /\ naming' = naming \/ naming' = naming \cup {i}
    /\ UNCHANGED <<strategist, closing_pc, listed, seized, expFaults>>

\* The second: metric_key, window_days, auto_close.
NameMetric(i) ==
    /\ i \in naming
    /\ naming' = naming \ {i}
    /\ experiments' = [experiments EXCEPT ![i].measured = TRUE]
    /\ UNCHANGED <<strategist, closing_pc, listed, seized, expFaults>>

\* PATCH /experiments/{id}: to any status from any other.  Only the index
\* refuses, a second open row of a key.
PatchStatus(i, status) ==
    /\ i \in Rows
    /\ experiments' = [experiments EXCEPT ![i] = [@ EXCEPT !.status = status]]
    /\ Admits(experiments')
    /\ seized' = IF experiments[i].about # NoKey /\ experiments[i].key = NoKey
                 THEN seized \cup {i} ELSE seized
    /\ UNCHANGED <<naming, strategist, closing_pc, listed, expFaults>>

-----------------------------------------------------------------------------
(* suggest, for one suggestion at a time. *)

Filing_on(s, f) == strategist' = [strategist EXCEPT ![s] = f]

\* _already_open
AlreadyOpen(k) == \E i \in Rows : experiments[i].key = k /\ experiments[i].status \in Open

Consider(s, k) ==
    /\ strategist[s].at = "idle" /\ ~AlreadyOpen(k)
    /\ Filing_on(s, [at |-> "create", key |-> k, id |-> 0])
    /\ UNCHANGED <<experiments, naming, closing_pc, listed, seized, expFaults>>

CreateSuggestion(s) ==
    LET k == strategist[s].key IN
    /\ strategist[s].at = "create"
    /\ \E i \in Experiment_ids :
          /\ Fresh(i)
          /\ experiments' = [experiments EXCEPT ![i] =
                                [Blank("proposed") EXCEPT !.about = k]]
          /\ Filing_on(s, [at |-> "stamp", key |-> k, id |-> i])
    /\ UNCHANGED <<naming, closing_pc, listed, seized, expFaults>>

\* _stamp, which the unique index may refuse.
Stamp(s) ==
    LET f == strategist[s]
        stamped == [experiments EXCEPT ![f.id].key = f.key, ![f.id].measured = TRUE]
    IN
    /\ f.at = "stamp"
    /\ IF Admits(stamped)
       THEN experiments' = stamped /\ Filing_on(s, Resting)
       ELSE experiments' = experiments /\ Filing_on(s, [f EXCEPT !.at = "discard"])
    /\ UNCHANGED <<naming, closing_pc, listed, seized, expFaults>>

\* Slip: a suggestion that lost the race stays.
Discard_keeps(s) ==
    /\ strategist[s].at = "discard"
    /\ Filing_on(s, Resting)
    /\ UNCHANGED <<experiments, naming, closing_pc, listed, seized, expFaults>>

\* _discard: unless a person has taken it up.  What is still listed of it is
\* no row any more: the update by its id finds nothing.
Discard(s) ==
    LET i == strategist[s].id IN
    /\ strategist[s].at = "discard"
    /\ IF i \in In("proposed")
       THEN experiments' = [experiments EXCEPT ![i] = NoRow] /\ listed' = listed \ {i}
       ELSE UNCHANGED <<experiments, listed>>
    /\ Filing_on(s, Resting)
    /\ UNCHANGED <<naming, closing_pc, seized, expFaults>>

-----------------------------------------------------------------------------
(* start_accepted, then close_due. *)

ListAccepted ==
    /\ closing_pc = "idle"
    /\ closing_pc' = "start" /\ listed' = In("accepted")
    /\ UNCHANGED <<experiments, naming, strategist, seized, expFaults>>

\* By id, whatever the row has become: a new start.  Should its
\* key be in use again by then, the index refuses and the pass fails.
StartOne(i) ==
    LET started == [experiments EXCEPT ![i].status = "running"] IN
    /\ closing_pc = "start" /\ i \in listed
    /\ IF Admits(started)
       THEN experiments' = started /\ listed' = listed \ {i} /\ UNCHANGED closing_pc
       ELSE experiments' = experiments /\ listed' = {} /\ closing_pc' = "idle"
    /\ UNCHANGED <<naming, strategist, seized, expFaults>>

MayBeDue(row) == row.status = "running" /\ row.measured

\* Of those that may be, the ones whose window has ended.
ListDue ==
    /\ closing_pc = "start" /\ listed = {}
    /\ closing_pc' = "close" /\ listed' \in SUBSET {i \in Rows : MayBeDue(experiments[i])}
    /\ UNCHANGED <<experiments, naming, strategist, seized, expFaults>>

CloseOne(i) ==
    /\ closing_pc = "close" /\ i \in listed
    /\ listed' = listed \ {i}
    /\ experiments' = [experiments EXCEPT ![i].status = "closed"]
    /\ UNCHANGED <<naming, strategist, closing_pc, seized, expFaults>>

EndClosing ==
    /\ closing_pc = "close" /\ listed = {}
    /\ closing_pc' = "idle"
    /\ UNCHANGED <<experiments, naming, strategist, listed, seized, expFaults>>

-----------------------------------------------------------------------------
\* A process dies between two of its commits.
CutFiling(s) ==
    /\ strategist[s].at # "idle" /\ expFaults < MaxExpFaults
    /\ expFaults' = expFaults + 1
    /\ Filing_on(s, Resting)
    /\ UNCHANGED <<experiments, naming, closing_pc, listed, seized>>

CutClosing ==
    /\ closing_pc # "idle" /\ expFaults < MaxExpFaults
    /\ expFaults' = expFaults + 1
    /\ closing_pc' = "idle" /\ listed' = {}
    /\ UNCHANGED <<experiments, naming, strategist, seized>>

Close_and_start ==
    \/ ListAccepted \/ ListDue \/ EndClosing
    \/ \E i \in Experiment_ids : StartOne(i) \/ CloseOne(i)

ExperimentsNext ==
    \/ Close_and_start
    \/ \E s \in Strategists, k \in Keys : Consider(s, k)
    \/ \E s \in Strategists : CreateSuggestion(s) \/ Stamp(s) \/ Discard(s) \/ CutFiling(s)
    \/ CutClosing
    \/ \E i \in Experiment_ids : CreateByHand(i) \/ NameMetric(i)
    \/ \E i \in Experiment_ids, status \in STATUSES : PatchStatus(i, status)

ExperimentsSpec == ExperimentsInit /\ [][ExperimentsNext]_expVars

-----------------------------------------------------------------------------
(* Properties. *)

InHand == {strategist[s].id : s \in Strategists}

\* strategy.py: nothing is suggested twice while an earlier version of it is
\* open, though two processes may look before either has filed.  A suggestion
\* that a person took up before it had its key, and one whose filing was cut
\* off, are past that guard.
SuggestedOnce ==
    expFaults = 0 =>
        \A k \in Keys :
            Cardinality({i \in Rows \ (InHand \cup seized) :
                            experiments[i].about = k /\ experiments[i].status \in Open}) <= 1
=============================================================================
