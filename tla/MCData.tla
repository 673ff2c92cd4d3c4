------------------------------- MODULE MCData -------------------------------
(***************************************************************************)
(* How data comes in, in two parts that share no state: the walk over the  *)
(* pages of a report (Sync), and the way of its rows through the cache to  *)
(* the canonical layer (Books).  In a behaviour one of them moves and the  *)
(* other rests.                                                            *)
(***************************************************************************)
EXTENDS Sync, Books, TLC

CONSTANTS DataParts    \* the parts this run is about

VARIABLE data_part     \* the one that moves

dataVars == <<data_part, vars, bookVars>>

Report(p, t, e) == [pages |-> p, total |-> t, edge |-> e]

\* A report within one refresh, and reports of two chunks with and without a
\* total and with either answer to a page beyond the last.
MCSources == {Report(1, TRUE, "empty"), Report(3, TRUE, "empty"),
              Report(3, FALSE, "empty"), Report(3, FALSE, "error")}

\* The part that rests has one initial state.
DataInit ==
    /\ data_part \in DataParts
    /\ Init /\ (data_part # "sync" => source = Report(1, TRUE, "empty"))
    /\ BooksInit /\ (data_part # "books" => report = "ar_aging")

DataNext ==
    /\ UNCHANGED data_part
    /\ \/ data_part = "sync"  /\ Next      /\ UNCHANGED bookVars
       \/ data_part = "books" /\ BooksNext /\ UNCHANGED vars

DataSpec == DataInit /\ [][DataNext]_dataVars

Sym == Permutations(Syncers)
=============================================================================
