---------------------------- MODULE CellHistory ----------------------------
(***************************************************************************)
(* What the results of the check matrix promise: a cell shows the run that *)
(* was recorded for it last, and the append-only history holds every run   *)
(* at most once.                                                           *)
(***************************************************************************)
CONSTANTS Runs, Cells, CellOf, NoRun

VARIABLES
  shown,     \* the run whose verdict a cell shows
  recorded   \* the runs in the history

Init ==
  /\ shown = [c \in Cells |-> NoRun]
  /\ recorded = {}

\* _upsert_result: the cell and its history move together.
Record(r) ==
  /\ r \notin recorded
  /\ shown' = [shown EXCEPT ![CellOf[r]] = r]
  /\ recorded' = recorded \cup {r}

Next == \E r \in Runs : Record(r)

Spec == Init /\ [][Next]_<<shown, recorded>>
=============================================================================
