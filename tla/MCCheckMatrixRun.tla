-------------------------- MODULE MCCheckMatrixRun --------------------------
(***************************************************************************)
(* Small instances of CheckMatrixRun: two manual runs and one cron run at  *)
(* most, on one cell or two.                                               *)
(***************************************************************************)
EXTENDS CheckMatrixRun, TLC

CONSTANTS m1, m2, k1, c1, c2

\* All runs on the cell c1, or m2 on c2.
OneCell  == [r \in Runs |-> c1]
TwoCells == [r \in Runs |-> IF r = m2 THEN c2 ELSE c1]

AllDeep == [c \in Cells |-> "deep_check"]
Slowest == [c \in Cells |-> IF c = c1 THEN "core_bundle" ELSE "playbook"]
=============================================================================
