--------------------------- MODULE MCCronDispatch ---------------------------
(***************************************************************************)
(* Small instances of CronDispatch: two overlapping dispatchers, two crons *)
(* whose fires lie between each other.                                     *)
(***************************************************************************)
EXTENDS CronDispatch, TLC

CONSTANTS d1, d2

TwoCrons == {{2, 4}, {3}}

\* The dispatchers are interchangeable.
Symmetry == Permutations(Dispatchers)
=============================================================================
