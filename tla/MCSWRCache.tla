----------------------------- MODULE MCSWRCache -----------------------------
(* Small instances of SWRCache: all readers in one process, and another      *)
(* process that only writes.                                               *)
EXTENDS SWRCache, TLC

CONSTANTS p1, p2

AllInOne == [r \in Readers |-> p1]

\* Readers of one process differ in nothing.
ReaderSymmetry == Permutations(Readers)
=============================================================================
