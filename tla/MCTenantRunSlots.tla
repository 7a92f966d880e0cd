-------------------------- MODULE MCTenantRunSlots --------------------------
(***************************************************************************)
(* Small instances of TenantRunSlots: three tasks are one more than the    *)
(* largest limit.                                                          *)
(***************************************************************************)
EXTENDS TenantRunSlots, TLC

CONSTANTS t1, t2, t3

\* The tasks are interchangeable.
Symmetry == Permutations(Tasks)
=============================================================================
