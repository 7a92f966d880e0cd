--------------------------- MODULE MCModalHistory ---------------------------
(***************************************************************************)
(* Small instances of ModalHistory.                                        *)
(***************************************************************************)
EXTENDS ModalHistory

CONSTANTS m1, m2, m3, p1, p2

\* The user only goes back, or forward too.
Back == {-1}
Both == {-1, 1}
=============================================================================
