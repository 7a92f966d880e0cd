--------------------------- MODULE MCAuthSession ---------------------------
(***************************************************************************)
(* Small instances of AuthSession: two tabs of one browser, two users.     *)
(***************************************************************************)
EXTENDS AuthSession

CONSTANTS u1, u2, t1, t2
=============================================================================
