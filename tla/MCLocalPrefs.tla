---------------------------- MODULE MCLocalPrefs ----------------------------
(***************************************************************************)
(* Small instances of LocalPrefs: a tab on each of two devices.            *)
(***************************************************************************)
EXTENDS LocalPrefs, TLC

CONSTANTS t1, t2, d1, d2

TabPerDevice == t1 :> d1 @@ t2 :> d2
=============================================================================
