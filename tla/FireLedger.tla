----------------------------- MODULE FireLedger -----------------------------
(***************************************************************************)
(* What the minutely dispatcher of the check matrix promises of a row with *)
(* a cron.  A fire has a time and the epoch of its cron expression.  Fires *)
(* are claimed in batches (a late dispatcher takes what has accumulated),  *)
(* when their time has come, in their order, and none twice.  A batch runs *)
(* as a whole: never, once, or again for a publish that was repeated.      *)
(***************************************************************************)
EXTENDS Integers

CONSTANT Copies   \* how often a batch may be sent

VARIABLES
  clock,
  claimed,   \* the fires that were claimed
  pending,   \* the runs that may still be: a batch and the number of its message
  ran        \* the runs that were

Init ==
  /\ clock = 1
  /\ claimed = {} /\ pending = {} /\ ran = {}

Tick == clock' = clock + 1 /\ UNCHANGED <<claimed, pending, ran>>

\* _claim
Claim(F) ==
  /\ F # {} /\ \A f \in F : f.at <= clock
  /\ \A f \in F, g \in claimed : g.epoch = f.epoch => g.at < f.at
  /\ claimed' = claimed \cup F
  /\ pending' = pending \cup {[batch |-> F, copy |-> k] : k \in 1..Copies}
  /\ UNCHANGED <<clock, ran>>

\* run_check_matrix_core_bundle_one, run_check_matrix_cell_one, run_check_matrix_definition_one
Run(r) ==
  /\ r \in pending /\ r \notin ran
  /\ pending' = pending \ {r} /\ ran' = ran \cup {r}
  /\ UNCHANGED <<clock, claimed>>

\* A publish is answered, a dispatcher dies, a message is lost, or the row was switched off.
Drop ==
  /\ UNCHANGED <<clock, claimed, ran>>
  /\ pending' \subseteq pending

Next ==
  \/ Tick \/ Drop
  \/ \E r \in pending' \ pending : Claim(r.batch)
  \/ \E r \in pending \ pending' : Run(r)

Spec == Init /\ [][Next]_<<clock, claimed, pending, ran>>
=============================================================================
