----------------------------- MODULE MCHealthView -----------------------------
(* HealthView with every outcome its conditions lead to. *)
EXTENDS HealthView

MCOutcomes == Outcome

=============================================================================
