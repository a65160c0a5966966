------------------------------ MODULE MCPreempt ------------------------------
(* Instances of Preempt for TLC; liveness is checked, so there is no symmetry. *)
EXTENDS Preempt, TLC

=============================================================================
