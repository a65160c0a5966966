------------------------------ MODULE MCAlarmAI ------------------------------
(* Instances of AlarmAI for TLC. *)
EXTENDS AlarmAI, TLC

Symmetry == Permutations(Worker) \cup Permutations(Channel)
=============================================================================
