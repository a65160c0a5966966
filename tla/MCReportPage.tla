---------------------------- MODULE MCReportPage ----------------------------
(* Instances of ReportPage for TLC.  No property names an operation or a   *)
(* cron, and none is about liveness.                                       *)
EXTENDS ReportPage, TLC

Symmetric == Permutations(Operation) \union Permutations(Cron)
=============================================================================
