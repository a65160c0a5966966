------------------------- MODULE MCReportScheduler -------------------------
(* Instances of ReportScheduler for TLC.  No property names a replica, a   *)
(* request or a cron, and none is about liveness.                          *)
EXTENDS ReportScheduler, TLC

Symmetric == Permutations(Replica) \union Permutations(Request) \union Permutations(Cron)
=============================================================================
