---------------------------- MODULE MCQueryPage ----------------------------
(* Instances of QueryPage for TLC. *)
EXTENDS QueryPage

\* Two databases with a table of one name, and a second instance.
TwoInstances == <<[inst |-> 1, db |-> "d1", name |-> "logs"],
                  [inst |-> 1, db |-> "d1", name |-> "audit"],
                  [inst |-> 1, db |-> "d2", name |-> "logs"],
                  [inst |-> 2, db |-> "d3", name |-> "logs"]>>

\* Two instances that have a database of one name.
SameDatabase == <<[inst |-> 1, db |-> "d1", name |-> "logs"],
                  [inst |-> 2, db |-> "d1", name |-> "audit"],
                  [inst |-> 2, db |-> "d1", name |-> "logs"]>>
=============================================================================
