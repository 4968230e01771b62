-------------------------- MODULE MCRunnerServer --------------------------
(* Small instances of RunnerServer for TLC. *)
EXTENDS RunnerServer

CONSTANTS q1, q2, q3, a, b, d1, c1

\* q3 repeats the run id of q1; q1 and q2 are bound to the one root.
Ids == [q \in Requests |-> IF q = q2 THEN b ELSE a]
OneRoot == [q \in Requests |-> IF q = q3 THEN None ELSE d1]
DistinctIds == [q \in Requests |-> q]
=============================================================================
