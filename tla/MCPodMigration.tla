--------------------------- MODULE MCPodMigration ---------------------------
(* PodMigration on one source and one or two targets. *)
EXTENDS PodMigration

CONSTANTS s1, t1, t2, c1, c2, n1, n2

\* The pods of one Deployment on different nodes, but t2 on the node of s1.
MCNodeOf == [p \in Pods |-> IF p \in {s1, t2} THEN n1 ELSE n2]
MCHash == [p \in Pods |-> "hash"]
=============================================================================
