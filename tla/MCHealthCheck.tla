---------------------------- MODULE MCHealthCheck ----------------------------
(* What the configuration files of the health checks cannot write. *)
EXTENDS HealthCheckProperties, TLC

\* The nodes of the two revisions: the second replaces the only node, or keeps it.
Replaced == [r \in Revisions |-> IF r = 1 THEN {"a"} ELSE {"b"}]
Kept == [r \in Revisions |-> {"a"}]
Delays == <<1, 3>>

\* No target is special.
TargetSymmetry == Permutations(Targets)

=============================================================================
