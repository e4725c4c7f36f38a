---------------------------- MODULE MCAutoRefresh ----------------------------
(* Constants of the TLC runs that a configuration file cannot write. *)
EXTENDS AutoRefreshProperties

Delays == <<1, 2>>

\* Nothing has been created yet.
Nothing == {[k \in Subs |-> None]}

\* A row that was fetched when it was saved, at the start of the run.
Fetched(n) == [cfg |-> CHOOSE c \in Configs : TRUE, enabled |-> TRUE, interval |-> n,
               next |-> n, fails |-> 0, cached |-> FALSE, attempt |-> 0,
               payload |-> CHOOSE c \in Configs : TRUE]
\* Every subscription was just created; one row of the first is scheduled later.
Created == {[k \in Subs |-> [version |-> 1, status |-> "active",
                             src |-> [i \in Sources |-> Fetched(IF k = 1 /\ i = CHOOSE c \in Sources : TRUE
                                                                THEN 2 ELSE 1)]]]}

=============================================================================
