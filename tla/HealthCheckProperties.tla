----------------------- MODULE HealthCheckProperties -----------------------
(***************************************************************************)
(* What the health checks promise.                                         *)
(***************************************************************************)
EXTENDS HealthCheck

\* An entry as valid_state wants it.
ValidEntry(e) ==
    /\ (e.mode = "automatic") = (e.next # None)
    /\ e.mode # "automatic" => e.failures = 0
    /\ \A f \in DOMAIN e.nodes :
         LET r == e.nodes[f]
         IN  /\ r.status = "healthy" => r.count = 0
             /\ r.status = "suspect" => r.count \in 1..(Threshold - 1)
             /\ r.status = "unhealthy" => r.count >= Threshold

\* Whatever is written passes valid_state when it is read again: a schedule
\* exactly in Automatic mode, failures only there, and a status that agrees with
\* its failure count, revisions and times within their limits.  A state that did
\* not would disable the whole subsystem.
ValidState == TypeOK /\ \A k \in Subs : aux[k] # None => ValidEntry(aux[k])

\* Stored observations were measured with the target the entry has now: a check
\* that ran against the old URL never lands beside the new one.
MeasuredAsConfigured ==
    \A k \in Subs : aux[k] # None /\ aux[k].at # None =>
        about[k] = Target(aux[k], global)

\* check_revision is a version number: it moves by one whenever the mode, the
\* target or the observations move, and never goes back, so that an optimistic
\* commit cannot overwrite what it did not read.
VersionsAdvance ==
    [][\A k \in Subs : aux[k] # None /\ aux'[k] # None =>
          /\ aux'[k].check \in {aux[k].check, aux[k].check + 1}
          /\ \/ aux'[k].mode # aux[k].mode
             \/ aux'[k].nodes # aux[k].nodes
             \/ Target(aux'[k], global') # Target(aux[k], global)
             => aux'[k].check = aux[k].check + 1]_vars

\* A disable, a deletion or another mode discards the result of an automatic
\* probe that is under way, and deletion does not recreate state: no observation
\* appears for a subscription that is not registered, however late a check ends.
StoppedNotCommitted ==
    [][\A k \in Subs :
          /\ aux'[k] # None /\ aux'[k].at # None /\ aux'[k] # aux[k]
             /\ pc[Scanner] = "commit" /\ pc'[Scanner] = "idle" /\ key[Scanner] = k
             => /\ reg[k] # None /\ reg[k].status = "active" /\ reg[k].rev = rev[Scanner]
                /\ aux[k] # None /\ aux[k].mode = "automatic"
          /\ reg[k] = None /\ aux'[k] # None =>
                aux[k] # None /\ aux'[k].nodes \in {aux[k].nodes, <<>>}]_vars

\* Busy and conflicting jobs, manual checks and administrators never count as a
\* failure of the scheduler: the count grows only when the scanner's own job
\* failed on the entry as it is.
OnlyJobFailuresCount ==
    [][\A k \in Subs : aux[k] # None /\ aux'[k] # None =>
          (aux'[k].failures > aux[k].failures =>
              pc[Scanner] = "error" /\ key[Scanner] = k)]_vars

\* Once administrators leave the settings alone, what is due is attended to,
\* however many others are due before it and however often checks fail.
Pending(k) == reg[k] # None /\ reg[k].status = "active" /\ Due(Entry(k), clock)
DueAttended ==
    <>[][~Admin]_vars => \A k \in Subs : Pending(k) ~> ~Pending(k)

=============================================================================
