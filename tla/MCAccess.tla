------------------------------ MODULE MCAccess ------------------------------
(* Symmetry and bounds for the TLC runs of Access. *)
EXTENDS AccessProperties, TLC

Symmetry == Permutations(Workers) \cup Permutations(Ips) \cup Permutations(Passwords)
            \cup Permutations(Instances)

\* Two addresses over the whole clock while the credentials stay as they are; or
\* changes, backups and restores while one address signs in, at first.
Limits == era = 0 /\ restored = "never" /\ backup = None
Sessions == clock <= 1 /\ \E ip \in Ips : \A other \in Ips \ {ip} :
                table[other] = None /\ misses[other] = <<>> /\ \A w \in Workers : from[w] # other
Explored == Limits \/ Sessions

=============================================================================
