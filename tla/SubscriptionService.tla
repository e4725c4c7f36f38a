------------------------ MODULE SubscriptionService ------------------------
(***************************************************************************)
(* What the fixed-subscription store promises to its users: every           *)
(* subscription is at each moment one indivisible record (the content its   *)
(* URL serves, the token of the URL, whether it is active), new content is  *)
(* published by compare-and-swap against the record the client started      *)
(* from, and a token once issued is never issued again.                     *)
(***************************************************************************)
CONSTANTS Clients, Subs, Contents, Tokens, None

VARIABLES
    record,     \* the record of every subscription, None where there is none
    spent,      \* tokens that were replaced or deleted
    basis       \* the subscription and record a client prepares new content for

sVars == <<record, spent, basis>>

Issued == spent \cup {record[k].token : k \in {j \in Subs : record[j] # None}}

ServiceInit ==
    /\ record = [k \in Subs |-> None]
    /\ spent = {}
    /\ basis = [c \in Clients |-> None]

\* A client starts from the record as it is now.
Begin(c, k) ==
    /\ basis[c] = None /\ record[k] # None
    /\ basis' = [basis EXCEPT ![c] = [sub |-> k, seen |-> record[k]]]
    /\ UNCHANGED <<record, spent>>

\* It gives up: a conflict, an error, or it was killed.
Drop(c) ==
    /\ basis[c] # None
    /\ basis' = [basis EXCEPT ![c] = None]
    /\ UNCHANGED <<record, spent>>

\* It succeeds, and then nothing may have happened to the record meanwhile.
Replace(c, content) ==
    /\ basis[c] # None
    /\ basis' = [basis EXCEPT ![c] = None]
    /\ record[basis[c].sub] = basis[c].seen
    /\ record' = [record EXCEPT ![basis[c].sub].content = content]
    /\ UNCHANGED spent

Add(k, content, t) ==
    /\ record[k] = None /\ t \notin Issued
    /\ record' = [record EXCEPT ![k] = [content |-> content, token |-> t, active |-> TRUE]]
    /\ UNCHANGED <<spent, basis>>

Switch(k, on) ==
    /\ record[k] # None
    /\ record' = [record EXCEPT ![k].active = on]
    /\ UNCHANGED <<spent, basis>>

Rotate(k, t) ==
    /\ record[k] # None /\ t \notin Issued
    /\ spent' = spent \cup {record[k].token}
    /\ record' = [record EXCEPT ![k].token = t]
    /\ UNCHANGED basis

Remove(k) ==
    /\ record[k] # None
    /\ spent' = spent \cup {record[k].token}
    /\ record' = [record EXCEPT ![k] = None]
    /\ UNCHANGED basis

\* Most steps of an implementation change nothing its users see: a checker
\* that tries that first need not try the others.
ServiceNext ==
    \/ UNCHANGED sVars
    \/ \E c \in Clients : Drop(c) \/ \E x \in Contents : Replace(c, x)
    \/ \E c \in Clients, k \in Subs : Begin(c, k)
    \/ \E k \in Subs, x \in Contents, t \in Tokens : Add(k, x, t)
    \/ \E k \in Subs, on \in BOOLEAN : Switch(k, on)
    \/ \E k \in Subs, t \in Tokens : Rotate(k, t)
    \/ \E k \in Subs : Remove(k)

ServiceSpec == ServiceInit /\ [][ServiceNext]_sVars

=============================================================================
