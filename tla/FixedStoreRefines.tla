-------------------------- MODULE FixedStoreRefines --------------------------
(***************************************************************************)
(* FixedStore implements SubscriptionService.  The record a user sees is    *)
(* the settled registry entry with the content of its revision directory;   *)
(* a registry a failed write left behind counts only once its rollback has  *)
(* failed or its process was killed.                                        *)
(***************************************************************************)
EXTENDS FixedStoreProperties

\* What a user sees of a subscription, and what a save holds on to.
Views == [content: Revs, token: Tokens, active: BOOLEAN]
ASSUME ViewAssumption == None \notin Views \cup [sub: Subs, seen: Views]

\* The content a public read of e gets: the revision when its files are there.
Served(k, e) == IF Readable(k, e) THEN e.rev ELSE None

View(k, e) == [content |-> Served(k, e), token |-> e.token, active |-> e.status = "active"]

\* A save holds on to the entry it read until it has published or given up.
Preparing(w) ==
    /\ op[w] \in {"edit", "auto", "cached"}
    /\ pc[w] \in {"requested", "work", "ready", "same", "locked", "placed", "restore_abort"}

\* What the users see, and what every save started from.
Record == [k \in Subs |-> IF previous.subs[k] = None THEN None ELSE View(k, previous.subs[k])]
Basis ==
    [w \in Workers |->
        IF Preparing(w)
        THEN [sub |-> key[w],
              seen |-> [content |-> old[w].rev, token |-> old[w].token,
                        active |-> old[w].status = "active"]]
        ELSE None]

Service == INSTANCE SubscriptionService WITH
    Clients <- Workers, Contents <- Revs,
    record <- Record, spent <- previous.retired, basis <- Basis

\* Every behaviour of the store, with all its crashes and failing writes, is a
\* behaviour of the compare-and-swap service.
ImplementsService == Service!ServiceSpec

=============================================================================
