------------------------------ MODULE LockOrder ------------------------------
(***************************************************************************)
(* The locks of state/ and the order in which one is taken inside another.   *)
(*                                                                         *)
(* A lock is a flock on a file opened for it, so a process that opens it      *)
(* twice waits for itself.  Locks are taken in "with" blocks: the innermost   *)
(* is left first, and an error leaves one after the other.  What a process    *)
(* does between two locks is left out: it may take whatever some code takes   *)
(* inside the locks it is in.                                               *)
(***************************************************************************)
EXTENDS Integers, Sequences

CONSTANT Processes

VARIABLES
    path,     \* the locks a process is in, the outermost first
    waiting   \* whether it still waits for the last of them

vars == <<path, waiting>>

Locks == {"auto_health", "auto_refresh", "job", "fixed", "node", "proxy", "geoip",
          "notifications", "cleanup", "links", "attempts", "auth"}

-----------------------------------------------------------------------------
(* Which lock is waited for inside which. *)

\* A registry method; an observation read or set for all; a check commits, a page
\* reads and a deletion follows the registry under the revision guard.
Observing == {<<"fixed">>, <<"node">>, <<"proxy">>, <<"fixed", "node">>, <<"fixed", "proxy">>}
\* A probe commits inside the lock of the one engine.
Probing == {<<"job", "fixed">>, <<"job", "fixed", "proxy">>}
\* The scans do the same inside theirs.
Scans == {<<"auto_health">> \o w : w \in Observing \cup Probing} \cup {<<"auto_refresh", "fixed">>}
Requests == {<<"cleanup">>, <<"cleanup", "links">>, <<"links">>, <<"attempts">>,
             <<"attempts", "auth">>, <<"auth">>, <<"geoip">>, <<"notifications">>}
\* A generation reads the observations and leaves them before it takes the
\* registry again, to compare them there.
WaitsInSnapshot == Observing \cup Probing \cup Scans \cup Requests \cup {<<"proxy", "fixed">>}
Waits == Observing \cup Probing \cup Scans \cup Requests

\* Which is only tried: a generation reads the observations and the database, and
\* compares the observations under the registry; lists and deletions.
Generating == {<<"proxy">>, <<"geoip">>, <<"fixed", "proxy">>}
Tries == Generating \cup {<<s>> \o w : s \in {"auto_health", "auto_refresh"}, w \in Generating}
         \cup {<<"fixed">>, <<"fixed", "node">>, <<"job">>, <<"auto_health", "job">>,
               <<"auto_health">>, <<"auto_refresh">>}

-----------------------------------------------------------------------------

TypeOK == path \in [Processes -> Waits \cup Tries \cup {<<>>}] /\ waiting \in [Processes -> BOOLEAN]

Init == path = [p \in Processes |-> <<>>] /\ waiting = [p \in Processes |-> FALSE]

Held(p) == {path[p][i] : i \in 1..(IF waiting[p] THEN Len(path[p]) - 1 ELSE Len(path[p]))}
Wanted(p) == path[p][Len(path[p])]
Free(l) == \A q \in Processes : l \notin Held(q)
Outer(w) == SubSeq(w, 1, Len(w) - 1)

Wait(p) ==
    /\ ~waiting[p]
    /\ \E w \in Waits : Outer(w) = path[p] /\ path' = [path EXCEPT ![p] = w]
    /\ waiting' = [waiting EXCEPT ![p] = TRUE]
Get(p) ==
    /\ waiting[p] /\ Free(Wanted(p))
    /\ waiting' = [waiting EXCEPT ![p] = FALSE]
    /\ UNCHANGED path
\* A lock that is taken is an error or an answer; the process goes on without it.
Try(p) ==
    /\ ~waiting[p]
    /\ \E w \in Tries : /\ Outer(w) = path[p] /\ Free(w[Len(w)])
                        /\ path' = [path EXCEPT ![p] = w]
    /\ UNCHANGED waiting
Leave(p) ==
    /\ ~waiting[p] /\ path[p] # <<>>
    /\ path' = [path EXCEPT ![p] = Outer(path[p])]
    /\ UNCHANGED waiting
\* The locks of a process that is killed are gone with it, and with a signal
\* that interrupts its wait.
Kill(p) ==
    /\ path[p] # <<>>
    /\ path' = [path EXCEPT ![p] = <<>>]
    /\ waiting' = [waiting EXCEPT ![p] = FALSE]

Next == \E p \in Processes : Wait(p) \/ Get(p) \/ Try(p) \/ Leave(p) \/ Kill(p)

Spec == Init /\ [][Next]_vars

-----------------------------------------------------------------------------

\* Processes never wait for each other in a circle: whichever of them are looked
\* at, one of them does not wait for a lock that another of them, or itself, has.
\* A save, a scan, a probe, pages, deletions and the cleanup may all be under way.
NoCircle ==
    \A ps \in (SUBSET Processes) \ {{}} :
        \E p \in ps : waiting[p] => \A q \in ps : Wanted(p) \notin Held(q)

=============================================================================
