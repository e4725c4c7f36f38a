------------------------ MODULE FixedStoreProperties ------------------------
(***************************************************************************)
(* What the fixed-subscription store promises, and the inductive invariant *)
(* its safety theorems rest on.  "previous" is the settled registry: what   *)
(* the last completed commit, rollback or crash left.                       *)
(***************************************************************************)
EXTENDS FixedStore

\* Every entry of the registry f selects a revision that is complete on disk.
Complete(f) == \A k \in Live(f) : Readable(k, f.subs[k])

\* The revision an entry selects is complete on disk, for the registry as it is
\* and for the one a rollback would bring back: whatever fails or is killed, no
\* registered subscription points at files that are missing or half removed.
SelectedComplete == Complete(file) /\ Complete(previous)

\* A token opens at most one subscription, and a retired token opens none.
TokensUnique ==
    \A k \in Live(file) :
        /\ file.subs[k].token \notin file.retired
        /\ \A j \in Live(file) : file.subs[j].token = file.subs[k].token => j = k

\* The stored audit describes the generation of the revision it stands beside,
\* never that of an older or newer one (audit writes carry no new revision).
AuditDescribesSelected == \A k \in Live(file) : file.subs[k].audit = file.subs[k].rev

\* Without crashes and disk errors nothing unreferenced survives a locked
\* section: every revision and home on disk belongs to a registered entry.
NothingLeftBehind ==
    Faults = {} /\ lock = None =>
        /\ homes = Live(file)
        /\ \A k \in Subs, r \in Revs :
             dir[k][r] # "absent" => k \in Live(file) /\ file.subs[k].rev = r

\* Optimistic commits: a new revision is only ever selected over the very entry
\* its process read before it went to the network, and brings that entry's
\* token and status along, so no management action in between is undone.
PublishOnSnapshot ==
    [][\A k \in Live(previous) :
          previous'.subs[k] # None /\ previous'.subs[k].rev # previous.subs[k].rev =>
            /\ previous'.subs[k].token = previous.subs[k].token
            /\ previous'.subs[k].status = previous.subs[k].status
            /\ \E w \in Workers :
                 /\ key[w] = k /\ draft[w] # None /\ old[w] # None
                 /\ draft[w].rev = previous'.subs[k].rev
                 /\ old[w].rev = previous.subs[k].rev
                 /\ old[w].fails = previous.subs[k].fails]_vars

\* The access statistics of a subscription never go back, although saves that
\* snapshotted older ones commit later.
AccessNeverLost ==
    [][\A k \in Live(previous) :
          previous'.subs[k] # None =>
            previous'.subs[k].access >= previous.subs[k].access]_vars

\* The comment in _collect: unreferenced revisions a crash left behind go with
\* the next successful management mutation of the subscription.
OrphansGoWithNextMutation ==
    [][\A k \in Live(previous) :
          /\ previous'.subs[k] # None /\ lock' = None
          /\ \/ previous'.subs[k].status # previous.subs[k].status
             \/ previous'.subs[k].token # previous.subs[k].token
          => \A r \in Revs \ {previous'.subs[k].rev} : dir'[k][r] = "absent"]_vars

\* The inductive invariant behind the safety theorems, part by part.

\* Only the holder of the flock is inside a locked section.
Inside == {"locked", "homed", "placed", "abort", "collect", "rmtree"} \cup Restoring
Exclusion == \A w \in Workers : pc[w] \in Inside => lock = w

\* A rollback is pending exactly while its process is about to do it.
Settled == (\A w \in Workers : pc[w] \notin Restoring) => previous = file

\* What a process knows at each label.
Prepared ==
    \A w \in Workers :
        /\ pc[w] \in {"requested", "work", "ready", "same", "locked", "placed", "abort",
                      "collect", "note", "restore_abort", "restore_note"} =>
             /\ op[w] \in SaveOps
             /\ IF op[w] = "create" THEN old[w] = None
                ELSE key[w] \in Subs /\ old[w] \in Entry
        /\ pc[w] = "idle" => old[w] = None
        /\ pc[w] = "requested" => op[w] # "create"
        /\ pc[w] = "same" => op[w] = "cached"
        /\ pc[w] = "homed" => op[w] = "create" /\ old[w] = None
        /\ pc[w] \in {"note", "restore_note"} => op[w] \in {"auto", "cached"}
        /\ pc[w] \in {"ready", "same", "locked", "homed", "placed", "abort", "collect",
                      "restore_abort"} => draft[w] \in Draft
        /\ pc[w] \in {"homed", "placed", "abort", "collect", "restore_abort", "rmtree"} =>
             key[w] \in Subs

\* Inside the second locked section the entry is still the one of the snapshot;
\* for a create there is none yet.
StillCurrent ==
    \A w \in Workers :
        /\ pc[w] \in {"locked", "placed"} /\ op[w] # "create" =>
             file.subs[key[w]] # None /\ Same(w)
        /\ pc[w] = "homed" \/ (pc[w] = "placed" /\ op[w] = "create") =>
             file.subs[key[w]] = None
        /\ pc[w] = "restore_abort" =>
             /\ op[w] = "create" => previous.subs[key[w]] = None
             /\ file.subs[key[w]] # None /\ file.subs[key[w]].rev = draft[w].rev
        /\ pc[w] = "abort" /\ op[w] = "create" =>
             \/ file.subs[key[w]] = None
             \/ file.subs[key[w]].rev = draft[w].rev
        /\ pc[w] = "collect" =>
             file.subs[key[w]] # None /\ file.subs[key[w]].rev = draft[w].rev
        /\ pc[w] = "rmtree" => file.subs[key[w]] = None

\* From the rename on, the revision of a candidate is complete in its home.
CandidateComplete ==
    \A w \in Workers :
        /\ pc[w] = "homed" => key[w] \in homes
        /\ pc[w] \in {"placed", "abort", "collect", "restore_abort"} =>
             key[w] \in homes /\ dir[key[w]][draft[w].rev] = "whole"

\* How the registry g that a step writes differs from the one it was made from.
OnlyAt(f, g, k) == \A j \in Subs \ {k} : g.subs[j] = f.subs[j]

\* The entry of k with another status, audit, failure count or later access.
Kept(f, g, k) ==
    LET e == f.subs[k]
        n == g.subs[k]
    IN  /\ e # None /\ n # None
        /\ n.rev = e.rev /\ n.token = e.token /\ n.access >= e.access
        /\ n.audit \in {e.audit, e.rev}
        /\ g.retired = f.retired

Rotated(f, g, k) ==
    LET e == f.subs[k]
        n == g.subs[k]
    IN  /\ e # None /\ n # None
        /\ n.rev = e.rev /\ n.status = e.status /\ n.access = e.access /\ n.audit = e.audit
        /\ n.token \notin f.retired \cup LiveTokens(f)
        /\ g.retired = f.retired \cup {e.token}

Removed(f, g, k) ==
    /\ f.subs[k] # None /\ g.subs[k] = None
    /\ g.retired = f.retired \cup {f.subs[k].token}

Edited(f, g) ==
    \E k \in Subs : OnlyAt(f, g, k) /\ (Kept(f, g, k) \/ Rotated(f, g, k) \/ Removed(f, g, k))

\* What a save writes over the entry it started from, or where there is none.
Published(w, f, g) ==
    LET e == f.subs[key[w]]
        n == g.subs[key[w]]
    IN  /\ OnlyAt(f, g, key[w])
        /\ n # None
        /\ n.rev = draft[w].rev /\ n.audit = n.rev
        /\ g.retired = f.retired
        /\ IF op[w] = "create"
           THEN e = None /\ n.status = "active" /\ n.token \notin f.retired \cup LiveTokens(f)
           ELSE /\ e # None /\ Identity(e) = Identity(old[w])
                /\ n.token = e.token /\ n.status = e.status /\ n.access = e.access

\* The file a failed write left behind differs from the settled registry by
\* that one write.
Pending ==
    \A w \in Workers :
        /\ pc[w] \in {"restore_note", "restore_end"} => Edited(previous, file)
        /\ pc[w] = "restore_abort" => Published(w, previous, file)

\* Both registries keep tokens apart and audits beside their revisions.
TokensApart(f) ==
    \A k \in Live(f) :
        /\ f.subs[k].token \notin f.retired
        /\ \A j \in Live(f) : f.subs[j].token = f.subs[k].token => j = k
AuditsBeside(f) == \A k \in Live(f) : f.subs[k].audit = f.subs[k].rev
RegistryInv ==
    /\ Pending
    /\ TokensApart(file) /\ TokensApart(previous)
    /\ AuditsBeside(file) /\ AuditsBeside(previous)

\* What a process in a locked section is about to register, use or remove.
UsesHome(w, k) ==
    /\ key[w] = k
    /\ pc[w] \in {"homed", "rmtree"} \/ (pc[w] \in {"placed", "abort"} /\ op[w] = "create")
UsesRevision(w, k, r) ==
    /\ key[w] = k
    /\ pc[w] \in {"collect", "rmtree"} \/ (pc[w] \in {"placed", "abort"} /\ draft[w].rev = r)

\* Without faults, a process in a locked section uses whatever is on disk and
\* belongs to no registered revision.
Cleaning ==
    Faults = {} =>
        /\ \A w \in Workers : pc[w] \notin Restoring
        /\ \A k \in homes : k \in Live(file) \/ \E w \in Workers : UsesHome(w, k)
        /\ \A k \in Subs, r \in Revs : dir[k][r] # "absent" =>
              \/ k \in Live(file) /\ file.subs[k].rev = r
              \/ \E w \in Workers : UsesRevision(w, k, r)

IInv ==
    /\ TypeOK
    /\ Exclusion
    /\ Settled
    /\ Prepared
    /\ StillCurrent
    /\ CandidateComplete
    /\ SelectedComplete

=============================================================================
