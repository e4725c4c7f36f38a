----------------------------- MODULE FixedStore -----------------------------
(***************************************************************************)
(* The fixed-subscription store of core/fixed_subscriptions.py.            *)
(*                                                                         *)
(* Several operating-system processes (Gunicorn workers and the two timer  *)
(* jobs) share one registry file and one directory tree.  A subscription   *)
(* is a home directory holding revision directories; the registry entry    *)
(* names the one revision the public URL serves.  Every access to the      *)
(* registry holds an flock; building a candidate revision (network, YAML)  *)
(* does not, and the candidate is checked again before it is published.    *)
(* Any process may be killed between two steps, and any disk write may     *)
(* fail, before or after it took effect.                                   *)
(***************************************************************************)
EXTENDS Naturals, FiniteSets

CONSTANTS
    Workers,    \* processes that open the store
    Subs,       \* internal subscription ids (uuid4)
    Revs,       \* internal revision ids (uuid4)
    Tokens,     \* bearer tokens of public URLs
    None,       \* Python's None
    MaxClock,   \* bound on the clock
    MaxFails,   \* bound on the consecutive failures that are counted
    Faults      \* what may go wrong: a subset of {"crash", "io"}

VARIABLES
    file,       \* fixed_subscriptions.json as it is on disk
    previous,   \* the bytes an unfinished _commit would write back
    homes,      \* home directories that exist
    dir,        \* what every home holds under every revision name
    lock,       \* the process that holds fixed_subscriptions.lock, or None
    clock,      \* time.time(), in units of the 60 s access-statistics period
    pc, op, key, old, draft     \* where every process is, and its locals

vars == <<file, previous, homes, dir, lock, clock, pc, op, key, old, draft>>
locals == <<op, key, old, draft>>

-----------------------------------------------------------------------------
(* Types *)

\* The fields of a registry entry that the code compares, keeps or moves.
\* "fails" stands for the refresh bookkeeping of the entry's sources, "audit"
\* is the revision the stored health-policy audit is about.
Entry == [rev: Revs, token: Tokens, status: {"active", "disabled"},
          updated: 0..MaxClock, fails: 0..MaxFails,
          access: 0..MaxClock, audit: Revs]

File == [subs: [Subs -> Entry \cup {None}], retired: SUBSET Tokens]
Draft == [rev: Revs, fails: 0..MaxFails]

ASSUME NoneAssumption == None \notin Subs \cup Workers \cup Entry \cup Draft
ASSUME BoundAssumption == MaxClock \in Nat \ {0} /\ MaxFails \in Nat

SaveOps == {"create", "edit", "auto", "cached"}
Restoring == {"restore_abort", "restore_note", "restore_end"}
Labels == {"idle", "requested", "work", "ready", "same", "locked", "homed",
           "placed", "abort", "collect", "note", "rmtree"} \cup Restoring

TypeOK ==
    /\ file \in File
    /\ previous \in File
    /\ homes \in SUBSET Subs
    /\ dir \in [Subs -> [Revs -> {"absent", "whole", "partial"}]]
    /\ lock \in Workers \cup {None}
    /\ clock \in 1..MaxClock
    /\ pc \in [Workers -> Labels]
    /\ op \in [Workers -> SaveOps \cup {"none"}]
    /\ key \in [Workers -> Subs \cup {None}]
    /\ old \in [Workers -> Entry \cup {None}]
    /\ draft \in [Workers -> Draft \cup {None}]

\* The registry f with entry e under k, and with token t retired.
Put(f, k, e) == [f EXCEPT !.subs[k] = e]
Retire(f, t) == [f EXCEPT !.retired = f.retired \cup {t}]

Live(f) == {k \in Subs : f.subs[k] # None}
LiveTokens(f) == {f.subs[k].token : k \in Live(f)}

Init ==
    /\ file = [subs |-> [k \in Subs |-> None], retired |-> {}]
    /\ previous = file
    /\ homes = {}
    /\ dir = [k \in Subs |-> [r \in Revs |-> "absent"]]
    /\ lock = None
    /\ clock = 1
    /\ pc = [w \in Workers |-> "idle"]
    /\ op = [w \in Workers |-> "none"]
    /\ key = [w \in Workers |-> None]
    /\ old = [w \in Workers |-> None]
    /\ draft = [w \in Workers |-> None]

-----------------------------------------------------------------------------
(* Helpers *)

\* What must not have moved between the snapshot and the commit: everything
\* but the access statistics and the audit.
IdentityNoStatus(e) ==
    IF e = None THEN None ELSE [e EXCEPT !.access = 0, !.audit = e.rev,
                                         !.status = "active"]
IdentityAnyRevision(e) ==
    IF e = None THEN None ELSE [token |-> e.token, status |-> e.status]
Identity(e) ==
    IF e = None THEN None ELSE [e EXCEPT !.access = 0, !.audit = e.rev]

\* current.yaml and base.yaml of the selected revision can be read.
Readable(k, e) == k \in homes /\ dir[k][e.rev] = "whole"

Same(w) == Identity(file.subs[key[w]]) = Identity(old[w])

\* The three ways _commit(f) ends: the file is replaced and synced; an error
\* before os.replace leaves the disk alone; an error after it leaves f on disk
\* and the old bytes still to be restored.
Committed(f) == file' = f /\ previous' = f
NotWritten == "io" \in Faults /\ UNCHANGED <<file, previous>>
Torn(f) == "io" \in Faults /\ file' = f /\ UNCHANGED previous

Goto(w, label) == pc' = [pc EXCEPT ![w] = label]

\* The request ends and the process forgets its locals.
Finish(w) ==
    /\ pc' = [pc EXCEPT ![w] = "idle"]
    /\ op' = [op EXCEPT ![w] = "none"]
    /\ key' = [key EXCEPT ![w] = None]
    /\ old' = [old EXCEPT ![w] = None]
    /\ draft' = [draft EXCEPT ![w] = None]

\* A save that failed on the disk: reconcile_health_policy goes on to note the
\* error in the audit, every other caller reports it.
GiveUp(w) ==
    IF op[w] = "cached"
    THEN Goto(w, "note") /\ UNCHANGED locals
    ELSE Finish(w)

-----------------------------------------------------------------------------
(* save: create, edit, automatic refresh, cached reconciliation *)

\* fixed_views.edit, run_once or reconcile_health_policy reads the entry it is
\* going to save again.
Request(w, k, o) ==
    /\ pc[w] = "idle" /\ lock = None
    /\ k \in Live(file)
    /\ o = "auto" => file.subs[k].status = "active"
    /\ Goto(w, "requested")
    /\ op' = [op EXCEPT ![w] = o]
    /\ key' = [key EXCEPT ![w] = k]
    /\ old' = [old EXCEPT ![w] = file.subs[k]]
    /\ UNCHANGED <<file, previous, homes, dir, lock, clock, draft>>

\* The first locked section of save: refuse an entry that moved since it was
\* read, else remember it and every byte the generation needs.
Snapshot(w) ==
    /\ pc[w] = "requested" /\ lock = None
    /\ \/ /\ Same(w) /\ Readable(key[w], file.subs[key[w]])
          /\ old' = [old EXCEPT ![w] = file.subs[key[w]]]
          /\ Goto(w, "work")
          /\ UNCHANGED <<op, key, draft>>
       \/ Same(w) /\ ~Readable(key[w], file.subs[key[w]]) /\ GiveUp(w)
       \/ ~Same(w) /\ Finish(w)
    /\ UNCHANGED <<file, previous, homes, dir, lock, clock>>

StartCreate(w) ==
    /\ pc[w] = "idle" /\ lock = None
    /\ Goto(w, "work")
    /\ op' = [op EXCEPT ![w] = "create"]
    /\ UNCHANGED <<file, previous, homes, dir, lock, clock, key, old, draft>>

\* Outside the lock, in a scratch directory no registry entry can name: fetch,
\* aggregate, generate and write the candidate.  A refresh either succeeds
\* (failures 0), falls back to the last good payload (one failure more) or, for
\* sources it does not refresh, leaves the bookkeeping alone.
Build(w) ==
    /\ pc[w] = "work"
    /\ \E r \in Revs, same \in BOOLEAN,
          n \in CASE op[w] = "create" -> {0}
                  [] op[w] = "cached" -> {old[w].fails}
                  [] OTHER -> {0, old[w].fails, old[w].fails + 1} \cap (0..MaxFails) :
         /\ same => op[w] = "cached"
         /\ draft' = [draft EXCEPT ![w] = [rev |-> r, fails |-> n]]
         /\ Goto(w, IF same THEN "same" ELSE "ready")
    /\ UNCHANGED <<file, previous, homes, dir, lock, clock, op, key, old>>

\* A provider or the generator refuses; the two automatic callers note it.
BuildFails(w) ==
    /\ pc[w] = "work"
    /\ IF op[w] \in {"auto", "cached"}
       THEN Goto(w, "note") /\ UNCHANGED locals
       ELSE Finish(w)
    /\ UNCHANGED <<file, previous, homes, dir, lock, clock>>

\* The second locked section finds that the entry moved, or that the health
\* observations the candidate was filtered with did (health_policy.guard).
Conflict(w) ==
    /\ pc[w] \in {"ready", "same"} /\ lock = None
    /\ op[w] # "create"
    /\ Finish(w)
    /\ UNCHANGED <<file, previous, homes, dir, lock, clock>>

Enter(w) ==
    /\ pc[w] = "ready" /\ lock = None
    /\ op[w] # "create" => Same(w)
    /\ lock' = w
    /\ Goto(w, "locked")
    /\ UNCHANGED <<file, previous, homes, dir, clock, locals>>

\* _allocate: never an id that is registered or whose directory exists.
AllocateHome(w) ==
    /\ pc[w] = "locked" /\ op[w] = "create"
    /\ \E k \in Subs \ (homes \cup Live(file)) :
         /\ homes' = homes \cup {k}
         /\ key' = [key EXCEPT ![w] = k]
    /\ Goto(w, "homed")
    /\ UNCHANGED <<file, previous, dir, lock, clock, op, old, draft>>

\* Every name is taken, or the revision name already exists in the home:
\* StateError, nothing was placed.
PlaceFails(w) ==
    /\ \/ pc[w] = "locked" /\ op[w] = "create" /\ Subs = homes \cup Live(file)
       \/ /\ pc[w] = "locked" /\ op[w] # "create"
          /\ dir[key[w]][draft[w].rev] # "absent"
    /\ lock' = None
    /\ GiveUp(w)
    /\ UNCHANGED <<file, previous, homes, dir, clock>>

\* The complete candidate is renamed into the home.
Place(w) ==
    /\ \/ pc[w] = "locked" /\ op[w] # "create"
       \/ pc[w] = "homed"
    /\ dir[key[w]][draft[w].rev] = "absent"
    /\ dir' = [dir EXCEPT ![key[w]][draft[w].rev] = "whole"]
    /\ Goto(w, "placed")
    /\ UNCHANGED <<file, previous, homes, lock, clock, locals>>

\* The entry save writes: token and status from the snapshot, the access
\* statistics from the entry that is current now.
NewEntryStaleAccess(w, token) ==
    [rev |-> draft[w].rev, token |-> token, audit |-> draft[w].rev,
     status |-> IF old[w] = None THEN "active" ELSE old[w].status,
     updated |-> clock, fails |-> draft[w].fails,
     access |-> IF old[w] = None THEN 0 ELSE old[w].access]
NewEntry(w, token) ==
    [rev |-> draft[w].rev, token |-> token, audit |-> draft[w].rev,
     status |-> IF old[w] = None THEN "active" ELSE old[w].status,
     updated |-> clock, fails |-> draft[w].fails,
     access |-> IF file.subs[key[w]] = None THEN 0 ELSE file.subs[key[w]].access]

\* _new_token: neither live nor ever retired.
FreshTokensLiveOnly(f) == Tokens \ LiveTokens(f)
FreshTokens(f) == Tokens \ (f.retired \cup LiveTokens(f))

Publish(w) ==
    /\ pc[w] = "placed"
    /\ \/ \E t \in IF old[w] = None THEN FreshTokens(file) ELSE {old[w].token} :
            LET f == Put(file, key[w], NewEntry(w, t))
            IN  \/ Committed(f) /\ Goto(w, "collect")
                \/ Torn(f) /\ Goto(w, "restore_abort")
       \/ \* any error before the registry is replaced, no token left included
          /\ UNCHANGED <<file, previous>>
          /\ "io" \notin Faults => old[w] = None /\ FreshTokens(file) = {}
          /\ Goto(w, "abort")
    /\ UNCHANGED <<homes, dir, lock, clock, locals>>

\* Identical YAML of a cached reconciliation: only the audit is written.
PublishAudit(w) ==
    /\ pc[w] = "same" /\ lock = None /\ Same(w)
    /\ LET f == Put(file, key[w], [file.subs[key[w]] EXCEPT !.audit = old[w].rev])
       IN  \/ Committed(f) /\ Finish(w) /\ UNCHANGED lock
           \/ Torn(f) /\ Goto(w, "restore_note") /\ lock' = w /\ UNCHANGED locals
           \/ NotWritten /\ GiveUp(w) /\ UNCHANGED lock
    /\ UNCHANGED <<homes, dir, clock>>

\* The handler of a failed write puts the old bytes back; that write can fail
\* as well, and then the new registry stays.
RestoreBytes ==
    \/ file' = previous /\ UNCHANGED previous
    \/ file' = file /\ previous' = file

Restore(w) ==
    /\ pc[w] \in Restoring
    /\ RestoreBytes
    /\ CASE pc[w] = "restore_abort" ->
              Goto(w, "abort") /\ UNCHANGED <<lock, locals>>
         [] pc[w] = "restore_note" ->
              Goto(w, "note") /\ lock' = None /\ UNCHANGED locals
         [] OTHER -> Finish(w) /\ lock' = None
    /\ UNCHANGED <<homes, dir, clock>>

\* The error handler of save: unless the registry on disk selects the revision,
\* it goes again, and with it the home a create made.  An unreadable registry
\* counts as selecting it, and a directory that cannot be removed stays.
UnreferencedUnread(w) == TRUE
Unreferenced(w) ==
    file.subs[key[w]] # None => file.subs[key[w]].rev # draft[w].rev

Abort(w) ==
    /\ pc[w] = "abort"
    /\ \/ /\ Unreferenced(w)
          /\ dir' = [dir EXCEPT ![key[w]][draft[w].rev] = "absent"]
          /\ homes' = IF old[w] = None THEN homes \ {key[w]} ELSE homes
       \/ /\ Unreferenced(w) /\ "io" \in Faults
          /\ dir' = [dir EXCEPT ![key[w]][draft[w].rev] = "partial"]
          /\ UNCHANGED homes
       \/ ~Unreferenced(w) /\ UNCHANGED <<dir, homes>>
    /\ lock' = None
    /\ GiveUp(w)
    /\ UNCHANGED <<file, previous, clock>>

\* rmtree over the revisions of home k that may go: what can be left of each
\* ("partial": any part of its files, all of them included).
Removals(k, victims) ==
    {h \in [Revs -> {"absent", "whole", "partial"}] :
        \A r \in Revs :
            IF r \in victims /\ dir[k][r] # "absent"
            THEN h[r] \in IF "io" \in Faults THEN {"absent", "partial"} ELSE {"absent"}
            ELSE h[r] = dir[k][r]}

\* Only superseded revisions of this home are removed.
VictimsNone(w) == {}
Victims(w) == Revs \ {draft[w].rev}

Collect(w) ==
    /\ pc[w] = "collect"
    /\ \E h \in Removals(key[w], Victims(w)) : dir' = [dir EXCEPT ![key[w]] = h]
    /\ lock' = None
    /\ Finish(w)
    /\ UNCHANGED <<file, previous, homes, clock>>

\* record_refresh_error and the error audit of reconcile_health_policy: they
\* touch the entry only while it is the one the failed attempt started from.
NoteEntry(w) ==
    IF op[w] = "auto"
    THEN [file.subs[key[w]] EXCEPT !.fails = @ + 1, !.updated = clock]
    ELSE [file.subs[key[w]] EXCEPT !.audit = old[w].rev]

Note(w) ==
    /\ pc[w] = "note" /\ lock = None
    /\ \/ ~Same(w) /\ Finish(w) /\ UNCHANGED <<file, previous, lock>>
       \/ /\ Same(w)
          /\ op[w] = "auto" => old[w].fails < MaxFails
          /\ LET f == Put(file, key[w], NoteEntry(w))
             IN  \/ Committed(f) /\ Finish(w) /\ UNCHANGED lock
                 \/ Torn(f) /\ Goto(w, "restore_end") /\ lock' = w /\ UNCHANGED locals
       \/ \* the write failed, the observations moved or the bound is reached
          /\ UNCHANGED <<file, previous, lock>>
          /\ Finish(w)
    /\ UNCHANGED <<homes, dir, clock>>

-----------------------------------------------------------------------------
(* action: enable, disable, regenerate, delete *)

\* The registries a management action may write for k.
Managed(k, act) ==
    LET e == file.subs[k]
        gone == Retire(file, e.token)
    IN  CASE act \in {"enable", "disable"} ->
               {Put(file, k, [e EXCEPT !.status = IF act = "enable" THEN "active" ELSE "disabled",
                                       !.updated = clock])}
          [] act = "regenerate" ->
               {Put(gone, k, [e EXCEPT !.token = t, !.updated = clock]) :
                    t \in FreshTokens(gone)}
          [] act = "delete" -> {Put(gone, k, None)}

\* A write that fails before the replacement changes nothing and is no step.
Manage(w, k, act) ==
    /\ pc[w] = "idle" /\ lock = None
    /\ k \in Live(file) /\ k \in homes
    /\ \E f \in Managed(k, act) :
         \/ /\ Committed(f)
            /\ IF act = "delete"
               THEN Goto(w, "rmtree") /\ key' = [key EXCEPT ![w] = k] /\ lock' = w
               ELSE UNCHANGED <<pc, key, lock>>
         \/ Torn(f) /\ Goto(w, "restore_end") /\ lock' = w /\ UNCHANGED key
    /\ UNCHANGED <<homes, dir, clock, op, old, draft>>

\* shutil.rmtree of a deleted subscription's home, still under the lock.
RemoveHome(w) ==
    /\ pc[w] = "rmtree"
    /\ \/ /\ dir' = [dir EXCEPT ![key[w]] = [r \in Revs |-> "absent"]]
          /\ homes' = homes \ {key[w]}
       \/ /\ "io" \in Faults
          /\ \E h \in Removals(key[w], Revs) : dir' = [dir EXCEPT ![key[w]] = h]
          /\ UNCHANGED homes
    /\ lock' = None
    /\ Finish(w)
    /\ UNCHANGED <<file, previous, clock>>

-----------------------------------------------------------------------------
(* resolve, the clock and crashes *)

\* A public read that is due to advance the access statistics; the others
\* change nothing.  The bytes are read before the statistics are written, and
\* a failed write does not withhold them.
Resolve(w, k) ==
    /\ pc[w] = "idle" /\ lock = None
    /\ k \in Live(file) /\ file.subs[k].status = "active"
    /\ Readable(k, file.subs[k])
    /\ file.subs[k].access < clock
    /\ LET f == Put(file, k, [file.subs[k] EXCEPT !.access = clock])
       IN  \/ Committed(f) /\ UNCHANGED <<pc, lock>>
           \/ Torn(f) /\ Goto(w, "restore_end") /\ lock' = w
    /\ UNCHANGED <<homes, dir, clock, locals>>

Tick ==
    /\ clock < MaxClock
    /\ clock' = clock + 1
    /\ UNCHANGED <<file, previous, homes, dir, lock, pc, locals>>

\* The kernel drops the flock of a killed process; whatever the registry file
\* holds at that moment is the registry.
Crash(w) ==
    /\ "crash" \in Faults
    /\ pc[w] # "idle"
    /\ previous' = IF pc[w] \in Restoring THEN file ELSE previous
    /\ lock' = IF lock = w THEN None ELSE lock
    /\ Finish(w)
    /\ UNCHANGED <<file, homes, dir, clock>>

Step(w) ==
    \/ Snapshot(w) \/ Build(w) \/ BuildFails(w)
    \/ Conflict(w) \/ Enter(w) \/ AllocateHome(w) \/ PlaceFails(w) \/ Place(w)
    \/ Publish(w) \/ PublishAudit(w) \/ Restore(w) \/ Abort(w) \/ Collect(w)
    \/ Note(w) \/ RemoveHome(w)

Next ==
    \/ Tick
    \/ \E w \in Workers :
         \/ Step(w)
         \/ Crash(w)
         \/ StartCreate(w)
         \/ \E k \in Subs :
              \/ \E o \in {"edit", "auto", "cached"} : Request(w, k, o)
              \/ \E act \in {"enable", "disable", "regenerate", "delete"} : Manage(w, k, act)
              \/ Resolve(w, k)

Spec == Init /\ [][Next]_vars

=============================================================================
