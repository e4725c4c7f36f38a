--------------------------- MODULE TemporaryLinks ---------------------------
(***************************************************************************)
(* Generated outputs, their temporary links and their deletion:             *)
(* core/temporary_links.py, core/retention.py and the requests of app.py.   *)
(*                                                                         *)
(* A link is a random id bound to an output until it expires or the output  *)
(* is deleted.  Any request may run the throttled cleanup.  The table of     *)
(* links has a lock; outputs are files that several workers create and       *)
(* delete between each other's steps.                                        *)
(***************************************************************************)
EXTENDS Integers, FiniteSets, FiniteSetsExt

CONSTANTS
    Workers,
    Names,          \* names of outputs: random, used once
    Ids,            \* ids of links
    None,
    Lifetime,       \* of a link
    Retention,      \* of an output under the timed policy
    Interval,       \* between two cleanups
    MaxTombstones,  \* ids a cleanup keeps reserved
    MaxClock, MaxFaults

LinksAssumption ==
    /\ Lifetime \in Nat \ {0} /\ Retention \in Nat \ {0}
    /\ Interval \in Nat /\ MaxTombstones \in Nat
    /\ None \notin [at: Nat, twice: BOOLEAN]
BoundsAssumption == MaxClock \in Nat /\ MaxFaults \in Nat

VARIABLES
    clock,
    outputs,   \* the files: when each was written, and whether its temporary name is left
    links,     \* an entry, a tombstone (ended) or nothing (free) for every id
    marker,    \* when the last cleanup ended, -1 before the first
    work,      \* what each worker does
    faults,
    \* history
    used,      \* names given so far
    spared,    \* outputs whose links were not revoked with them
    torn       \* outputs whose publication was stopped before it was finished

vars == <<clock, outputs, links, marker, work, faults, used, spared, torn>>
history == <<used, spared, torn>>

Free == [state |-> "free"]
Ended == [state |-> "ended"]
Live(file, now) == [state |-> "live", file |-> file, created |-> now, expires |-> now + Lifetime]
IsLive(id) == links[id].state = "live"
Idle == [mode |-> "idle"]
Present(f) == outputs[f] # None

TypeOK ==
    /\ clock \in 0..MaxClock /\ marker \in -1..MaxClock /\ faults \in 0..MaxFaults
    /\ \A f \in Names : Present(f) => outputs[f].at \in 0..clock
    /\ \A id \in Ids : links[id].state \in {"free", "ended", "live"}
    /\ \A w \in Workers : work[w].mode \in {"idle", "named", "link", "resolve", "serve",
                                            "revoke", "clean", "sweep", "swept"}

Init ==
    /\ clock = 0 /\ marker = -1 /\ faults = 0
    /\ outputs = [f \in Names |-> None] /\ links = [id \in Ids |-> Free]
    /\ work = [w \in Workers |-> Idle]
    /\ used = {} /\ spared = {} /\ torn = {}

Does(w, mode) == work[w].mode = mode
To(w, state) == work' = [work EXCEPT ![w] = state]
Publishing(w, f) == Does(w, "named") /\ work[w].file = f
Fault == faults < MaxFaults /\ faults' = faults + 1

-----------------------------------------------------------------------------
(* Operators on the table of links *)

ExpiredByFile(entry, now) == entry.state = "live" /\ entry.created + Retention <= now
Expired(entry, now) == entry.state = "live" /\ entry.expires <= now
Without(table, gone) == [id \in Ids |-> IF id \in gone THEN Free ELSE table[id]]
\* Expired links end; beyond the cap, any tombstones are dropped.
Prunings(table, now) ==
    LET ended == [id \in Ids |-> IF Expired(table[id], now) THEN Ended ELSE table[id]]
        tombs == {id \in Ids : ended[id] = Ended}
        excess == Cardinality(tombs) - MaxTombstones
    IN  IF excess <= 0 THEN {ended} ELSE {Without(ended, gone) : gone \in kSubset(excess, tombs)}
RevokedNot(table, file) == table
Revoked(table, file) ==
    [id \in Ids |-> IF table[id].state = "live" /\ table[id].file = file
                    THEN Ended ELSE table[id]]

-----------------------------------------------------------------------------
(* A generation: publish under a new name, drop the temporary one, link. *)

Publish(w, f) ==
    /\ Does(w, "idle") /\ f \notin used
    /\ outputs' = [outputs EXCEPT ![f] = [at |-> clock, twice |-> TRUE]]
    /\ used' = used \cup {f}
    /\ To(w, [mode |-> "named", file |-> f])
    /\ UNCHANGED <<clock, links, marker, faults, spared, torn>>
DropTemporary(w) ==
    /\ Does(w, "named")
    /\ outputs' = IF Present(work[w].file) THEN [outputs EXCEPT ![work[w].file].twice = FALSE]
                  ELSE outputs
    /\ To(w, [mode |-> "link", file |-> work[w].file, now |-> clock])
    /\ UNCHANGED <<clock, links, marker, faults, history>>
\* create: the time was read before the lock was waited for.
Create(w) ==
    /\ Does(w, "link")
    /\ \E table \in Prunings(links, work[w].now) : \E id \in Ids :
         /\ table[id] = Free
         /\ links' = [table EXCEPT ![id] = Live(work[w].file, work[w].now)]
    /\ spared' = IF Present(work[w].file) THEN spared ELSE spared \cup {work[w].file}
    /\ To(w, Idle)
    /\ UNCHANGED <<clock, outputs, marker, faults, used, torn>>

\* /t/<id>: the time is read before the lock is waited for, and what is served is
\* looked up in the directory afterwards.
Ask(w, id) ==
    /\ Does(w, "idle") /\ IsLive(id)
    /\ To(w, [mode |-> "resolve", id |-> id, now |-> clock])
    /\ UNCHANGED <<clock, outputs, links, marker, faults, history>>
Resolve(w) ==
    /\ Does(w, "resolve")
    /\ LET entry == links[work[w].id]
           over == Expired(entry, work[w].now)
       IN  /\ links' = IF over THEN [links EXCEPT ![work[w].id] = Ended] ELSE links
           /\ To(w, IF entry.state = "live" /\ ~over
                    THEN [mode |-> "serve", file |-> entry.file] ELSE Idle)
    /\ UNCHANGED <<clock, outputs, marker, faults, history>>
Serve(w) ==
    /\ Does(w, "serve")
    /\ To(w, Idle)
    /\ UNCHANGED <<clock, outputs, links, marker, faults, history>>

-----------------------------------------------------------------------------
(* Deletion: of one output by its owner, or of the old ones by a cleanup. *)

RemoveFile(f) == outputs' = [outputs EXCEPT ![f] = None]
Delete(w, f) ==
    /\ Does(w, "idle") /\ Present(f)
    /\ RemoveFile(f)
    /\ To(w, [mode |-> "revoke", file |-> f, rest |-> Idle])
    /\ UNCHANGED <<clock, links, marker, faults, history>>

\* Throttled, and once more under the lock of the cleanup, by the same time.
Due(now) == marker = -1 \/ now - marker >= Interval
Cleaning(w) == \/ Does(w, "sweep") \/ Does(w, "swept")
               \/ Does(w, "revoke") /\ work[w].rest # Idle
ConsiderCleanup(w) ==
    /\ Does(w, "idle") /\ Due(clock)
    /\ To(w, [mode |-> "clean", now |-> clock])
    /\ UNCHANGED <<clock, outputs, links, marker, faults, history>>
BeginCleanup(w) ==
    /\ Does(w, "clean") /\ \A v \in Workers : ~Cleaning(v)
    /\ To(w, IF Due(work[w].now)
             THEN [mode |-> "sweep", now |-> work[w].now, seen |-> {f \in Names : Present(f)},
                   passed |-> {}, cut |-> FALSE]
             ELSE Idle)
    /\ UNCHANGED <<clock, outputs, links, marker, faults, history>>

\* Only files with one name and an age of at least the retention.
Old(f, now) == Present(f) /\ ~outputs[f].twice /\ now - outputs[f].at >= Retention
Sweep(w) ==
    /\ Does(w, "sweep") /\ work[w].seen # {}
    /\ \E f \in work[w].seen :
         LET passed == Present(f) /\ outputs[f].twice
             rest == [work[w] EXCEPT !.seen = @ \ {f}, !.passed = @ \cup IF passed THEN {f} ELSE {}]
         IN  IF Old(f, work[w].now)
             THEN RemoveFile(f) /\ To(w, [mode |-> "revoke", file |-> f, rest |-> rest])
             ELSE UNCHANGED outputs /\ To(w, rest)
    /\ UNCHANGED <<clock, links, marker, faults, history>>
\* The scan may run out of its entries or its time: it leaves the rest where it is,
\* and the cleanup goes on.
Exhaust(w) ==
    /\ Does(w, "sweep") /\ work[w].seen # {}
    /\ To(w, [work[w] EXCEPT !.seen = {}, !.cut = TRUE])
    /\ UNCHANGED <<clock, outputs, links, marker, faults, history>>
Revoke(w) ==
    /\ Does(w, "revoke")
    /\ links' = Revoked(links, work[w].file)
    /\ To(w, work[w].rest)
    /\ UNCHANGED <<clock, outputs, marker, faults, history>>
Prune(w) ==
    /\ Does(w, "sweep") /\ work[w].seen = {}
    /\ links' \in Prunings(links, work[w].now)
    /\ To(w, [work[w] EXCEPT !.mode = "swept"])
    /\ UNCHANGED <<clock, outputs, marker, faults, history>>
\* The marker's time is that of its writing.
Mark(w) ==
    /\ Does(w, "swept")
    /\ marker' = clock
    /\ To(w, Idle)
    /\ UNCHANGED <<clock, outputs, links, faults, history>>

\* The table cannot be read or written, or the worker is killed: whatever it was
\* about to do is not done.
Stop(w) ==
    /\ ~Does(w, "idle") /\ Fault
    /\ spared' = IF Does(w, "revoke") THEN spared \cup {work[w].file} ELSE spared
    /\ torn' = IF Does(w, "named") THEN torn \cup {work[w].file} ELSE torn
    /\ To(w, Idle)
    /\ UNCHANGED <<clock, outputs, links, marker, used>>

Tick ==
    /\ clock < MaxClock /\ clock' = clock + 1
    /\ UNCHANGED <<outputs, links, marker, work, faults, history>>

Next ==
    \/ \E w \in Workers :
         \/ \E f \in Names : Publish(w, f) \/ Delete(w, f)
         \/ DropTemporary(w) \/ Create(w)
         \/ \E id \in Ids : Ask(w, id)
         \/ Resolve(w) \/ Serve(w)
         \/ ConsiderCleanup(w) \/ BeginCleanup(w) \/ Sweep(w) \/ Exhaust(w)
         \/ Revoke(w) \/ Prune(w) \/ Mark(w) \/ Stop(w)
    \/ Tick

Spec == Init /\ [][Next]_vars

-----------------------------------------------------------------------------

\* Deleting an output ends its links: a link to a missing file is about to be
\* revoked, unless the revocation failed or the link was made after the deletion.
LinksEndWithOutput ==
    \A id \in Ids : IsLive(id) /\ ~Present(links[id].file) =>
        \/ links[id].file \in spared
        \/ \E w \in Workers : Does(w, "revoke") /\ work[w].file = links[id].file

\* A link ends, or its id is bound again, only because its time is over or its
\* output is gone, whatever times workers read before they waited for the lock.
LinksLiveTheirTime ==
    \A id \in Ids : IsLive(id) /\ links'[id] # links[id] =>
        links[id].expires <= clock \/ ~Present(links[id].file)

\* A link is served to no request that came when its lifetime was over, although
\* nothing ends a link at that time; and what a cleanup leaves alive was not over
\* when the cleanup read the time.
LinksEndInTime ==
    \A w \in Workers :
        /\ Does(w, "resolve") /\ Does(w, "serve")' =>
             /\ IsLive(work[w].id) /\ work'[w].file = links[work[w].id].file
             /\ work[w].now < links[work[w].id].created + Lifetime
        /\ Does(w, "sweep") /\ Does(w, "swept")' =>
             \A id \in Ids : IsLive(id)' => work[w].now < links'[id].created + Lifetime

\* An output goes by the hand of its owner or old and with its publication over,
\* by the clock and not only by the time the cleanup read before it waited.
OutputsLiveTheirTime ==
    \A f \in Names : Present(f) /\ ~Present(f)' =>
        \/ \E w \in Workers : Does(w, "idle") /\ Does(w, "revoke")' /\ work'[w].file = f
        \/ clock - outputs[f].at >= Retention /\ \A w \in Workers : ~Publishing(w, f)

\* A cleanup that ends without having been stopped, and whose scan was not cut
\* short, leaves no output that was old when it read the time, except those it
\* met with two names; and an output has two names only while it is published
\* or since its publication was stopped.  Those of the last kind stay for ever.
Completes(w) == Does(w, "swept") /\ Does(w, "idle")' /\ faults' = faults
RetentionHolds ==
    /\ \A w \in Workers : Completes(w) /\ ~work[w].cut =>
         \A f \in Names : Present(f) /\ work[w].now - outputs[f].at >= Retention =>
             f \in work[w].passed
    /\ \A f \in Names : Present(f) /\ outputs[f].twice =>
         f \in torn \/ \E w \in Workers : Publishing(w, f)

LinkTimes ==
    LinksLiveTheirTime /\ LinksEndInTime /\ OutputsLiveTheirTime /\ RetentionHolds
TimesHold == [][LinkTimes]_vars

=============================================================================
