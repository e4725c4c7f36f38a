---------------------------- MODULE AutoRefresh ----------------------------
(***************************************************************************)
(* The scheduled refresh of remote sources: core/auto_refresh.py,           *)
(* core/refresh_schedule.py and the source half of a save, prepare and      *)
(* configure of core/fixed_sources.py.                                      *)
(*                                                                         *)
(* The timer starts a scan.  The scan reads the whole registry once, picks  *)
(* the due sources, oldest first and at most Limit of them, and then works  *)
(* through the subscriptions it picked, fetching without any lock.  Every   *)
(* result is committed against the entry the scan saw.  Administrators save *)
(* forms, run source actions and manage subscriptions at the same time.     *)
(*                                                                         *)
(* What a commit writes to the disk is the subject of FixedStore; here it   *)
(* is one step that happens or does not.                                    *)
(***************************************************************************)
EXTENDS Integers, FiniteSets, Sequences, FiniteSetsExt

CONSTANTS
    Subs,       \* subscription ids, naturals: select_work breaks ties by id
    Sources,    \* rows of the source list
    Configs,    \* what decides the payload of a source: its URL and format
    None,       \* Python's None
    Intervals,  \* refresh_schedule.INTERVALS
    Backoff,    \* refresh_schedule.BACKOFF
    Limit,      \* MAX_DUE_SOURCES
    MaxClock,   \* bound on the clock
    MaxEpoch,   \* refresh_schedule.MAX_EPOCH
    Versions,   \* names of (revision, updated_at) pairs
    Start,      \* registries to start from
    Users,      \* what administrators do: a subset of {"form", "source", "manage"}
    Faults      \* a subset of {"stop"}: processes may be killed, writes fail

VARIABLES
    reg,        \* the registry: the entry of every subscription, or None
    clock,
    pc,         \* where the oneshot auto_refresh process is
    at,         \* when its scan read the registry
    work,       \* the entries it still has to refresh, as the scan read them
    cand,       \* the source list of its candidate
    blame,      \* the sources a failed candidate is recorded against
    web         \* the candidate a web process has ready, or None

vars == <<reg, clock, pc, at, work, cand, blame, web>>
jobvars == <<pc, at, work, cand, blame>>

-----------------------------------------------------------------------------
(* Types *)

\* payload is the configuration the last good bytes were fetched under, or None
\* when no fetch ever succeeded (last_success_at is None exactly then).  The
\* error code, warnings, node count and history are displayed only.
Source == [cfg: Configs, enabled: BOOLEAN,
           interval: Intervals \cup {None}, next: (0..MaxEpoch) \cup {None},
           fails: 0..Len(Backoff), cached: BOOLEAN,
           attempt: (0..MaxClock) \cup {None}, payload: Configs \cup {None}]
SourceList == [Sources -> Source \cup {None}]
Entry == [version: Versions, status: {"active", "disabled"}, src: SourceList]

\* What a form says of a row.
Ask == [cfg: Configs, enabled: BOOLEAN, interval: Intervals \cup {None}]

ASSUME TimeAssumption ==
    /\ Intervals \subseteq 1..MaxEpoch
    /\ Backoff \in Seq(1..MaxEpoch) /\ Backoff # <<>>
    /\ MaxClock \in Nat /\ MaxEpoch \in Nat /\ MaxClock <= MaxEpoch
ASSUME OrderAssumption == Subs \subseteq Nat
\* A state directory holds finitely many subscriptions, and each finitely many rows.
ASSUME FiniteAssumption == IsFiniteSet(Subs) /\ IsFiniteSet(Sources)
ASSUME LimitAssumption == Limit \in Nat \ {0}
ASSUME UsersAssumption == Users \subseteq {"form", "source", "manage"}
ASSUME NoneAssumption ==
    None \notin Configs \cup Intervals \cup (0..MaxEpoch) \cup Versions
                \cup Source \cup SourceList \cup Entry \cup Ask
\* updated_at tells every commit from the two a candidate may have started from.
ASSUME VersionAssumption ==
    \A u, v \in Versions \cup {None} : \E x \in Versions : x # u /\ x # v

TypeOK ==
    /\ reg \in [Subs -> Entry \cup {None}]
    /\ clock \in 0..MaxClock
    /\ pc \in {"idle", "run", "ready", "failed"}
    /\ at \in 0..MaxClock
    /\ work \in [Subs -> Entry \cup {None}]
    /\ cand \in SourceList \cup {None}
    /\ blame \in SUBSET Sources
    /\ web \in [key: Subs, old: Versions \cup {None}, status: {"active", "disabled"},
                src: SourceList] \cup {None}

Rows(src) == {i \in Sources : src[i] # None}
NoWork(keys) == [k \in keys |-> None]

Init ==
    /\ reg \in Start
    /\ clock = 0
    /\ pc = "idle" /\ at = 0 /\ work = NoWork(Subs) /\ cand = None /\ blame = {}
    /\ web = None

\* The identity of an entry: (revision, updated_at) differs after every commit.
VersionOf(e) == IF e = None THEN None ELSE e.version

\* One that no process will compare with.
NewVersion(k) ==
    CHOOSE v \in Versions : v # VersionOf(work[k]) /\ (web # None => v # web.old)

-----------------------------------------------------------------------------
(* refresh_schedule *)

Earliest(a, b) == IF a < b THEN a ELSE b

\* The delay after a success (no failures) or after the n-th failure in a row.
Delay(s) == IF s.fails = 0 THEN s.interval ELSE Backoff[s.fails]

\* The counter stops at the length of Backoff, where the delay stops growing
\* (the code's own cap is 10^9).
Counted(s) == Earliest(s.fails + 1, Len(Backoff))

\* next_refresh_at is set from whatever the attempt made of the counter.
Rescheduled(s, now) ==
    [s EXCEPT !.attempt = now,
              !.next = IF s.interval = None THEN None ELSE Earliest(now + Delay(s), MaxEpoch)]

RecordSuccess(s, now) ==
    Rescheduled([s EXCEPT !.cached = FALSE, !.fails = 0], now)
RecordFailureSameTime(s, now) == [s EXCEPT !.attempt = now]
RecordFailure(s, now) ==
    Rescheduled([s EXCEPT !.fails = IF s.interval = None THEN 0 ELSE Counted(s)], now)

\* Turning the interval Off clears the schedule; any other change leaves the
\* next time to the attempt that the save makes.
ConfigureKeeps(s, interval) == [s EXCEPT !.interval = interval]
Configure(s, interval) ==
    IF interval = None
    THEN [s EXCEPT !.interval = None, !.next = None, !.fails = 0]
    ELSE [s EXCEPT !.interval = interval]

Due(e, i, now) ==
    /\ e # None /\ e.status = "active" /\ i \in Rows(e.src)
    /\ LET s == e.src[i]
       IN  s.enabled /\ s.interval # None /\ (s.next = None \/ s.next <= now)

DueRows(e, now) == {i \in Sources : Due(e, i, now)}

-----------------------------------------------------------------------------
(* fixed_sources *)

\* configure: the rows of a form.  A known row keeps its history, a new one
\* starts empty.
NewRow(a) == [cfg |-> a.cfg, enabled |-> a.enabled, interval |-> None, next |-> None,
              fails |-> 0, cached |-> FALSE, attempt |-> None, payload |-> None]
Requested(s, a) ==
    Configure(IF s = None THEN NewRow(a)
              ELSE [s EXCEPT !.cfg = a.cfg, !.enabled = a.enabled], a.interval)

\* prepare, one row: s is the requested row, before what is stored now, fetch
\* whether a refresh of it was asked for, ok whether fetch and parse succeed.
Changed(s, before) == before = None \/ s.cfg # before.cfg
Fetches(s, before, fetch) == s.enabled /\ (fetch \/ Changed(s, before))

FallsBackAlways(s, before) == s.payload # None
FallsBack(s, before) == s.payload # None /\ ~Changed(s, before)

\* A disabled row may not change its URL or format: nothing would certify the
\* old bytes for the new configuration.
RefusesChange(s, before) == ~s.enabled /\ before # None /\ Changed(s, before)
\* An enabled row that is not fetched needs its stored bytes.
Refuses(s, before, fetch, ok) ==
    \/ RefusesChange(s, before)
    \/ Fetches(s, before, fetch) /\ ~ok /\ ~FallsBack(s, before)
    \/ s.enabled /\ ~Fetches(s, before, fetch) /\ s.payload = None

Prepared(s, before, fetch, ok, now) ==
    IF ~Fetches(s, before, fetch) THEN s
    ELSE IF ok THEN RecordSuccess([s EXCEPT !.payload = s.cfg], now)
    ELSE RecordFailure([s EXCEPT !.cached = TRUE], now)

\* The candidates of a request: rows asked for, rows to fetch, rows whose fetch
\* succeeds.  A candidate exists only if no row refuses.
Target(src, asked) ==
    [i \in Sources |-> IF asked[i] = None THEN None ELSE Requested(src[i], asked[i])]
Refusing(src, asked, fetch, ok) ==
    {i \in Sources : asked[i] # None /\
        Refuses(Target(src, asked)[i], src[i], i \in fetch, i \in ok)}
Candidate(src, asked, fetch, ok) ==
    [i \in Sources |-> IF asked[i] = None THEN None
                       ELSE Prepared(Target(src, asked)[i], src[i], i \in fetch, i \in ok, clock)]

\* A request that leaves every row as it is.
Unasked(src) ==
    [i \in Sources |-> IF src[i] = None THEN None
                       ELSE [cfg |-> src[i].cfg, enabled |-> src[i].enabled,
                             interval |-> src[i].interval]]

-----------------------------------------------------------------------------
(* The scan *)

\* select_work: subscriptions in the order of their longest due source (a
\* schedule never set counts as 0), then of their ids.
Oldest(e, now) == Min({IF e.src[i].next = None THEN 0 ELSE e.src[i].next : i \in DueRows(e, now)})
Groups(now) == {k \in Subs : DueRows(reg[k], now) # {}}
Precedes(es, j, k, now) ==
    \/ Oldest(es[j], now) < Oldest(es[k], now)
    \/ Oldest(es[j], now) = Oldest(es[k], now) /\ j < k

\* Subscriptions are taken whole, in order, until the next one would pass the
\* limit; the first is taken whatever its size.
Ahead(k, now) == {j \in Groups(now) : Precedes(reg, j, k, now)}
Fits(ks, now) == MapThenSumSet(LAMBDA j : Cardinality(DueRows(reg[j], now)), ks) <= Limit
SelectedJumping(now) == {k \in Groups(now) : Fits({k}, now)}
Selected(now) ==
    {k \in Groups(now) : Ahead(k, now) = {} \/ Fits(Ahead(k, now) \cup {k}, now)}

\* The registry is read without keeping its lock.
Scan ==
    /\ pc = "idle"
    /\ Groups(clock) # {}
    /\ pc' = "run"
    /\ at' = clock
    /\ work' = [k \in Subs |-> IF k \in Selected(clock) THEN reg[k] ELSE None]
    /\ UNCHANGED <<reg, clock, cand, blame, web>>

\* The group the loop of run_once is at.
Pending == {k \in Subs : work[k] # None}
Current == CHOOSE k \in Pending : \A j \in Pending \ {k} : Precedes(work, k, j, at)

\* What every commit asks of the entry it is about to replace.
UnmovedExists(k, version) ==
    IF reg[k] = None THEN version = None ELSE version # None /\ Rows(reg[k].src) # {}
Unmoved(k, version) == VersionOf(reg[k]) = version
Same == Unmoved(Current, work[Current].version)

\* On to the next group.  After the last one the process delivers its
\* notifications and exits.
Advance(left) ==
    /\ work' = left
    /\ cand' = None /\ blame' = {}
    /\ IF left = NoWork(Subs) THEN pc' = "idle" /\ at' = 0 ELSE pc' = "run" /\ UNCHANGED at
Drop == Advance([work EXCEPT ![Current] = None])
Exit == Advance(NoWork(Subs))

\* refresh_sources up to the second lock: fetch the due rows of the entry the
\* scan saw.  A row that refuses names itself; the aggregation and the generator
\* refuse on behalf of all.
Fetch ==
    /\ pc = "run"
    /\ LET e == work[Current]
           due == DueRows(e, at)
       IN  \/ Same /\ \E ok \in SUBSET due :
                LET no == Refusing(e.src, Unasked(e.src), due, ok)
                IN  IF no = {}
                    THEN \/ /\ cand' = Candidate(e.src, Unasked(e.src), due, ok)
                            /\ pc' = "ready"
                            /\ UNCHANGED <<at, work, blame>>
                         \/ /\ blame' = due
                            /\ pc' = "failed"
                            /\ UNCHANGED <<at, work, cand>>
                    ELSE /\ \E i \in no : blame' = IF Fetches(e.src[i], e.src[i], i \in due)
                                                   THEN {i} ELSE due
                         /\ pc' = "failed"
                         /\ UNCHANGED <<at, work, cand>>
           \/ ~Same /\ Drop
    /\ UNCHANGED <<reg, clock, web>>

\* The second lock of save.
Commit ==
    /\ pc = "ready"
    /\ \/ /\ Same
          /\ reg' = [reg EXCEPT ![Current].src = cand, ![Current].version = NewVersion(Current)]
       \/ ~Same /\ UNCHANGED reg
    /\ Drop
    /\ UNCHANGED <<clock, web>>

\* record_refresh_error, with its own look at the clock.
Blamed(s) == RecordFailure([s EXCEPT !.cached = s.payload # None], clock)
RecordError ==
    /\ pc = "failed"
    /\ \/ /\ Same
          /\ reg' = [reg EXCEPT
                ![Current].src = [i \in Sources |-> IF i \in blame \cap Rows(@) THEN Blamed(@[i])
                                                     ELSE @[i]],
                ![Current].version = NewVersion(Current)]
       \/ ~Same /\ UNCHANGED reg
    /\ Drop
    /\ UNCHANGED <<clock, web>>

\* A disk error ends the run, and so does a kill; the groups it had not reached
\* stay as they are.
Stop ==
    /\ "stop" \in Faults
    /\ pc # "idle"
    /\ Exit
    /\ UNCHANGED <<reg, clock, web>>

-----------------------------------------------------------------------------
(* Administrators *)

\* A form fetches every enabled row; a source action only what it names.
FormFetchNothing == {}
FormFetch == Sources
Requests(src) ==
    LET same == Unasked(src)
        on == {i \in Rows(src) : src[i].enabled}
        named == {<<same, {i}>> : i \in on}
              \cup {<<[same EXCEPT ![i] = None], {}>> : i \in Rows(src)}
              \cup {<<[same EXCEPT ![i].enabled = TRUE], {i}>> : i \in Rows(src)}
              \cup {<<[same EXCEPT ![i].enabled = FALSE], {}>> : i \in Rows(src)}
    IN  {q \in {<<asked, FormFetch>> : asked \in [Sources -> Ask \cup {None}]} : "form" \in Users}
        \cup {q \in named \cup {<<same, on>>} : "source" \in Users}

\* A form or a source action reads the entry, or none to create one, and makes
\* its candidate.  Both are one step: if the entry moves in between the candidate
\* is dropped at the first lock.
Build(k) ==
    /\ web = None
    /\ LET src == IF reg[k] = None THEN [i \in Sources |-> None] ELSE reg[k].src
       IN  \E q \in Requests(src), ok \in SUBSET Sources :
             /\ ok \subseteq {i \in Sources : q[1][i] # None}
             /\ Refusing(src, q[1], q[2], ok) = {}
             /\ web' = [key |-> k, old |-> VersionOf(reg[k]),
                        status |-> IF reg[k] = None THEN "active" ELSE reg[k].status,
                        src |-> Candidate(src, q[1], q[2], ok)]
    /\ UNCHANGED <<reg, clock, jobvars>>

Save ==
    /\ web # None
    /\ \/ /\ Unmoved(web.key, web.old)
          /\ reg' = [reg EXCEPT ![web.key] =
                [version |-> NewVersion(web.key), status |-> web.status, src |-> web.src]]
       \/ ~Unmoved(web.key, web.old) /\ UNCHANGED reg
       \/ "stop" \in Faults /\ UNCHANGED reg
    /\ web' = None
    /\ UNCHANGED <<clock, jobvars>>

\* enable, disable, delete; regenerate and a cached reconciliation move only
\* the version.
Managed(k, act) ==
    CASE act = "delete" -> None
      [] act \in {"active", "disabled"} ->
            [reg[k] EXCEPT !.version = NewVersion(k), !.status = act]
      [] OTHER -> [reg[k] EXCEPT !.version = NewVersion(k)]
Manage(k, act) ==
    /\ "manage" \in Users
    /\ reg[k] # None
    /\ reg' = [reg EXCEPT ![k] = Managed(k, act)]
    /\ UNCHANGED <<clock, jobvars, web>>

Tick ==
    /\ clock < MaxClock
    /\ clock' = clock + 1
    /\ UNCHANGED <<reg, jobvars, web>>

Job == Scan \/ Fetch \/ Commit \/ RecordError
Admin ==
    \/ \E k \in Subs :
         \/ Build(k)
         \/ \E act \in {"delete", "active", "disabled", "touch"} : Manage(k, act)
    \/ Save
Next == Job \/ Stop \/ Admin \/ Tick

Spec == Init /\ [][Next]_vars

\* The timer starts the job again and again, and every fetch has a time limit.
FairSpec == Spec /\ WF_vars(Job) /\ WF_vars(Tick)

=============================================================================
