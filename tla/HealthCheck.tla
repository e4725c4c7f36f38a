---------------------------- MODULE HealthCheck ----------------------------
(***************************************************************************)
(* Node and proxy health checks: core/node_health.py, core/proxy_health.py, *)
(* core/health_schedule.py and the scanner core/auto_health.py.             *)
(*                                                                         *)
(* A check reads the auxiliary health entry of a subscription, releases     *)
(* every lock, probes for seconds to minutes, and then commits what it saw  *)
(* unless the subscription, its settings or its observations moved in the   *)
(* meantime.  Web processes check on demand; the timer's scanner checks     *)
(* what is due.  Administrators change settings and targets meanwhile, and  *)
(* the source refresh publishes new revisions.                              *)
(***************************************************************************)
EXTENDS Integers, FiniteSets, Sequences

CONSTANTS
    Web,          \* processes that run manual checks
    Scanner,      \* the oneshot auto_health process
    Subs,         \* subscription ids, naturals: the scanner breaks ties by id
    Fingerprints, \* node identities
    NodesOf,      \* the nodes of the n-th revision of a subscription
    Targets,      \* proxy probe settings (URL, expected status, timeout)
    None,         \* Python's None
    Interval,     \* the configured check interval
    Backoff,      \* health_schedule.BACKOFF: delays of repeated failures
    Retry,        \* the delay after "busy" and "conflict"
    Limit,        \* MAX_ENDPOINT_JOBS or MAX_PROXY_JOBS
    MaxClock,     \* bound on the clock
    MaxEpoch,     \* refresh_schedule.MAX_EPOCH
    MaxRevision,  \* bound on published revisions
    MaxCheck,     \* the last check_revision, 2^63 - 1: advance refuses to pass it
    Faults        \* a subset of {"crash", "io"}

VARIABLES
    reg,     \* the registry: revision number and status, or None
    aux,     \* the health entry of every subscription, or None
    global,  \* the probe target of the entries without an override; None in NodeHealth
    job,     \* the process that holds proxy_probe.lock, or None
    clock,
    pc, key, rev, exp, expGlobal, outcome,  \* the locals of every check
    queue,   \* the subscriptions the running scan still has to check
    about    \* history: the target the stored observations were measured with

vars == <<reg, aux, global, job, clock, pc, key, rev, exp, expGlobal, outcome,
          queue, about>>
state == <<reg, aux, global, clock, about>>
locals == <<key, rev, exp, expGlobal, outcome>>

\* The two observers share their schedule; one behaviour is about one of them.
Kind == IF global = None THEN "endpoint" ELSE "proxy"

Procs == Web \cup {Scanner}
Trigger(w) == IF w = Scanner THEN "auto" ELSE "manual"
Revisions == 1..MaxRevision
Threshold == 3

-----------------------------------------------------------------------------
(* Types *)

\* Counts from Threshold on behave alike.
Observation ==
    [status: {"healthy", "suspect", "unhealthy", "unsupported"}, count: 0..Threshold]

\* last_trigger and last_job_result are displayed only and left out.
HEntry == [mode: {"off", "manual", "automatic"},
           next: 0..MaxEpoch \cup {None},
           failures: 0..Len(Backoff),
           check: 0..MaxCheck,
           override: Targets \cup {None},
           at: 0..MaxClock \cup {None},
           nodes: UNION {[F -> Observation] : F \in SUBSET Fingerprints}]

ASSUME ScannerAssumption == Scanner \notin Web
ASSUME SubsAssumption == Subs \subseteq Nat /\ IsFiniteSet(Subs)
ASSUME NoneAssumption == None \notin Targets \cup Nat \cup HEntry
ASSUME NodesAssumption == NodesOf \in [Revisions -> SUBSET Fingerprints]
ASSUME TimeAssumption ==
    /\ {Interval, Retry, Limit, MaxClock, MaxEpoch, MaxRevision} \subseteq Nat \ {0}
    /\ MaxCheck \in Nat
    /\ MaxClock <= MaxEpoch
    /\ Backoff \in Seq(Nat \ {0}) /\ Backoff # <<>>

Empty == [mode |-> "off", next |-> None, failures |-> 0, check |-> 0,
          override |-> None, at |-> None, nodes |-> <<>>]
Entry(k) == IF aux[k] = None THEN Empty ELSE aux[k]

Labels == {"idle", "read", "snapshot", "job", "probe", "commit",
           "error", "busy", "conflict"}

TypeOK ==
    /\ reg \in [Subs -> [rev: Revisions, status: {"active", "disabled"}] \cup {None}]
    /\ aux \in [Subs -> HEntry \cup {None}]
    /\ global \in Targets \cup {None}
    /\ job \in Procs \cup {None}
    /\ clock \in 0..MaxClock
    /\ pc \in [Procs -> Labels]
    /\ key \in [Procs -> Subs \cup {None}]
    /\ rev \in [Procs -> Revisions \cup {None}]
    /\ exp \in [Procs -> HEntry \cup {None}]
    /\ expGlobal \in [Procs -> Targets \cup {None}]
    /\ outcome \in [Procs -> {None} \cup
                      UNION {[F -> {"success", "failure", "unsupported"}] :
                               F \in SUBSET Fingerprints}]
    /\ queue \in Seq(Subs)
    /\ about \in [Subs -> Targets \cup {None}]

Init ==
    /\ reg = [k \in Subs |-> [rev |-> 1, status |-> "active"]]
    /\ aux = [k \in Subs |-> None]
    /\ global \in Targets \cup {None}
    /\ job = None
    /\ clock = 0
    /\ pc = [w \in Procs |-> "idle"]
    /\ key = [w \in Procs |-> None]
    /\ rev = [w \in Procs |-> None]
    /\ exp = [w \in Procs |-> None]
    /\ expGlobal = [w \in Procs |-> None]
    /\ outcome = [w \in Procs |-> None]
    /\ queue = <<>>
    /\ about = [k \in Subs |-> None]

Goto(w, label) == pc' = [pc EXCEPT ![w] = label]

Finish(w) ==
    /\ Goto(w, "idle")
    /\ key' = [key EXCEPT ![w] = None]
    /\ rev' = [rev EXCEPT ![w] = None]
    /\ exp' = [exp EXCEPT ![w] = None]
    /\ expGlobal' = [expGlobal EXCEPT ![w] = None]
    /\ outcome' = [outcome EXCEPT ![w] = None]

\* A job-level failure: the scanner goes on to record it, a manual check
\* reports it and changes nothing.
Fail(w, result) ==
    IF w = Scanner THEN Goto(w, result) /\ UNCHANGED locals ELSE Finish(w)

-----------------------------------------------------------------------------
(* health_schedule *)

Later(at, seconds) == IF at + seconds > MaxEpoch THEN MaxEpoch ELSE at + seconds

Due(e, now) == e.mode = "automatic" /\ e.next <= now

Allowed(e, trigger, now) ==
    \/ trigger = "manual" /\ e.mode \in {"manual", "automatic"}
    \/ trigger = "auto" /\ Due(e, now)

\* configure: the schedule restarts when the mode or the target changes (the
\* model has one interval); every change advances check_revision.
ConfiguredKeepsFailures(e, mode, reset) ==
    LET changed == reset \/ e.mode # mode
    IN  [e EXCEPT
           !.mode = mode,
           !.check = IF changed THEN @ + 1 ELSE @,
           !.next = IF mode # "automatic" THEN None
                    ELSE IF changed THEN Later(clock, Interval) ELSE @]
Configured(e, mode, reset) ==
    LET changed == reset \/ e.mode # mode
    IN  [e EXCEPT
           !.mode = mode,
           !.check = IF changed THEN @ + 1 ELSE @,
           !.next = IF mode # "automatic" THEN None
                    ELSE IF changed THEN Later(clock, Interval) ELSE @,
           !.failures = IF mode = "automatic" /\ ~changed THEN @ ELSE 0]

\* record: a completed check restarts the interval; only a real failure of the
\* job itself counts and backs off, "busy" and "conflict" retry soon.
RecordedSuccess(e) ==
    [e EXCEPT !.check = @ + 1, !.failures = 0,
              !.next = IF e.mode = "automatic" THEN Later(clock, Interval) ELSE @]
RecordedCountsAll(e, result) ==
    LET n == IF e.failures < Len(Backoff) THEN e.failures + 1 ELSE e.failures
    IN  [e EXCEPT !.failures = n, !.next = Later(clock, Backoff[n])]
RecordedSameTime(e, result) ==
    IF result \in {"busy", "conflict"} THEN e
    ELSE [e EXCEPT !.failures = IF @ < Len(Backoff) THEN @ + 1 ELSE @]
Recorded(e, result) ==
    LET n == IF e.failures < Len(Backoff) THEN e.failures + 1 ELSE e.failures
    IN  IF result \in {"busy", "conflict"}
        THEN [e EXCEPT !.next = Later(clock, Retry)]
        ELSE [e EXCEPT !.failures = n, !.next = Later(clock, Backoff[n])]

\* same_check_state: everything but the retry bookkeeping.
SameCheckStateSettings(e, f) == e.mode = f.mode /\ e.override = f.override
SameCheckState(e, f) ==
    [e EXCEPT !.next = None, !.failures = 0] = [f EXCEPT !.next = None, !.failures = 0]

\* The target an entry is probed with (NodeHealth has none).
Target(e, g) == IF e.override = None THEN g ELSE e.override

\* What one more probe makes of a node's record.
Observed(old, result) ==
    LET count == IF old.count < Threshold THEN old.count + 1 ELSE Threshold
    IN  CASE result = "success" -> [status |-> "healthy", count |-> 0]
          [] result = "unsupported" -> [old EXCEPT !.status = "unsupported"]
          [] result = "failure" ->
               [status |-> IF count < Threshold THEN "suspect" ELSE "unhealthy",
                count |-> count]

Unknown == [status |-> "unknown", count |-> 0]
Records(e, results) ==
    [f \in DOMAIN results |->
        Observed(IF f \in DOMAIN e.nodes THEN e.nodes[f] ELSE Unknown, results[f])]

\* _prune drops the entries of subscriptions that are not registered.
Pruned == [k \in Subs |-> IF reg[k] = None THEN None ELSE aux[k]]

\* _commit(new): written; or an error whose rollback worked; or an error whose
\* rollback failed as well, so that the new file stays although it is reported
\* as not saved.
Written(new) == aux' = new
NotSaved(new) == "io" \in Faults /\ aux' \in {aux, new}

-----------------------------------------------------------------------------
(* check *)

\* A manual check first snapshots the selected revision.
ManualStart(w, k) ==
    /\ w \in Web /\ pc[w] = "idle"
    /\ reg[k] # None
    /\ Goto(w, "read")
    /\ key' = [key EXCEPT ![w] = k]
    /\ rev' = [rev EXCEPT ![w] = reg[k].rev]
    /\ UNCHANGED <<state, job, exp, expGlobal, outcome, queue>>

\* select_work: the active due subscriptions, oldest first, at most Limit.
Earlier(j, k) ==
    \/ aux[j].next < aux[k].next
    \/ aux[j].next = aux[k].next /\ j < k
Ready == {k \in Subs : /\ reg[k] # None /\ reg[k].status = "active"
                       /\ aux[k] # None /\ Due(aux[k], clock)}
Selected ==
    LET number == IF Cardinality(Ready) < Limit THEN Cardinality(Ready) ELSE Limit
    IN  {s \in [1..number -> Ready] :
            /\ \A i, j \in 1..number : i < j => Earlier(s[i], s[j])
            /\ \A k \in Ready : \/ \E i \in 1..number : s[i] = k
                               \/ \A i \in 1..number : Earlier(s[i], k)}

\* The scanner holds auto_health.lock for the whole scan.
Scan ==
    /\ pc[Scanner] = "idle" /\ queue = <<>>
    /\ Ready # {}
    /\ queue' \in Selected
    /\ UNCHANGED <<state, job, pc, locals>>

AutoStart ==
    /\ pc[Scanner] = "idle" /\ queue # <<>>
    /\ Goto(Scanner, "read")
    /\ key' = [key EXCEPT ![Scanner] = Head(queue)]
    /\ queue' = Tail(queue)
    /\ UNCHANGED <<state, job, rev, exp, expGlobal, outcome>>

\* The entry and the global target are read under the auxiliary lock.
ReadExpected(w) ==
    /\ pc[w] = "read"
    /\ LET e == Entry(key[w])
       IN  IF Allowed(e, Trigger(w), clock)
           THEN /\ Goto(w, IF w = Scanner THEN "snapshot" ELSE "job")
                /\ exp' = [exp EXCEPT ![w] = e]
                /\ expGlobal' = [expGlobal EXCEPT ![w] = global]
                /\ UNCHANGED <<key, rev, outcome>>
           ELSE Finish(w)
    /\ UNCHANGED <<state, job, queue>>

\* The scanner snapshots the revision after it read the entry; a subscription
\* disabled since the selection fails like any other error.
AutoSnapshot ==
    /\ pc[Scanner] = "snapshot"
    /\ LET k == key[Scanner]
       IN  \/ reg[k] = None /\ Finish(Scanner)
           \/ reg[k] # None /\ reg[k].status # "active" /\ Fail(Scanner, "error")
           \/ /\ reg[k] # None /\ reg[k].status = "active"
              /\ rev' = [rev EXCEPT ![Scanner] = reg[k].rev]
              /\ Goto(Scanner, "job")
              /\ UNCHANGED <<key, exp, expGlobal, outcome>>
    /\ UNCHANGED <<state, job, queue>>

\* proxy_probe.lock is taken without waiting.
TakeJob(w) ==
    /\ pc[w] = "job"
    /\ \/ Kind = "endpoint" /\ Goto(w, "probe") /\ UNCHANGED <<job, locals>>
       \/ Kind = "proxy" /\ job = None /\ job' = w /\ Goto(w, "probe") /\ UNCHANGED locals
       \/ Kind = "proxy" /\ job # None /\ Fail(w, "busy") /\ UNCHANGED job
    /\ UNCHANGED <<state, queue>>

ReleaseJob(w) == job' = IF job = w THEN None ELSE job

\* The network probe of every node, without a state lock.
Results(w) ==
    [NodesOf[rev[w]] -> IF Kind = "endpoint" THEN {"success", "failure"}
                        ELSE {"success", "failure", "unsupported"}]
Probe(w) ==
    /\ pc[w] = "probe"
    /\ \E r \in Results(w) : outcome' = [outcome EXCEPT ![w] = r]
    /\ Goto(w, "commit")
    /\ UNCHANGED <<state, job, key, rev, exp, expGlobal, queue>>

\* No engine, an unreachable controller, too many nodes: no observation.
ProbeFails(w) ==
    /\ pc[w] = "probe"
    /\ Fail(w, "error")
    /\ ReleaseJob(w)
    /\ UNCHANGED <<state, queue>>

CurrentUnguarded(w) ==
    /\ SameCheckState(Entry(key[w]), exp[w])
    /\ Kind = "proxy" => global = expGlobal[w]
Current(w) ==
    LET k == key[w]
    IN  /\ reg[k] # None /\ reg[k].rev = rev[w]
        /\ w = Scanner => reg[k].status = "active"
        /\ SameCheckState(Entry(k), exp[w])
        /\ Kind = "proxy" => global = expGlobal[w]

\* advance refuses to pass the last revision.
Exhausted(w) == exp[w].check = MaxCheck

Completed(w) ==
    RecordedSuccess([exp[w] EXCEPT !.at = clock, !.nodes = Records(exp[w], outcome[w])])

\* Under the Fixed and the auxiliary lock.
CommitCheck(w) ==
    /\ pc[w] = "commit"
    /\ LET k == key[w]
           new == [Pruned EXCEPT ![k] = Completed(w)]
           told == [about EXCEPT ![k] = Target(exp[w], expGlobal[w])]
       IN  \/ ~Current(w) /\ Fail(w, "conflict") /\ UNCHANGED <<aux, about>>
           \/ /\ Current(w) /\ Exhausted(w)
              /\ Fail(w, "error") /\ UNCHANGED <<aux, about>>
           \/ /\ Current(w) /\ ~Exhausted(w)
              /\ Written(new) /\ about' = told /\ Finish(w)
           \/ /\ Current(w) /\ ~Exhausted(w)
              /\ NotSaved(new) /\ Fail(w, "error")
              /\ about' = IF aux' = aux THEN about ELSE told
    /\ ReleaseJob(w)
    /\ UNCHANGED <<reg, global, clock, queue>>

\* _record_failed_job: only while everything is as the failed job read it.
Unmoved ==
    LET k == key[Scanner]
    IN  /\ reg[k] # None /\ reg[k].status = "active"
        /\ aux[k] = exp[Scanner] /\ aux[k].mode = "automatic"
        /\ Kind = "proxy" => global = expGlobal[Scanner]

RecordFailedJob ==
    /\ pc[Scanner] \in {"error", "busy", "conflict"}
    /\ LET k == key[Scanner]
           new == [aux EXCEPT ![k] = Recorded(exp[Scanner], pc[Scanner])]
       IN  \/ Unmoved /\ (Written(new) \/ NotSaved(new))
           \/ ~Unmoved /\ UNCHANGED aux
    /\ Finish(Scanner)
    /\ UNCHANGED <<reg, global, job, clock, queue, about>>

-----------------------------------------------------------------------------
(* Administration *)

\* The entry settings writes: a new target drops the observations.
NewSettings(k, mode, override) ==
    LET e == Entry(k)
        moved == Kind = "proxy" /\ Target(e, global) # Target([e EXCEPT !.override = override], global)
        f == IF moved THEN [e EXCEPT !.nodes = <<>>, !.at = None] ELSE e
    IN  [Configured(f, mode, moved) EXCEPT !.override = override]

Settings(k, mode, override) ==
    /\ reg[k] # None
    /\ override # None => Kind = "proxy"
    /\ NewSettings(k, mode, override).check <= MaxCheck
    /\ LET new == [Pruned EXCEPT ![k] = NewSettings(k, mode, override)]
       IN  Written(new) \/ NotSaved(new)
    /\ UNCHANGED <<reg, global, job, clock, pc, locals, queue, about>>

\* The new global target drops the observations of every entry that uses it.
\* Both are in one file: a failed write changes both or none.
ResetNothing(t) == aux
ResetAll(t) ==
    [k \in Subs |->
        IF aux[k] # None /\ global # t
        THEN IF aux[k].override = None
             THEN Configured([aux[k] EXCEPT !.nodes = <<>>, !.at = None], aux[k].mode, TRUE)
             ELSE aux[k]
        ELSE aux[k]]
SetGlobal(t) ==
    /\ Kind = "proxy"
    /\ \A k \in Subs : aux[k] # None => ResetAll(t)[k].check <= MaxCheck
    /\ global' = t /\ aux' = ResetAll(t)
    /\ UNCHANGED <<reg, job, clock, pc, locals, queue, about>>

\* describe prunes, and writes only if there was something to prune.
Describe ==
    /\ Pruned # aux
    /\ Written(Pruned) \/ NotSaved(Pruned)
    /\ UNCHANGED <<reg, global, job, clock, pc, locals, queue, about>>

\* remove after a deletion: best effort, it does not wait for the lock.
Remove(k) ==
    /\ reg[k] = None /\ aux[k] # None
    /\ LET new == [aux EXCEPT ![k] = None]
       IN  Written(new) \/ NotSaved(new)
    /\ UNCHANGED <<reg, global, job, clock, pc, locals, queue, about>>

-----------------------------------------------------------------------------
(* The registry, the clock, crashes *)

Publish(k) ==
    /\ reg[k] # None /\ reg[k].rev < MaxRevision
    /\ reg' = [reg EXCEPT ![k].rev = @ + 1]
    /\ UNCHANGED <<aux, global, job, clock, pc, locals, queue, about>>

Toggle(k) ==
    /\ reg[k] # None
    /\ reg' = [reg EXCEPT ![k].status = IF @ = "active" THEN "disabled" ELSE "active"]
    /\ UNCHANGED <<aux, global, job, clock, pc, locals, queue, about>>

Delete(k) ==
    /\ reg[k] # None
    /\ reg' = [reg EXCEPT ![k] = None]
    /\ UNCHANGED <<aux, global, job, clock, pc, locals, queue, about>>

Tick ==
    /\ clock < MaxClock
    /\ clock' = clock + 1
    /\ UNCHANGED <<reg, aux, global, job, pc, locals, queue, about>>

\* SIGTERM, the start limit of the service or a killed worker.
Crash(w) ==
    /\ "crash" \in Faults
    /\ pc[w] # "idle"
    /\ Finish(w)
    /\ ReleaseJob(w)
    /\ queue' = IF w = Scanner THEN <<>> ELSE queue
    /\ UNCHANGED state

Step(w) ==
    \/ ReadExpected(w) \/ TakeJob(w) \/ Probe(w) \/ ProbeFails(w) \/ CommitCheck(w)
ScannerStep == Step(Scanner) \/ AutoStart \/ AutoSnapshot \/ RecordFailedJob

Admin ==
    \/ Describe
    \/ \E t \in Targets : SetGlobal(t)
    \/ \E k \in Subs :
         \/ Remove(k) \/ Publish(k) \/ Toggle(k) \/ Delete(k)
         \/ \E mode \in {"off", "manual", "automatic"}, o \in Targets \cup {None} :
              Settings(k, mode, o)

Next ==
    \/ Admin \/ Tick \/ Scan \/ ScannerStep
    \/ \E w \in Web : Step(w) \/ \E k \in Subs : ManualStart(w, k)
    \/ \E w \in Procs : Crash(w)

Spec == Init /\ [][Next]_vars

\* The timer starts scans, probes are bounded by timeouts, and the short locked
\* sections end.
Fairness ==
    /\ WF_vars(Scan) /\ WF_vars(ScannerStep)
    /\ \A w \in Web : WF_vars(Step(w))
FairSpec == Spec /\ Fairness

=============================================================================
