------------------------- MODULE HealthCheckProofs -------------------------
(***************************************************************************)
(* The health checks keep their promises for any number of processes,        *)
(* subscriptions, nodes and targets, and all faults.                         *)
(*                                                                         *)
(* A step changes the entries in one of six ways (StepHasEffect).  What a     *)
(* check carries from its first to its last step (Carries) is what makes     *)
(* the comparison of its commit sufficient.                                  *)
(***************************************************************************)
EXTENDS HealthCheckProperties, FiniteSetTheorems, TLAPS

-----------------------------------------------------------------------------
(* Entries *)

Outcomes == UNION {[F -> {"success", "failure", "unsupported"}] : F \in SUBSET Fingerprints}
NodesType == UNION {[F -> Observation] : F \in SUBSET Fingerprints}

LEMMA NoNodes == <<>> \in NodesType
<1>1. <<>> \in [{} -> Observation] OBVIOUS
<1> QED BY <1>1 DEF NodesType

LEMMA IsEntry ==
    ASSUME NEW mode \in {"off", "manual", "automatic"}, NEW next \in 0..MaxEpoch \cup {None},
           NEW failures \in 0..Len(Backoff), NEW check \in 0..MaxCheck,
           NEW override \in Targets \cup {None}, NEW at \in 0..MaxClock \cup {None},
           NEW nodes \in NodesType
    PROVE  [mode |-> mode, next |-> next, failures |-> failures, check |-> check,
            override |-> override, at |-> at, nodes |-> nodes] \in HEntry
BY DEF HEntry, NodesType

LEMMA EntryFields ==
    ASSUME NEW e \in HEntry
    PROVE  /\ e.mode \in {"off", "manual", "automatic"} /\ e.next \in 0..MaxEpoch \cup {None}
           /\ e.failures \in 0..Len(Backoff) /\ e.check \in 0..MaxCheck
           /\ e.override \in Targets \cup {None} /\ e.at \in 0..MaxClock \cup {None}
           /\ e.nodes \in NodesType
           /\ e = [mode |-> e.mode, next |-> e.next, failures |-> e.failures, check |-> e.check,
                   override |-> e.override, at |-> e.at, nodes |-> e.nodes]
BY DEF HEntry, NodesType

LEMMA EmptyOK == Empty \in HEntry /\ ValidEntry(Empty)
<1>1. Len(Backoff) \in Nat /\ MaxCheck \in Nat BY TimeAssumption
<1>2. Empty \in HEntry
  <2>1. 0 \in 0..Len(Backoff) /\ 0 \in 0..MaxCheck BY <1>1
  <2> QED BY <2>1, NoNodes, IsEntry DEF Empty
<1>3. DOMAIN <<>> = {} OBVIOUS
<1> QED BY <1>2, <1>3 DEF Empty, ValidEntry

LEMMA LaterOK ==
    ASSUME NEW t \in Nat, NEW s \in Nat
    PROVE  Later(t, s) \in 0..MaxEpoch /\ Later(t, s) # None
BY TimeAssumption, NoneAssumption DEF Later

LEMMA Rescheduled ==
    ASSUME NEW e \in HEntry, NEW mode \in {"off", "manual", "automatic"},
           NEW check \in 0..MaxCheck, NEW next \in 0..MaxEpoch \cup {None},
           NEW failures \in 0..Len(Backoff)
    PROVE  [e EXCEPT !.mode = mode, !.check = check, !.next = next, !.failures = failures] \in HEntry
BY DEF HEntry

\* Whatever an administrator chooses leaves a valid entry.
LEMMA ConfiguredOK ==
    ASSUME NEW e \in HEntry, ValidEntry(e), clock \in Nat,
           NEW mode \in {"off", "manual", "automatic"}, NEW reset \in BOOLEAN,
           Configured(e, mode, reset).check <= MaxCheck
    PROVE  LET c == Configured(e, mode, reset)
           IN  /\ c \in HEntry /\ ValidEntry(c)
               /\ c.mode = mode /\ c.override = e.override /\ c.at = e.at /\ c.nodes = e.nodes
               /\ c.check = IF reset \/ e.mode # mode THEN e.check + 1 ELSE e.check
               /\ c.failures \in {0, e.failures}
<1> DEFINE c == Configured(e, mode, reset)
           next == IF mode # "automatic" THEN None
                   ELSE IF reset \/ e.mode # mode THEN Later(clock, Interval) ELSE e.next
           failures == IF mode = "automatic" /\ ~(reset \/ e.mode # mode) THEN e.failures ELSE 0
           check == IF reset \/ e.mode # mode THEN e.check + 1 ELSE e.check
<1>1. c = [e EXCEPT !.mode = mode, !.check = check, !.next = next, !.failures = failures]
  BY DEF Configured, HEntry
<1>2. /\ c.mode = mode /\ c.check = check /\ c.next = next /\ c.failures = failures
      /\ c.override = e.override /\ c.at = e.at /\ c.nodes = e.nodes
  BY DEF Configured, HEntry
<1>3. Later(clock, Interval) \in 0..MaxEpoch /\ Later(clock, Interval) # None
  BY LaterOK, TimeAssumption
<1>4. /\ e.mode \in {"off", "manual", "automatic"} /\ e.next \in 0..MaxEpoch \cup {None}
      /\ e.failures \in 0..Len(Backoff) /\ e.check \in 0..MaxCheck
  BY EntryFields
<1>5. next \in 0..MaxEpoch \cup {None} /\ (mode = "automatic") = (next # None)
  BY <1>3, <1>4 DEF ValidEntry
<1>6. failures \in 0..Len(Backoff) /\ (mode # "automatic" => failures = 0)
  BY <1>4, TimeAssumption
<1>7. check \in 0..MaxCheck BY <1>2, <1>4, TimeAssumption
<1>8. failures \in {0, e.failures} OBVIOUS
<1> HIDE DEF c, next, failures, check
<1>9. c \in HEntry BY <1>1, <1>5, <1>6, <1>7, Rescheduled
<1>10. ValidEntry(c) BY <1>2, <1>5, <1>6 DEF ValidEntry
<1> QED BY <1>2, <1>8, <1>9, <1>10 DEF c, check

\* What the scanner records of a failed job leaves a valid entry.
LEMMA RecordedOK ==
    ASSUME NEW e \in HEntry, ValidEntry(e), e.mode = "automatic", clock \in Nat, NEW result
    PROVE  LET r == Recorded(e, result)
           IN  /\ r \in HEntry /\ ValidEntry(r)
               /\ r.mode = e.mode /\ r.override = e.override /\ r.at = e.at
               /\ r.nodes = e.nodes /\ r.check = e.check
               /\ result \in {"busy", "conflict"} => r.failures = e.failures
<1> DEFINE r == Recorded(e, result)
           n == IF e.failures < Len(Backoff) THEN e.failures + 1 ELSE e.failures
<1>1. e = [mode |-> e.mode, next |-> e.next, failures |-> e.failures, check |-> e.check,
           override |-> e.override, at |-> e.at, nodes |-> e.nodes]
  BY EntryFields
<1>2. e.failures \in 0..Len(Backoff) /\ Len(Backoff) \in Nat \ {0} /\ n \in 1..Len(Backoff)
  <2>1. e.failures \in 0..Len(Backoff) BY EntryFields
  <2>2. Len(Backoff) \in Nat \ {0} BY TimeAssumption
  <2> QED BY <2>1, <2>2
<1>3. Backoff[n] \in Nat BY <1>2, TimeAssumption
<1>4. CASE result \in {"busy", "conflict"}
  <2>1. r = [mode |-> e.mode, next |-> Later(clock, Retry), failures |-> e.failures,
             check |-> e.check, override |-> e.override, at |-> e.at, nodes |-> e.nodes]
    BY <1>1, <1>4 DEF Recorded
  <2>2. Later(clock, Retry) \in 0..MaxEpoch /\ Later(clock, Retry) # None
    BY LaterOK, TimeAssumption
  <2>3. r \in HEntry
    <3> HIDE DEF r
    <3> QED BY <2>1, <2>2, EntryFields, IsEntry
  <2>4. ValidEntry(r) BY <2>1, <2>2 DEF ValidEntry
  <2> QED BY <2>1, <2>3, <2>4
<1>5. CASE result \notin {"busy", "conflict"}
  <2>1. r = [mode |-> e.mode, next |-> Later(clock, Backoff[n]), failures |-> n,
             check |-> e.check, override |-> e.override, at |-> e.at, nodes |-> e.nodes]
    BY <1>1, <1>5 DEF Recorded
  <2>2. Later(clock, Backoff[n]) \in 0..MaxEpoch /\ Later(clock, Backoff[n]) # None
    BY <1>3, LaterOK
  <2> HIDE DEF n
  <2>3. r \in HEntry
    <3>1. n \in 0..Len(Backoff) BY <1>2
    <3> HIDE DEF r
    <3> QED BY <2>1, <2>2, <3>1, EntryFields, IsEntry
  <2>4. ValidEntry(r) BY <2>1, <2>2 DEF ValidEntry
  <2> QED BY <1>5, <2>1, <2>3, <2>4
<1> QED BY <1>4, <1>5

\* One more probe of a node keeps its status and its count in step.
ValidNodes(nodes) ==
    \A f \in DOMAIN nodes :
        LET r == nodes[f]
        IN  /\ r.status = "healthy" => r.count = 0
            /\ r.status = "suspect" => r.count \in 1..(Threshold - 1)
            /\ r.status = "unhealthy" => r.count >= Threshold

LEMMA RecordsOK ==
    ASSUME NEW e \in HEntry, NEW results \in Outcomes
    PROVE  Records(e, results) \in NodesType /\ ValidNodes(Records(e, results))
<1> DEFINE old(f) == IF f \in DOMAIN e.nodes THEN e.nodes[f] ELSE Unknown
<1>1. PICK F \in SUBSET Fingerprints : results \in [F -> {"success", "failure", "unsupported"}]
  BY DEF Outcomes
<1>2. PICK G \in SUBSET Fingerprints : e.nodes \in [G -> Observation]
  BY EntryFields DEF NodesType
<1>3. ASSUME NEW f \in F
      PROVE  LET r == Observed(old(f), results[f])
             IN  /\ r \in Observation
                 /\ r.status = "healthy" => r.count = 0
                 /\ r.status = "suspect" => r.count \in 1..(Threshold - 1)
                 /\ r.status = "unhealthy" => r.count >= Threshold
  <2>1. /\ old(f) \in [status: {"healthy", "suspect", "unhealthy", "unsupported", "unknown"},
                       count: 0..Threshold]
    BY <1>2 DEF Unknown, Observation, Threshold
  <2>2. results[f] \in {"success", "failure", "unsupported"} BY <1>1
  <2> HIDE DEF old
  <2>3. CASE results[f] = "success" BY <2>3 DEF Observed, Observation, Threshold
  <2>4. CASE results[f] = "unsupported" BY <2>1, <2>4 DEF Observed, Observation, Threshold
  <2>5. CASE results[f] = "failure" BY <2>1, <2>5 DEF Observed, Observation, Threshold
  <2> QED BY <2>2, <2>3, <2>4, <2>5
<1>4. Records(e, results) = [f \in F |-> Observed(old(f), results[f])] BY <1>1 DEF Records
<1>5. Records(e, results) \in [F -> Observation] BY <1>3, <1>4
<1>6. ValidNodes(Records(e, results)) BY <1>3, <1>4 DEF ValidNodes
<1> QED BY <1>5, <1>6 DEF NodesType

\* The entry a completed check writes.
LEMMA CompletedOK ==
    ASSUME NEW w, exp[w] \in HEntry, ValidEntry(exp[w]), outcome[w] \in Outcomes,
           clock \in 0..MaxClock, ~Exhausted(w)
    PROVE  LET c == Completed(w)
           IN  /\ c \in HEntry /\ ValidEntry(c)
               /\ c.mode = exp[w].mode /\ c.override = exp[w].override
               /\ c.check = exp[w].check + 1 /\ c.failures = 0
<1> DEFINE e == exp[w]
           nodes == Records(e, outcome[w])
           next == IF e.mode = "automatic" THEN Later(clock, Interval) ELSE e.next
           check == e.check + 1
           c == Completed(w)
<1>1. nodes \in NodesType /\ ValidNodes(nodes) BY RecordsOK
<1>2. /\ c.mode = e.mode /\ c.check = check /\ c.next = next /\ c.failures = 0
      /\ c.override = e.override /\ c.nodes = nodes
  BY DEF Completed, RecordedSuccess, HEntry
<1>3. c = [[e EXCEPT !.at = clock, !.nodes = nodes]
             EXCEPT !.mode = e.mode, !.check = check, !.next = next, !.failures = 0]
  BY DEF Completed, RecordedSuccess, HEntry
<1>4. Later(clock, Interval) \in 0..MaxEpoch /\ Later(clock, Interval) # None
  BY LaterOK, TimeAssumption
<1>5. /\ e.mode \in {"off", "manual", "automatic"} /\ e.next \in 0..MaxEpoch \cup {None}
      /\ e.check \in 0..MaxCheck
  BY EntryFields
<1>6. next \in 0..MaxEpoch \cup {None} /\ (e.mode = "automatic") = (next # None)
  BY <1>4, <1>5 DEF ValidEntry
<1>7. check \in 0..MaxCheck
  <2>1. e.check # MaxCheck BY DEF Exhausted
  <2>2. MaxCheck \in Nat BY TimeAssumption
  <2> QED BY <1>5, <2>1, <2>2
<1>8. 0 \in 0..Len(Backoff) BY TimeAssumption
<1>9. [e EXCEPT !.at = clock, !.nodes = nodes] \in HEntry
  <2> HIDE DEF nodes
  <2> QED BY <1>1 DEF HEntry, NodesType
<1> HIDE DEF c, next, check, nodes
<1>10. c \in HEntry BY <1>3, <1>5, <1>6, <1>7, <1>8, <1>9, Rescheduled
<1>11. ValidEntry(c) BY <1>1, <1>2, <1>6 DEF ValidEntry, ValidNodes
<1> QED BY <1>2, <1>10, <1>11 DEF c, check

\* An entry whose observations are dropped.
LEMMA ClearedOK ==
    ASSUME NEW e \in HEntry, ValidEntry(e)
    PROVE  LET c == [e EXCEPT !.nodes = <<>>, !.at = None]
           IN  /\ c \in HEntry /\ ValidEntry(c) /\ c.at = None /\ c.nodes = <<>>
               /\ c.mode = e.mode /\ c.check = e.check /\ c.override = e.override
               /\ c.failures = e.failures
<1> DEFINE c == [e EXCEPT !.nodes = <<>>, !.at = None]
<1>1. c \in HEntry BY NoNodes DEF HEntry, NodesType
<1>2. /\ c.at = None /\ c.nodes = <<>> /\ c.mode = e.mode /\ c.check = e.check
      /\ c.override = e.override /\ c.failures = e.failures /\ c.next = e.next
  BY DEF HEntry
<1>3. DOMAIN <<>> = {} OBVIOUS
<1> HIDE DEF c
<1>4. ValidEntry(c) BY <1>2, <1>3 DEF ValidEntry
<1> QED BY <1>1, <1>2, <1>4 DEF c

LEMMA SameFields ==
    ASSUME NEW e \in HEntry, NEW f \in HEntry, SameCheckState(e, f)
    PROVE  /\ e.mode = f.mode /\ e.check = f.check /\ e.override = f.override
           /\ e.at = f.at /\ e.nodes = f.nodes
<1> DEFINE x == [e EXCEPT !.next = None, !.failures = 0]
           y == [f EXCEPT !.next = None, !.failures = 0]
<1>1. /\ x.mode = e.mode /\ x.check = e.check /\ x.override = e.override
      /\ x.at = e.at /\ x.nodes = e.nodes
  BY DEF HEntry
<1>2. /\ y.mode = f.mode /\ y.check = f.check /\ y.override = f.override
      /\ y.at = f.at /\ y.nodes = f.nodes
  BY DEF HEntry
<1>3. x = y BY DEF SameCheckState
<1> QED BY <1>1, <1>2, <1>3

-----------------------------------------------------------------------------
(* The invariant *)

\* The stored entries: typed and valid, and without a target of their own where
\* there is no global one.
EntriesOK ==
    /\ aux \in [Subs -> HEntry \cup {None}]
    /\ about \in [Subs -> Targets \cup {None}]
    /\ global \in Targets \cup {None}
    /\ clock \in 0..MaxClock
    /\ \A k \in Subs : aux[k] # None =>
          ValidEntry(aux[k]) /\ (global = None => aux[k].override = None)

\* What a check carries: the entry it read was valid and, for the scanner,
\* automatic; without a global target there was none.
Checking == {"snapshot", "job", "probe", "commit", "error", "busy", "conflict"}
Carries(w) ==
    /\ pc[w] # "idle" => key[w] \in Subs
    /\ pc[w] \in Checking =>
          /\ exp[w] \in HEntry /\ ValidEntry(exp[w])
          /\ w = Scanner => exp[w].mode = "automatic"
          /\ global = None => expGlobal[w] = None
    /\ pc[w] = "read" /\ w # Scanner => rev[w] \in Revisions
    /\ pc[w] \in {"job", "probe", "commit"} => rev[w] \in Revisions
    /\ pc[w] = "commit" => outcome[w] \in Outcomes
LocalsOK ==
    /\ pc \in [Procs -> Labels]
    /\ key \in [Procs -> Subs \cup {None}]
    /\ rev \in [Procs -> Revisions \cup {None}]
    /\ exp \in [Procs -> HEntry \cup {None}]
    /\ expGlobal \in [Procs -> Targets \cup {None}]
    /\ outcome \in [Procs -> {None} \cup Outcomes]
RestOK ==
    /\ reg \in [Subs -> [rev: Revisions, status: {"active", "disabled"}] \cup {None}]
    /\ job \in Procs \cup {None}
    /\ queue \in Seq(Subs)
    /\ LocalsOK
CarriedOK == \A w \in Procs : Carries(w)

IInv == EntriesOK /\ RestOK /\ CarriedOK /\ MeasuredAsConfigured

LEMMA InvTypes == IInv => TypeOK /\ ValidState
BY DEF IInv, EntriesOK, RestOK, LocalsOK, TypeOK, ValidState, Outcomes

LEMMA InitInv == Init => IInv
<1> SUFFICES ASSUME Init PROVE IInv
    OBVIOUS
<1>1. EntriesOK BY TimeAssumption DEF Init, EntriesOK
<1>2. 1 \in Revisions BY TimeAssumption DEF Revisions
<1>3. RestOK BY <1>2 DEF Init, RestOK, LocalsOK, Labels
<1>4. CarriedOK BY DEF Init, CarriedOK, Carries, Checking
<1>5. MeasuredAsConfigured BY DEF Init, MeasuredAsConfigured
<1> QED BY <1>1, <1>3, <1>4, <1>5 DEF IInv

LEMMA EntryOK ==
    ASSUME EntriesOK, NEW k \in Subs
    PROVE  /\ Entry(k) \in HEntry /\ ValidEntry(Entry(k))
           /\ global = None => Entry(k).override = None
<1>1. CASE aux[k] = None BY <1>1, EmptyOK DEF Entry, Empty
<1>2. CASE aux[k] # None BY <1>2 DEF Entry, EntriesOK
<1> QED BY <1>1, <1>2

LEMMA NewSettingsOK ==
    ASSUME EntriesOK, NEW k \in Subs, NEW mode \in {"off", "manual", "automatic"},
           NEW o \in Targets \cup {None}, o # None => Kind = "proxy",
           NewSettings(k, mode, o).check <= MaxCheck
    PROVE  LET n == NewSettings(k, mode, o)
               e == Entry(k)
               moved == (IF e.override = None THEN global ELSE e.override)
                          # (IF o = None THEN global ELSE o)
           IN  /\ n \in HEntry /\ ValidEntry(n) /\ n.mode = mode /\ n.override = o
               /\ n.at = (IF moved THEN None ELSE e.at)
               /\ n.nodes = (IF moved THEN <<>> ELSE e.nodes)
               /\ n.check = IF moved \/ e.mode # mode THEN e.check + 1 ELSE e.check
               /\ n.failures \in {0, e.failures}
<1> DEFINE e == Entry(k)
           moved == Kind = "proxy" /\ Target(e, global) # Target([e EXCEPT !.override = o], global)
           f == IF moved THEN [e EXCEPT !.nodes = <<>>, !.at = None] ELSE e
           c == Configured(f, mode, moved)
           n == NewSettings(k, mode, o)
<1>1. e \in HEntry /\ ValidEntry(e) /\ (global = None => e.override = None) BY EntryOK
<1>2. [e EXCEPT !.override = o].override = o BY <1>1 DEF HEntry
<1>3. moved = ((IF e.override = None THEN global ELSE e.override) # (IF o = None THEN global ELSE o))
  <2>1. CASE global = None BY <1>1, <1>2, <2>1 DEF Kind, Target
  <2>2. CASE global # None BY <1>2, <2>2 DEF Kind, Target
  <2> QED BY <2>1, <2>2
<1>4. /\ f \in HEntry /\ ValidEntry(f) /\ f.mode = e.mode /\ f.check = e.check
      /\ f.failures = e.failures
      /\ f.at = IF moved THEN None ELSE e.at
      /\ f.nodes = IF moved THEN <<>> ELSE e.nodes
  <2>1. CASE moved BY <1>1, <2>1, ClearedOK
  <2>2. CASE ~moved BY <1>1, <2>2
  <2> QED BY <2>1, <2>2
<1>5. n = [c EXCEPT !.override = o] BY DEF NewSettings
<1>6. moved \in BOOLEAN OBVIOUS
<1> HIDE DEF f, moved
<1>7. n.check = c.check BY <1>5 DEF Configured
<1>8. clock \in Nat BY TimeAssumption DEF EntriesOK
<1>9. /\ c \in HEntry /\ ValidEntry(c) /\ c.mode = mode /\ c.at = f.at /\ c.nodes = f.nodes
      /\ c.check = IF moved \/ f.mode # mode THEN f.check + 1 ELSE f.check
      /\ c.failures \in {0, f.failures}
  BY <1>4, <1>6, <1>7, <1>8, ConfiguredOK
<1> HIDE DEF c, n
<1>10. /\ n \in HEntry /\ n.override = o /\ n.mode = c.mode /\ n.at = c.at
       /\ n.nodes = c.nodes /\ n.check = c.check /\ n.failures = c.failures /\ n.next = c.next
  BY <1>5, <1>9 DEF HEntry
<1>11. ValidEntry(n) BY <1>9, <1>10 DEF ValidEntry
<1> QED BY <1>3, <1>4, <1>9, <1>10, <1>11 DEF n

-----------------------------------------------------------------------------
(* What a step does to the entries *)

Quiet == UNCHANGED <<aux, about, global>>
Completes(w) ==
    /\ pc[w] = "commit" /\ Current(w) /\ ~Exhausted(w)
    /\ aux' = [Pruned EXCEPT ![key[w]] = Completed(w)]
    /\ about' = [about EXCEPT ![key[w]] = Target(exp[w], expGlobal[w])]
    /\ UNCHANGED global
    /\ w # Scanner => UNCHANGED pc[Scanner]
RecordsFailure ==
    /\ pc[Scanner] \in {"error", "busy", "conflict"} /\ Unmoved
    /\ aux' = [aux EXCEPT ![key[Scanner]] = Recorded(exp[Scanner], pc[Scanner])]
    /\ UNCHANGED <<about, global>>
Configures(k, mode, o) ==
    /\ reg[k] # None
    /\ o # None => Kind = "proxy"
    /\ NewSettings(k, mode, o).check <= MaxCheck
    /\ aux' = [Pruned EXCEPT ![k] = NewSettings(k, mode, o)]
    /\ UNCHANGED <<about, global, pc>>
Retargets(t) == SetGlobal(t)
Drops ==
    /\ \A k \in Subs : aux'[k] = aux[k] \/ aux'[k] = None
    /\ aux' \in [Subs -> HEntry \cup {None}]
    /\ UNCHANGED <<about, global, pc>>

Effect ==
    \/ Quiet
    \/ \E w \in Procs : Completes(w)
    \/ RecordsFailure
    \/ \E k \in Subs, mode \in {"off", "manual", "automatic"}, o \in Targets \cup {None} :
          Configures(k, mode, o)
    \/ \E t \in Targets : Retargets(t)
    \/ Drops

LEMMA CommitHasEffect ==
    ASSUME RestOK, NEW w \in Procs, CommitCheck(w)
    PROVE  Effect
<1> DEFINE new == [Pruned EXCEPT ![key[w]] = Completed(w)]
           told == [about EXCEPT ![key[w]] = Target(exp[w], expGlobal[w])]
<1>1. pc[w] = "commit" /\ UNCHANGED global BY DEF CommitCheck
<1>2. w # Scanner => UNCHANGED pc[Scanner]
  BY DEF CommitCheck, Fail, Finish, Goto, RestOK, LocalsOK, Procs
<1>3. \/ UNCHANGED <<aux, about>>
      \/ Current(w) /\ ~Exhausted(w) /\ aux' = new /\ about' = told
  BY DEF CommitCheck, Written, NotSaved
<1> QED BY <1>1, <1>2, <1>3 DEF Effect, Quiet, Completes

LEMMA StepHasEffect == EntriesOK /\ RestOK /\ [Next]_vars => Effect
<1> SUFFICES ASSUME EntriesOK, RestOK, [Next]_vars PROVE Effect
    OBVIOUS
<1>0. Scanner \in Procs /\ Web \subseteq Procs BY DEF Procs
<1>1. ASSUME NEW w \in Procs, Step(w) PROVE Effect
  <2>1. CASE CommitCheck(w) BY <2>1, CommitHasEffect
  <2>2. CASE ReadExpected(w) \/ TakeJob(w) \/ Probe(w) \/ ProbeFails(w)
    BY <2>2 DEF ReadExpected, TakeJob, Probe, ProbeFails, state, Effect, Quiet
  <2> QED BY <1>1, <2>1, <2>2 DEF Step
<1>2. CASE RecordFailedJob
  BY <1>2 DEF RecordFailedJob, Written, NotSaved, Effect, Quiet, RecordsFailure
<1>3. CASE AutoStart \/ AutoSnapshot \/ Scan \/ Tick
  BY <1>3 DEF AutoStart, AutoSnapshot, Scan, Tick, state, Effect, Quiet
<1>4. ASSUME NEW w \in Web, NEW k \in Subs, ManualStart(w, k) PROVE Effect
  BY <1>4 DEF ManualStart, state, Effect, Quiet
<1>5. ASSUME NEW w \in Procs, Crash(w) PROVE Effect
  BY <1>5 DEF Crash, state, Effect, Quiet
<1>6. CASE Describe
  <2>1. Pruned \in [Subs -> HEntry \cup {None}] BY DEF Pruned, EntriesOK
  <2>2. \A k \in Subs : Pruned[k] = aux[k] \/ Pruned[k] = None BY DEF Pruned
  <2>3. aux' = Pruned \/ UNCHANGED aux BY <1>6 DEF Describe, Written, NotSaved
  <2> QED BY <1>6, <2>1, <2>2, <2>3 DEF Describe, Effect, Drops, Quiet
<1>7. ASSUME NEW t \in Targets, SetGlobal(t) PROVE Effect
  BY <1>7 DEF Effect, Retargets
<1>8. ASSUME NEW k \in Subs, Remove(k) PROVE Effect
  <2> DEFINE new == [aux EXCEPT ![k] = None]
  <2>1. new \in [Subs -> HEntry \cup {None}] /\ \A j \in Subs : new[j] = aux[j] \/ new[j] = None
    BY DEF EntriesOK
  <2>2. aux' = new \/ UNCHANGED aux BY <1>8 DEF Remove, Written, NotSaved
  <2> QED BY <1>8, <2>1, <2>2 DEF Remove, Effect, Drops, Quiet
<1>9. ASSUME NEW k \in Subs, Publish(k) \/ Toggle(k) \/ Delete(k) PROVE Effect
  BY <1>9 DEF Publish, Toggle, Delete, Effect, Quiet
<1>10. ASSUME NEW k \in Subs, NEW mode \in {"off", "manual", "automatic"},
              NEW o \in Targets \cup {None}, Settings(k, mode, o)
       PROVE  Effect
  <2>1. aux' = [Pruned EXCEPT ![k] = NewSettings(k, mode, o)] \/ UNCHANGED aux
    BY <1>10 DEF Settings, Written, NotSaved
  <2>2. CASE UNCHANGED aux BY <1>10, <2>2 DEF Settings, Effect, Quiet
  <2>3. CASE aux' = [Pruned EXCEPT ![k] = NewSettings(k, mode, o)]
    <3>1. Configures(k, mode, o) BY <1>10, <2>3 DEF Settings, Configures
    <3> QED BY <3>1 DEF Effect
  <2> QED BY <2>1, <2>2, <2>3
<1>11. CASE UNCHANGED vars BY <1>11 DEF vars, Effect, Quiet
<1> QED BY <1>0, <1>1, <1>2, <1>3, <1>4, <1>5, <1>6, <1>7, <1>8, <1>9, <1>10, <1>11
        DEF Next, Admin, ScannerStep

\* What a commit was compared with: the entry is as the check read it.
LEMMA CurrentOK ==
    ASSUME EntriesOK, RestOK, CarriedOK, NEW w \in Procs, pc[w] = "commit", Current(w)
    PROVE  /\ key[w] \in Subs
           /\ reg[key[w]] # None /\ reg[key[w]].rev = rev[w]
           /\ w = Scanner => reg[key[w]].status = "active" /\ exp[w].mode = "automatic"
           /\ exp[w] \in HEntry /\ ValidEntry(exp[w]) /\ outcome[w] \in Outcomes
           /\ LET e == Entry(key[w])
              IN  /\ e \in HEntry /\ (global = None => e.override = None)
                  /\ e.mode = exp[w].mode /\ e.check = exp[w].check
                  /\ e.override = exp[w].override
           /\ expGlobal[w] = global
<1>1. Carries(w) BY DEF CarriedOK
<1>2. /\ key[w] \in Subs /\ exp[w] \in HEntry /\ ValidEntry(exp[w]) /\ outcome[w] \in Outcomes
      /\ w = Scanner => exp[w].mode = "automatic"
      /\ global = None => expGlobal[w] = None
  BY <1>1 DEF Carries, Checking
<1>3. /\ reg[key[w]] # None /\ reg[key[w]].rev = rev[w]
      /\ w = Scanner => reg[key[w]].status = "active"
      /\ SameCheckState(Entry(key[w]), exp[w])
      /\ global # None => global = expGlobal[w]
  BY DEF Current, Kind
<1>4. Entry(key[w]) \in HEntry /\ (global = None => Entry(key[w]).override = None)
  BY <1>2, EntryOK
<1> QED BY <1>2, <1>3, <1>4, SameFields

LEMMA CompletesOK ==
    ASSUME EntriesOK, RestOK, CarriedOK, MeasuredAsConfigured, NEW w \in Procs, Completes(w),
           clock' \in 0..MaxClock
    PROVE  EntriesOK' /\ MeasuredAsConfigured'
<1> DEFINE j == key[w]
           c == Completed(w)
           told == Target(exp[w], expGlobal[w])
<1>1. /\ j \in Subs /\ exp[w] \in HEntry /\ ValidEntry(exp[w]) /\ outcome[w] \in Outcomes
      /\ global = None => exp[w].override = None
      /\ expGlobal[w] = global
  BY CurrentOK DEF Completes
<1>2. /\ c \in HEntry /\ ValidEntry(c) /\ c.override = exp[w].override
  BY <1>1, CompletedOK DEF Completes, EntriesOK
<1>3. told = Target(c, global) /\ told \in Targets \cup {None}
  BY <1>1, <1>2, EntryFields DEF Target, EntriesOK
<1> HIDE DEF c, told
<1>4. /\ aux' = [Pruned EXCEPT ![j] = c] /\ about' = [about EXCEPT ![j] = told] /\ global' = global
  BY DEF Completes, c, told
<1>5. aux'[j] = c /\ \A k \in Subs : k # j => aux'[k] \in {None, aux[k]}
  BY <1>1, <1>4 DEF Pruned
<1>6. about'[j] = told /\ \A k \in Subs : k # j => about'[k] = about[k]
  BY <1>1, <1>4 DEF EntriesOK
<1>7. aux' \in [Subs -> HEntry \cup {None}] BY <1>2, <1>4 DEF Pruned, EntriesOK
<1>8. about' \in [Subs -> Targets \cup {None}] BY <1>3, <1>4 DEF EntriesOK
<1>9. ASSUME NEW k \in Subs, aux'[k] # None
      PROVE  /\ ValidEntry(aux'[k])
             /\ global' = None => aux'[k].override = None
             /\ aux'[k].at # None => about'[k] = Target(aux'[k], global')
  <2>1. CASE k = j BY <1>1, <1>2, <1>3, <1>4, <1>5, <1>6, <2>1
  <2>2. CASE k # j
    <3>1. aux'[k] = aux[k] /\ aux[k] # None /\ about'[k] = about[k] BY <1>5, <1>6, <1>9, <2>2
    <3> QED BY <1>4, <3>1 DEF EntriesOK, MeasuredAsConfigured
  <2> QED BY <2>1, <2>2
<1>10. EntriesOK'
  <2>1. \A k \in Subs : aux'[k] # None =>
           ValidEntry(aux'[k]) /\ (global' = None => aux'[k].override = None)
    BY <1>9
  <2>2. global' \in Targets \cup {None} BY <1>4 DEF EntriesOK
  <2>3. \A k \in Subs : aux'[k] # None => ValidEntry(aux[k])' BY <2>1 DEF ValidEntry
  <2> QED BY <1>7, <1>8, <2>1, <2>2, <2>3 DEF EntriesOK
<1>11. MeasuredAsConfigured' BY <1>9 DEF MeasuredAsConfigured, Target
<1> QED BY <1>10, <1>11

\* An entry with other times and counts only was measured as it was before.
LEMMA ReplacedOK ==
    ASSUME EntriesOK, MeasuredAsConfigured, NEW k \in Subs, NEW n \in HEntry, ValidEntry(n),
           global = None => n.override = None,
           n.at # None => about[k] = Target(n, global),
           aux' \in [Subs -> HEntry \cup {None}], aux'[k] = n,
           \A j \in Subs : j # k => aux'[j] \in {None, aux[j]},
           UNCHANGED <<about, global>>, clock' \in 0..MaxClock
    PROVE  EntriesOK' /\ MeasuredAsConfigured'
<1>1. ASSUME NEW j \in Subs, aux'[j] # None
      PROVE  /\ ValidEntry(aux'[j])
             /\ global' = None => aux'[j].override = None
             /\ aux'[j].at # None => about'[j] = Target(aux'[j], global')
  <2>1. CASE j = k BY <2>1
  <2>2. CASE j # k
    <3>1. aux'[j] = aux[j] /\ aux[j] # None BY <1>1, <2>2
    <3> QED BY <3>1 DEF EntriesOK, MeasuredAsConfigured
  <2> QED BY <2>1, <2>2
<1>2. \A j \in Subs : aux'[j] # None =>
         ValidEntry(aux'[j]) /\ (global' = None => aux'[j].override = None)
  BY <1>1
<1>3. EntriesOK' BY <1>2 DEF EntriesOK, ValidEntry
<1>4. MeasuredAsConfigured' BY <1>1 DEF MeasuredAsConfigured, Target
<1> QED BY <1>3, <1>4

LEMMA RecordsFailureOK ==
    ASSUME EntriesOK, RestOK, CarriedOK, MeasuredAsConfigured, RecordsFailure,
           clock' \in 0..MaxClock
    PROVE  EntriesOK' /\ MeasuredAsConfigured'
<1> DEFINE k == key[Scanner]
           e == aux[k]
           r == Recorded(exp[Scanner], pc[Scanner])
<1>1. Carries(Scanner) BY DEF CarriedOK, Procs
<1>2. k \in Subs /\ exp[Scanner] \in HEntry /\ ValidEntry(exp[Scanner])
  BY <1>1 DEF Carries, Checking, RecordsFailure
<1>3. e = exp[Scanner] /\ e.mode = "automatic" BY DEF RecordsFailure, Unmoved
<1>4. clock \in Nat BY TimeAssumption DEF EntriesOK
<1>5. /\ r \in HEntry /\ ValidEntry(r) /\ r.override = e.override /\ r.at = e.at
  BY <1>2, <1>3, <1>4, RecordedOK
<1>6. aux[k] # None BY <1>2, <1>3, NoneAssumption
<1>7. (global = None => r.override = None) /\ (r.at # None => about[k] = Target(r, global))
  BY <1>2, <1>5, <1>6 DEF EntriesOK, MeasuredAsConfigured, Target
<1> HIDE DEF r
<1>8. aux' = [aux EXCEPT ![k] = r] BY DEF RecordsFailure, r
<1>9. /\ aux' \in [Subs -> HEntry \cup {None}] /\ aux'[k] = r
      /\ \A j \in Subs : j # k => aux'[j] \in {None, aux[j]}
  BY <1>2, <1>5, <1>8 DEF EntriesOK
<1> QED BY <1>2, <1>5, <1>7, <1>9, ReplacedOK DEF RecordsFailure

LEMMA ConfiguresOK ==
    ASSUME EntriesOK, RestOK, MeasuredAsConfigured, clock' \in 0..MaxClock,
           NEW k \in Subs, NEW mode \in {"off", "manual", "automatic"},
           NEW o \in Targets \cup {None}, Configures(k, mode, o)
    PROVE  EntriesOK' /\ MeasuredAsConfigured'
<1> DEFINE e == Entry(k)
           n == NewSettings(k, mode, o)
           moved == (IF e.override = None THEN global ELSE e.override)
                      # (IF o = None THEN global ELSE o)
<1>1. n \in HEntry /\ ValidEntry(n) /\ n.override = o /\ n.at = IF moved THEN None ELSE e.at
  BY NewSettingsOK DEF Configures
<1>2. global = None => n.override = None BY <1>1 DEF Configures, Kind
<1>3. ASSUME n.at # None PROVE about[k] = Target(n, global)
  <2>1. ~moved /\ n.at = e.at BY <1>1, <1>3
  <2>2. aux[k] # None BY <1>3, <2>1 DEF Entry, Empty
  <2>3. about[k] = Target(e, global)
    BY <1>3, <2>1, <2>2 DEF Entry, MeasuredAsConfigured
  <2> QED BY <1>1, <2>1, <2>3 DEF Target
<1> HIDE DEF n
<1>4. aux' = [Pruned EXCEPT ![k] = n] BY DEF Configures, n
<1>5. /\ aux' \in [Subs -> HEntry \cup {None}] /\ aux'[k] = n
      /\ \A j \in Subs : j # k => aux'[j] \in {None, aux[j]}
  BY <1>1, <1>4 DEF Pruned, EntriesOK
<1> QED BY <1>1, <1>2, <1>3, <1>5, ReplacedOK DEF Configures

\* A new global target drops what was measured with the old one.
LEMMA ResetFields ==
    ASSUME EntriesOK, NEW t \in Targets, Retargets(t), NEW k \in Subs
    PROVE  /\ global # None
           /\ aux[k] = None => aux'[k] = None
           /\ aux[k] # None /\ (global = t \/ aux[k].override # None) => aux'[k] = aux[k]
           /\ aux[k] # None /\ global # t /\ aux[k].override = None =>
                 /\ aux'[k] \in HEntry /\ ValidEntry(aux'[k]) /\ aux'[k].at = None
                 /\ aux'[k].nodes = <<>> /\ aux'[k].mode = aux[k].mode
                 /\ aux'[k].check = aux[k].check + 1 /\ aux'[k].override = None
                 /\ aux'[k].failures \in {0, aux[k].failures}
<1>1. aux' = ResetAll(t) /\ global # None BY DEF Retargets, SetGlobal, Kind
<1>2. ASSUME aux[k] # None, global # t, aux[k].override = None
      PROVE  /\ aux'[k] \in HEntry /\ ValidEntry(aux'[k]) /\ aux'[k].at = None
             /\ aux'[k].nodes = <<>> /\ aux'[k].mode = aux[k].mode
             /\ aux'[k].check = aux[k].check + 1 /\ aux'[k].override = None
             /\ aux'[k].failures \in {0, aux[k].failures}
  <2> DEFINE f == [aux[k] EXCEPT !.nodes = <<>>, !.at = None]
             c == Configured(f, aux[k].mode, TRUE)
  <2>1. aux[k] \in HEntry /\ ValidEntry(aux[k]) BY <1>2 DEF EntriesOK
  <2>2. /\ f \in HEntry /\ ValidEntry(f) /\ f.at = None /\ f.nodes = <<>>
        /\ f.mode = aux[k].mode /\ f.check = aux[k].check /\ f.override = aux[k].override
        /\ f.failures = aux[k].failures
    BY <2>1, ClearedOK
  <2>3. ResetAll(t)[k] = c BY <1>2 DEF ResetAll
  <2>4. ResetAll(t)[k].check <= MaxCheck BY <1>2 DEF Retargets, SetGlobal
  <2>5. aux'[k] = c BY <1>1, <2>3
  <2>6. clock \in Nat BY TimeAssumption DEF EntriesOK
  <2>7. aux[k].mode \in {"off", "manual", "automatic"} BY <2>1, EntryFields
  <2> HIDE DEF f
  <2>8. /\ c \in HEntry /\ ValidEntry(c) /\ c.mode = aux[k].mode /\ c.override = f.override
        /\ c.at = f.at /\ c.nodes = f.nodes /\ c.check = f.check + 1
        /\ c.failures \in {0, f.failures}
    <3>1. PICK reset \in BOOLEAN : reset OBVIOUS
    <3>2. c = Configured(f, aux[k].mode, reset) BY <3>1 DEF Configured
    <3>3. Configured(f, aux[k].mode, reset).check <= MaxCheck BY <2>3, <2>4, <3>2
    <3> HIDE DEF c
    <3>4. /\ c \in HEntry /\ ValidEntry(c)
          /\ c.mode = aux[k].mode /\ c.override = f.override /\ c.at = f.at /\ c.nodes = f.nodes
          /\ c.check = IF reset \/ f.mode # aux[k].mode THEN f.check + 1 ELSE f.check
          /\ c.failures \in {0, f.failures}
      <4> DEFINE m == aux[k].mode
      <4> HIDE DEF m
      <4>1. m \in {"off", "manual", "automatic"} BY <2>7 DEF m
      <4>2. c = Configured(f, m, reset) /\ Configured(f, m, reset).check <= MaxCheck
        BY <3>2, <3>3 DEF m
      <4>3. /\ c \in HEntry /\ ValidEntry(c)
            /\ c.mode = m /\ c.override = f.override /\ c.at = f.at /\ c.nodes = f.nodes
            /\ c.check = IF reset \/ f.mode # m THEN f.check + 1 ELSE f.check
            /\ c.failures \in {0, f.failures}
        BY <2>2, <2>6, <4>1, <4>2, ConfiguredOK
      <4> QED BY <4>3 DEF m
    <3> QED BY <3>1, <3>4
  <2> QED BY <1>2, <2>2, <2>5, <2>8
<1>3. aux[k] = None => aux'[k] = None BY <1>1 DEF ResetAll
<1>4. aux[k] # None /\ (global = t \/ aux[k].override # None) => aux'[k] = aux[k]
  BY <1>1 DEF ResetAll
<1> QED BY <1>1, <1>2, <1>3, <1>4

LEMMA RetargetsOK ==
    ASSUME EntriesOK, MeasuredAsConfigured, clock' \in 0..MaxClock,
           NEW t \in Targets, Retargets(t)
    PROVE  EntriesOK' /\ MeasuredAsConfigured'
<1>1. /\ aux' = [k \in Subs |-> aux'[k]] /\ global' = t /\ about' = about
  BY DEF Retargets, SetGlobal, ResetAll
<1>2. t # None BY NoneAssumption
<1>3. ASSUME NEW k \in Subs, aux'[k] # None
      PROVE  /\ aux'[k] \in HEntry /\ ValidEntry(aux'[k])
             /\ aux'[k].at # None => about'[k] = Target(aux'[k], global')
  <2>1. aux[k] # None BY <1>3, ResetFields
  <2>2. CASE global # t /\ aux[k].override = None BY <2>1, <2>2, ResetFields
  <2>3. CASE ~(global # t /\ aux[k].override = None)
    <3>1. aux'[k] = aux[k] BY <2>1, <2>3, ResetFields
    <3>2. Target(aux'[k], global') = Target(aux[k], global) BY <1>1, <2>3, <3>1 DEF Target
    <3>3. aux[k] \in HEntry /\ ValidEntry(aux[k]) BY <2>1 DEF EntriesOK
    <3>4. aux[k].at # None => about[k] = Target(aux[k], global)
      BY <2>1 DEF MeasuredAsConfigured
    <3> QED BY <1>1, <3>1, <3>2, <3>3, <3>4
  <2> QED BY <2>2, <2>3
<1>4. aux' \in [Subs -> HEntry \cup {None}] BY <1>1, <1>3
<1>5. global' # None /\ global' \in Targets \cup {None} BY <1>1, <1>2
<1>6. about' \in [Subs -> Targets \cup {None}] BY <1>1 DEF EntriesOK
<1>7. EntriesOK' BY <1>3, <1>4, <1>5, <1>6 DEF EntriesOK, ValidEntry
<1>8. MeasuredAsConfigured' BY <1>3 DEF MeasuredAsConfigured, Target
<1> QED BY <1>7, <1>8

\* Every step keeps the stored entries valid and beside their target.
LEMMA EntriesStep ==
    ASSUME EntriesOK, RestOK, CarriedOK, MeasuredAsConfigured, [Next]_vars
    PROVE  EntriesOK' /\ MeasuredAsConfigured'
<1>1. clock' \in 0..MaxClock
  <2>1. UNCHANGED clock \/ Tick
    BY DEF Next, Admin, ScannerStep, Step, vars, state, Scan, AutoStart, AutoSnapshot,
           RecordFailedJob, ReadExpected, TakeJob, Probe, ProbeFails, CommitCheck, ManualStart,
           Crash, Describe, SetGlobal, Remove, Publish, Toggle, Delete, Settings
  <2> QED BY <2>1, TimeAssumption DEF EntriesOK, Tick
<1>2. Effect BY StepHasEffect
<1>3. CASE Quiet
  <2>1. EntriesOK' BY <1>1, <1>3 DEF Quiet, EntriesOK, ValidEntry
  <2>2. MeasuredAsConfigured' BY <1>3 DEF Quiet, MeasuredAsConfigured, Target
  <2> QED BY <2>1, <2>2
<1>4. ASSUME NEW w \in Procs, Completes(w) PROVE EntriesOK' /\ MeasuredAsConfigured'
  BY <1>1, <1>4, CompletesOK
<1>5. CASE RecordsFailure BY <1>1, <1>5, RecordsFailureOK
<1>6. ASSUME NEW k \in Subs, NEW mode \in {"off", "manual", "automatic"},
             NEW o \in Targets \cup {None}, Configures(k, mode, o)
      PROVE  EntriesOK' /\ MeasuredAsConfigured'
  BY <1>1, <1>6, ConfiguresOK
<1>7. ASSUME NEW t \in Targets, Retargets(t) PROVE EntriesOK' /\ MeasuredAsConfigured'
  BY <1>1, <1>7, RetargetsOK
<1>8. CASE Drops
  <2>1. ASSUME NEW k \in Subs, aux'[k] # None PROVE aux'[k] = aux[k] BY <1>8, <2>1 DEF Drops
  <2>2. EntriesOK' BY <1>1, <1>8, <2>1 DEF Drops, EntriesOK, ValidEntry
  <2>3. MeasuredAsConfigured' BY <1>8, <2>1 DEF Drops, MeasuredAsConfigured, Target
  <2> QED BY <2>2, <2>3
<1> QED BY <1>2, <1>3, <1>4, <1>5, <1>6, <1>7, <1>8 DEF Effect

-----------------------------------------------------------------------------
(* What a step does to the checks *)

\* Whatever one process does leaves what the others carry.
LEMMA OthersKept ==
    ASSUME CarriedOK, NEW w \in Procs, Carries(w)', global' = global,
           \A v \in Procs : v # w =>
              /\ pc'[v] = pc[v] /\ key'[v] = key[v] /\ rev'[v] = rev[v] /\ exp'[v] = exp[v]
              /\ expGlobal'[v] = expGlobal[v] /\ outcome'[v] = outcome[v]
    PROVE  CarriedOK'
<1> SUFFICES ASSUME NEW v \in Procs, v # w PROVE Carries(v)'
    BY DEF CarriedOK
<1>1. Carries(v) BY DEF CarriedOK
<1>2. ValidEntry(exp[v]) => ValidEntry(exp[v])' BY DEF ValidEntry
<1> QED BY <1>1, <1>2 DEF Carries, ValidEntry

LEMMA FinishKeeps ==
    ASSUME LocalsOK, CarriedOK, NEW w \in Procs, Finish(w), global' = global
    PROVE  LocalsOK' /\ CarriedOK'
<1>1. LocalsOK' BY DEF LocalsOK, Finish, Goto, Labels
<1>2. pc'[w] = "idle" BY DEF LocalsOK, Finish, Goto
<1>3. Carries(w)' BY <1>2 DEF Carries, Checking
<1>4. \A v \in Procs : v # w =>
         /\ pc'[v] = pc[v] /\ key'[v] = key[v] /\ rev'[v] = rev[v] /\ exp'[v] = exp[v]
         /\ expGlobal'[v] = expGlobal[v] /\ outcome'[v] = outcome[v]
  BY DEF LocalsOK, Finish, Goto
<1> QED BY <1>1, <1>3, <1>4, OthersKept

\* A check that goes on with what it carries.
LEMMA GotoKeeps ==
    ASSUME LocalsOK, CarriedOK, NEW w \in Procs, NEW label \in Checking, Goto(w, label),
           UNCHANGED locals, global' = global, pc[w] \in Checking,
           label \in {"job", "probe"} => pc[w] \in {"job", "probe"},
           label # "commit"
    PROVE  LocalsOK' /\ CarriedOK'
<1>1. LocalsOK' BY DEF LocalsOK, Goto, Labels, Checking, locals
<1>2. pc'[w] = label /\ \A v \in Procs : v # w => pc'[v] = pc[v] BY DEF LocalsOK, Goto
<1>3. Carries(w) BY DEF CarriedOK
<1>4. Carries(w)' BY <1>2, <1>3 DEF Carries, Checking, locals, ValidEntry
<1> QED BY <1>1, <1>2, <1>4, OthersKept DEF locals

LEMMA FailKeeps ==
    ASSUME LocalsOK, CarriedOK, NEW w \in Procs, NEW result \in {"error", "busy", "conflict"},
           Fail(w, result), global' = global, pc[w] \in Checking
    PROVE  LocalsOK' /\ CarriedOK'
<1>1. CASE w = Scanner BY <1>1, GotoKeeps DEF Fail, Checking
<1>2. CASE w # Scanner BY <1>2, FinishKeeps DEF Fail
<1> QED BY <1>1, <1>2

LEMMA ManualStartKeeps ==
    ASSUME EntriesOK, RestOK, CarriedOK, NEW w \in Web, NEW k \in Subs, ManualStart(w, k)
    PROVE  LocalsOK' /\ CarriedOK'
<1>1. w \in Procs /\ w # Scanner BY ScannerAssumption DEF Procs
<1>2. reg[k].rev \in Revisions BY DEF ManualStart, RestOK
<1>3. LocalsOK' BY <1>1, <1>2 DEF ManualStart, RestOK, LocalsOK, Goto, Labels
<1>4. pc'[w] = "read" /\ key'[w] = k /\ rev'[w] = reg[k].rev
  BY <1>1 DEF ManualStart, RestOK, LocalsOK, Goto
<1>5. Carries(w)' BY <1>1, <1>2, <1>4 DEF Carries, Checking
<1>6. \A v \in Procs : v # w =>
         /\ pc'[v] = pc[v] /\ key'[v] = key[v] /\ rev'[v] = rev[v] /\ exp'[v] = exp[v]
         /\ expGlobal'[v] = expGlobal[v] /\ outcome'[v] = outcome[v]
  BY <1>1 DEF ManualStart, RestOK, LocalsOK, Goto
<1>7. global' = global BY DEF ManualStart, state
<1> QED BY <1>1, <1>3, <1>5, <1>6, <1>7, OthersKept

LEMMA AutoStartKeeps ==
    ASSUME RestOK, CarriedOK, AutoStart
    PROVE  LocalsOK' /\ CarriedOK' /\ queue' \in Seq(Subs)
<1>1. Scanner \in Procs BY DEF Procs
<1>2. Head(queue) \in Subs /\ Tail(queue) \in Seq(Subs) BY DEF AutoStart, RestOK
<1>3. LocalsOK' BY <1>1, <1>2 DEF AutoStart, RestOK, LocalsOK, Goto, Labels
<1>4. pc'[Scanner] = "read" /\ key'[Scanner] = Head(queue)
  BY <1>1 DEF AutoStart, RestOK, LocalsOK, Goto
<1>5. Carries(Scanner)' BY <1>2, <1>4 DEF Carries, Checking
<1>6. \A v \in Procs : v # Scanner =>
         /\ pc'[v] = pc[v] /\ key'[v] = key[v] /\ rev'[v] = rev[v] /\ exp'[v] = exp[v]
         /\ expGlobal'[v] = expGlobal[v] /\ outcome'[v] = outcome[v]
  BY <1>1 DEF AutoStart, RestOK, LocalsOK, Goto
<1>7. global' = global BY DEF AutoStart, state
<1> QED BY <1>1, <1>2, <1>3, <1>5, <1>6, <1>7, OthersKept DEF AutoStart

LEMMA ReadExpectedKeeps ==
    ASSUME EntriesOK, RestOK, CarriedOK, NEW w \in Procs, ReadExpected(w)
    PROVE  LocalsOK' /\ CarriedOK'
<1> DEFINE e == Entry(key[w])
           label == IF w = Scanner THEN "snapshot" ELSE "job"
<1>1. global' = global /\ LocalsOK BY DEF ReadExpected, state, RestOK
<1>2. key[w] \in Subs /\ (w # Scanner => rev[w] \in Revisions)
  BY DEF ReadExpected, CarriedOK, Carries
<1>3. e \in HEntry /\ ValidEntry(e) BY <1>2, EntryOK
<1>4. CASE Allowed(e, Trigger(w), clock)
  <2>1. /\ Goto(w, label) /\ exp' = [exp EXCEPT ![w] = e]
        /\ expGlobal' = [expGlobal EXCEPT ![w] = global]
        /\ UNCHANGED <<key, rev, outcome>>
    BY <1>4 DEF ReadExpected
  <2>2. w = Scanner => e.mode = "automatic" BY <1>4 DEF Allowed, Trigger, Due
  <2> HIDE DEF e
  <2>3. LocalsOK' BY <1>1, <1>3, <2>1 DEF LocalsOK, EntriesOK, Goto, Labels
  <2>4. /\ pc'[w] = label /\ exp'[w] = e /\ expGlobal'[w] = global /\ key'[w] = key[w]
        /\ rev'[w] = rev[w]
    BY <1>1, <2>1 DEF LocalsOK, Goto
  <2>5. Carries(w)' BY <1>1, <1>2, <1>3, <2>2, <2>4 DEF Carries, Checking, ValidEntry
  <2>6. \A v \in Procs : v # w =>
           /\ pc'[v] = pc[v] /\ key'[v] = key[v] /\ rev'[v] = rev[v] /\ exp'[v] = exp[v]
           /\ expGlobal'[v] = expGlobal[v] /\ outcome'[v] = outcome[v]
    BY <1>1, <2>1 DEF LocalsOK, Goto
  <2> QED BY <1>1, <2>3, <2>5, <2>6, OthersKept
<1>5. CASE ~Allowed(e, Trigger(w), clock)
  BY <1>1, <1>5, FinishKeeps DEF ReadExpected
<1> QED BY <1>4, <1>5

LEMMA AutoSnapshotKeeps ==
    ASSUME RestOK, CarriedOK, AutoSnapshot
    PROVE  LocalsOK' /\ CarriedOK'
<1> DEFINE k == key[Scanner]
<1>1. Scanner \in Procs BY DEF Procs
<1>2. global' = global /\ LocalsOK /\ pc[Scanner] = "snapshot"
  BY DEF AutoSnapshot, state, RestOK
<1>3. Carries(Scanner) BY <1>1 DEF CarriedOK
<1>4. CASE reg[k] = None /\ Finish(Scanner) BY <1>1, <1>2, <1>4, FinishKeeps
<1>5. CASE Fail(Scanner, "error") BY <1>1, <1>2, <1>5, FailKeeps DEF Checking
<1>6. CASE /\ reg[k] # None
           /\ rev' = [rev EXCEPT ![Scanner] = reg[k].rev]
           /\ Goto(Scanner, "job")
           /\ UNCHANGED <<key, exp, expGlobal, outcome>>
  <2>1. k \in Subs BY <1>2, <1>3 DEF Carries
  <2>2. reg[k].rev \in Revisions BY <1>6, <2>1 DEF RestOK
  <2>3. LocalsOK' BY <1>2, <1>6, <2>2 DEF LocalsOK, Goto, Labels
  <2>4. pc'[Scanner] = "job" /\ rev'[Scanner] = reg[k].rev
    BY <1>1, <1>2, <1>6 DEF LocalsOK, Goto
  <2>5. Carries(Scanner)'
    BY <1>2, <1>3, <1>6, <2>1, <2>2, <2>4 DEF Carries, Checking, ValidEntry
  <2>6. \A v \in Procs : v # Scanner =>
           /\ pc'[v] = pc[v] /\ key'[v] = key[v] /\ rev'[v] = rev[v] /\ exp'[v] = exp[v]
           /\ expGlobal'[v] = expGlobal[v] /\ outcome'[v] = outcome[v]
    BY <1>1, <1>2, <1>6 DEF LocalsOK, Goto
  <2> QED BY <1>1, <1>2, <2>3, <2>5, <2>6, OthersKept
<1> QED BY <1>4, <1>5, <1>6 DEF AutoSnapshot

LEMMA ProbeKeeps ==
    ASSUME RestOK, CarriedOK, NEW w \in Procs, Probe(w)
    PROVE  LocalsOK' /\ CarriedOK'
<1>1. global' = global /\ LocalsOK /\ pc[w] = "probe" BY DEF Probe, state, RestOK
<1>2. Carries(w) BY DEF CarriedOK
<1>3. PICK r \in Results(w) : outcome' = [outcome EXCEPT ![w] = r] BY DEF Probe
<1>4. r \in Outcomes
  <2>1. NodesOf[rev[w]] \in SUBSET Fingerprints
    BY <1>1, <1>2, NodesAssumption DEF Carries
  <2>2. r \in [NodesOf[rev[w]] -> {"success", "failure", "unsupported"}]
    BY <1>3 DEF Results
  <2> QED BY <2>1, <2>2 DEF Outcomes
<1>5. LocalsOK' BY <1>1, <1>3, <1>4 DEF Probe, LocalsOK, Goto, Labels
<1>6. pc'[w] = "commit" /\ outcome'[w] = r BY <1>1, <1>3 DEF Probe, LocalsOK, Goto
<1>7. Carries(w)'
  BY <1>1, <1>2, <1>4, <1>6 DEF Probe, Carries, Checking, ValidEntry
<1>8. \A v \in Procs : v # w =>
         /\ pc'[v] = pc[v] /\ key'[v] = key[v] /\ rev'[v] = rev[v] /\ exp'[v] = exp[v]
         /\ expGlobal'[v] = expGlobal[v] /\ outcome'[v] = outcome[v]
  BY <1>1, <1>3 DEF Probe, LocalsOK, Goto
<1> QED BY <1>1, <1>5, <1>7, <1>8, OthersKept

LEMMA TakeJobKeeps ==
    ASSUME RestOK, CarriedOK, NEW w \in Procs, TakeJob(w)
    PROVE  LocalsOK' /\ CarriedOK' /\ job' \in Procs \cup {None}
<1>1. global' = global /\ LocalsOK /\ pc[w] = "job" BY DEF TakeJob, state, RestOK
<1>2. CASE Goto(w, "probe") /\ UNCHANGED locals /\ job' \in {job, w}
  <2>1. LocalsOK' /\ CarriedOK' BY <1>1, <1>2, GotoKeeps DEF Checking
  <2> QED BY <1>2, <2>1 DEF RestOK
<1>3. CASE Fail(w, "busy") /\ UNCHANGED job
  <2>1. LocalsOK' /\ CarriedOK' BY <1>1, <1>3, FailKeeps DEF Checking
  <2> QED BY <1>3, <2>1 DEF RestOK
<1> QED BY <1>2, <1>3 DEF TakeJob

LEMMA CommitCheckKeeps ==
    ASSUME RestOK, CarriedOK, NEW w \in Procs, CommitCheck(w)
    PROVE  LocalsOK' /\ CarriedOK'
<1>1. global' = global /\ LocalsOK /\ pc[w] = "commit" BY DEF CommitCheck, RestOK
<1>2. Finish(w) \/ Fail(w, "error") \/ Fail(w, "conflict") BY DEF CommitCheck
<1>3. CASE Finish(w) BY <1>1, <1>3, FinishKeeps
<1>4. CASE Fail(w, "error") BY <1>1, <1>4, FailKeeps DEF Checking
<1>5. CASE Fail(w, "conflict") BY <1>1, <1>5, FailKeeps DEF Checking
<1> QED BY <1>2, <1>3, <1>4, <1>5

LEMMA ProbeFailsKeeps ==
    ASSUME RestOK, CarriedOK, NEW w \in Procs, ProbeFails(w)
    PROVE  LocalsOK' /\ CarriedOK'
<1>1. global' = global /\ LocalsOK /\ pc[w] = "probe" /\ Fail(w, "error")
  BY DEF ProbeFails, state, RestOK
<1> QED BY <1>1, FailKeeps DEF Checking

\* A new global target leaves what the checks carry: there was one before.
LEMMA SetGlobalKeeps ==
    ASSUME LocalsOK, CarriedOK, NEW t \in Targets, SetGlobal(t)
    PROVE  LocalsOK' /\ CarriedOK'
<1>1. UNCHANGED <<pc, locals>> /\ global' # None BY NoneAssumption DEF SetGlobal
<1>2. LocalsOK' BY <1>1 DEF LocalsOK, locals
<1>3. CarriedOK' BY <1>1 DEF CarriedOK, Carries, locals, ValidEntry
<1> QED BY <1>2, <1>3

LEMMA IdleKeeps ==
    ASSUME LocalsOK, CarriedOK, UNCHANGED <<pc, locals, global>>
    PROVE  LocalsOK' /\ CarriedOK'
<1>1. LocalsOK' BY DEF LocalsOK, locals
<1>2. CarriedOK' BY DEF CarriedOK, Carries, locals, ValidEntry
<1> QED BY <1>1, <1>2

\* The selection is a sequence of subscriptions.
LEMMA SelectedType == Selected \subseteq Seq(Subs)
<1>1. Ready \subseteq Subs BY DEF Ready
<1>2. Cardinality(Ready) \in Nat BY <1>1, SubsAssumption, FS_Subset, FS_CardinalityType
<1>3. Limit \in Nat BY TimeAssumption
<1> DEFINE number == IF Cardinality(Ready) < Limit THEN Cardinality(Ready) ELSE Limit
<1>4. number \in Nat BY <1>2, <1>3
<1>5. Selected \subseteq [1..number -> Ready] BY DEF Selected
<1> HIDE DEF number
<1>6. \A s \in [1..number -> Ready] : s \in Seq(Subs) BY <1>1, <1>4
<1> QED BY <1>5, <1>6

LEMMA LocalsStep ==
    ASSUME EntriesOK, RestOK, CarriedOK, [Next]_vars
    PROVE  LocalsOK' /\ CarriedOK'
<1>0. Scanner \in Procs /\ Web \subseteq Procs /\ LocalsOK BY DEF Procs, RestOK
<1>1. ASSUME NEW w \in Procs, Step(w) PROVE LocalsOK' /\ CarriedOK'
  <2>1. CASE ReadExpected(w) BY <2>1, ReadExpectedKeeps
  <2>2. CASE TakeJob(w) BY <2>2, TakeJobKeeps
  <2>3. CASE Probe(w) BY <2>3, ProbeKeeps
  <2>4. CASE ProbeFails(w) BY <2>4, ProbeFailsKeeps
  <2>5. CASE CommitCheck(w) BY <2>5, CommitCheckKeeps
  <2> QED BY <1>1, <2>1, <2>2, <2>3, <2>4, <2>5 DEF Step
<1>2. CASE AutoStart BY <1>2, AutoStartKeeps
<1>3. CASE AutoSnapshot BY <1>3, AutoSnapshotKeeps
<1>4. CASE RecordFailedJob
  <2>1. Finish(Scanner) /\ global' = global BY <1>4 DEF RecordFailedJob
  <2> QED BY <1>0, <2>1, FinishKeeps
<1>5. ASSUME NEW w \in Procs, Crash(w) PROVE LocalsOK' /\ CarriedOK'
  <2>1. Finish(w) /\ global' = global BY <1>5 DEF Crash, state
  <2> QED BY <1>0, <2>1, FinishKeeps
<1>6. ASSUME NEW w \in Web, NEW k \in Subs, ManualStart(w, k) PROVE LocalsOK' /\ CarriedOK'
  BY <1>6, ManualStartKeeps
<1>7. ASSUME NEW t \in Targets, SetGlobal(t) PROVE LocalsOK' /\ CarriedOK'
  BY <1>0, <1>7, SetGlobalKeeps
<1>8. ASSUME UNCHANGED <<pc, locals, global>> PROVE LocalsOK' /\ CarriedOK'
  BY <1>0, <1>8, IdleKeeps
<1>9. Scan \/ Tick \/ Describe \/ UNCHANGED vars => UNCHANGED <<pc, locals, global>>
  BY DEF Scan, Tick, Describe, vars, state, locals
<1>10. \A k \in Subs : Remove(k) \/ Publish(k) \/ Toggle(k) \/ Delete(k)
          => UNCHANGED <<pc, locals, global>>
  BY DEF Remove, Publish, Toggle, Delete
<1>11. \A k \in Subs, mode \in {"off", "manual", "automatic"}, o \in Targets \cup {None} :
          Settings(k, mode, o) => UNCHANGED <<pc, locals, global>>
  BY DEF Settings
<1> QED BY <1>0, <1>1, <1>2, <1>3, <1>4, <1>5, <1>6, <1>7, <1>8, <1>9, <1>10, <1>11
        DEF Next, Admin, ScannerStep

-----------------------------------------------------------------------------
(* The registry, the probe lock and the queue *)

LEMMA RegStep ==
    ASSUME RestOK, [Next]_vars
    PROVE  reg' \in [Subs -> [rev: Revisions, status: {"active", "disabled"}] \cup {None}]
<1> DEFINE Sub == [rev: Revisions, status: {"active", "disabled"}]
<1>1. UNCHANGED reg \/ \E k \in Subs : Publish(k) \/ Toggle(k) \/ Delete(k)
  BY DEF Next, Admin, ScannerStep, Step, vars, state, Scan, Tick, AutoStart, AutoSnapshot,
         RecordFailedJob, ReadExpected, TakeJob, Probe, ProbeFails, CommitCheck, ManualStart,
         Crash, Describe, SetGlobal, Remove, Settings
<1>2. reg \in [Subs -> Sub \cup {None}] BY DEF RestOK
<1>3. ASSUME NEW k \in Subs, Publish(k) PROVE reg' \in [Subs -> Sub \cup {None}]
  <2>1. reg[k] \in Sub BY <1>2, <1>3 DEF Publish
  <2>2. reg[k].rev + 1 \in Revisions BY <1>3, <2>1, TimeAssumption DEF Publish, Revisions
  <2>3. [reg[k] EXCEPT !.rev = @ + 1] \in Sub BY <2>1, <2>2
  <2> QED BY <1>2, <1>3, <2>3 DEF Publish
<1>4. ASSUME NEW k \in Subs, Toggle(k) PROVE reg' \in [Subs -> Sub \cup {None}]
  <2>1. reg[k] \in Sub BY <1>2, <1>4 DEF Toggle
  <2>2. [reg[k] EXCEPT !.status = IF @ = "active" THEN "disabled" ELSE "active"] \in Sub BY <2>1
  <2> QED BY <1>2, <1>4, <2>2 DEF Toggle
<1>5. ASSUME NEW k \in Subs, Delete(k) PROVE reg' \in [Subs -> Sub \cup {None}]
  BY <1>2, <1>5 DEF Delete
<1> QED BY <1>1, <1>2, <1>3, <1>4, <1>5

LEMMA RestStep ==
    ASSUME EntriesOK, RestOK, CarriedOK, [Next]_vars
    PROVE  RestOK' /\ CarriedOK'
<1>1. job' \in Procs \cup {None}
  <2>1. UNCHANGED job \/ \E w \in Procs : ReleaseJob(w) \/ TakeJob(w)
    BY DEF Next, Admin, ScannerStep, Step, vars, state, Scan, Tick, AutoStart, AutoSnapshot,
           RecordFailedJob, ReadExpected, Probe, ProbeFails, CommitCheck, ManualStart, Crash,
           Describe, SetGlobal, Remove, Settings, Publish, Toggle, Delete, Procs
  <2>2. \A w \in Procs : TakeJob(w) => job' \in {job, w} BY DEF TakeJob
  <2> QED BY <2>1, <2>2 DEF RestOK, ReleaseJob
<1>2. queue' \in Seq(Subs)
  <2>1. UNCHANGED queue \/ Scan \/ AutoStart \/ queue' = <<>>
    BY DEF Next, Admin, ScannerStep, Step, vars, state, Tick, AutoSnapshot, RecordFailedJob,
           ReadExpected, TakeJob, Probe, ProbeFails, CommitCheck, ManualStart, Crash,
           Describe, SetGlobal, Remove, Settings, Publish, Toggle, Delete
  <2>2. Scan => queue' \in Seq(Subs) BY SelectedType DEF Scan
  <2>3. AutoStart => queue' \in Seq(Subs) BY AutoStartKeeps
  <2>4. <<>> \in Seq(Subs) OBVIOUS
  <2> QED BY <2>1, <2>2, <2>3, <2>4 DEF RestOK
<1>3. LocalsOK' /\ CarriedOK' BY LocalsStep
<1> QED BY <1>1, <1>2, <1>3, RegStep DEF RestOK

LEMMA StepInv == IInv /\ [Next]_vars => IInv'
BY EntriesStep, RestStep DEF IInv

-----------------------------------------------------------------------------
(* The theorems *)

\* The invariant is inductive (NodeHealth, ProxyHealth, ScheduledHealth).
THEOREM Inductive == Spec => []IInv
<1> QED BY InitInv, StepInv, PTL DEF Spec

\* Whatever is written passes valid_state when it is read again.
THEOREM AlwaysValid == Spec => []ValidState
<1> QED BY Inductive, InvTypes, PTL

\* No observation is stored beside a target it was not measured with
\* (ProxyHealth._check, settings and set_global).
THEOREM AlwaysMeasuredAsConfigured == Spec => []MeasuredAsConfigured
<1>1. IInv => MeasuredAsConfigured BY DEF IInv
<1> QED BY <1>1, Inductive, PTL

\* Which fields a step may change, by its effect.
LEMMA ConfigureFields ==
    ASSUME EntriesOK, NEW k \in Subs, NEW mode \in {"off", "manual", "automatic"},
           NEW o \in Targets \cup {None}, Configures(k, mode, o), NEW j \in Subs
    PROVE  /\ j # k => aux'[j] = IF reg[j] = None THEN None ELSE aux[j]
           /\ aux'[k] = NewSettings(k, mode, o)
BY DEF Configures, Pruned, EntriesOK

LEMMA CompletesFields ==
    ASSUME EntriesOK, RestOK, CarriedOK, NEW w \in Procs, Completes(w), NEW k \in Subs
    PROVE  /\ k # key[w] => aux'[k] = IF reg[k] = None THEN None ELSE aux[k]
           /\ k = key[w] =>
                 /\ reg[k] # None /\ reg[k].rev = rev[w]
                 /\ w = Scanner => /\ reg[k].status = "active" /\ aux[k] # None
                                   /\ aux[k].mode = "automatic"
                 /\ aux[k] # None =>
                       /\ aux'[k].mode = aux[k].mode /\ aux'[k].override = aux[k].override
                       /\ aux'[k].check = aux[k].check + 1 /\ aux'[k].failures = 0
<1> DEFINE j == key[w]
           e == Entry(j)
           c == Completed(w)
<1>1. pc[w] = "commit" /\ Current(w) /\ ~Exhausted(w) BY DEF Completes
<1>2. /\ j \in Subs /\ reg[j] # None /\ reg[j].rev = rev[w]
      /\ w = Scanner => reg[j].status = "active" /\ exp[w].mode = "automatic"
      /\ exp[w] \in HEntry /\ ValidEntry(exp[w]) /\ outcome[w] \in Outcomes
      /\ e.mode = exp[w].mode /\ e.check = exp[w].check /\ e.override = exp[w].override
  BY <1>1, CurrentOK
<1>3. /\ c.mode = exp[w].mode /\ c.override = exp[w].override
      /\ c.check = exp[w].check + 1 /\ c.failures = 0
  BY <1>1, <1>2, CompletedOK DEF EntriesOK
<1>4. w = Scanner => aux[j] # None BY <1>2 DEF Entry, Empty
<1>5. aux[j] # None => e = aux[j] BY DEF Entry
<1> HIDE DEF c, e
<1>6. aux' = [Pruned EXCEPT ![j] = c] BY DEF Completes, c
<1>7. aux'[j] = c /\ (k # j => aux'[k] = IF reg[k] = None THEN None ELSE aux[k])
  BY <1>2, <1>6 DEF Pruned
<1> QED BY <1>2, <1>3, <1>4, <1>5, <1>7

\* check_revision is a version number of the mode, the target and the
\* observations, for every order of commits, settings and new global targets.
THEOREM VersionsAlwaysAdvance == Spec => VersionsAdvance
<1> DEFINE Advances(k) ==
      aux[k] # None /\ aux'[k] # None =>
          /\ aux'[k].check \in {aux[k].check, aux[k].check + 1}
          /\ \/ aux'[k].mode # aux[k].mode
             \/ aux'[k].nodes # aux[k].nodes
             \/ Target(aux'[k], global') # Target(aux[k], global)
             => aux'[k].check = aux[k].check + 1
<1>1. ASSUME IInv, [Next]_vars, NEW k \in Subs PROVE Advances(k)
  <2> SUFFICES ASSUME aux[k] # None, aux'[k] # None PROVE Advances(k)
      OBVIOUS
  <2>1. EntriesOK /\ RestOK /\ CarriedOK BY <1>1 DEF IInv
  <2>2. ASSUME aux'[k] = aux[k], global' = global PROVE Advances(k) BY <2>2
  <2>3. CASE Quiet BY <2>2, <2>3 DEF Quiet
  <2>4. ASSUME NEW w \in Procs, Completes(w) PROVE Advances(k)
    <3>1. global' = global BY <2>4 DEF Completes
    <3>2. CASE k = key[w]
      <4>1. /\ aux'[k].mode = aux[k].mode /\ aux'[k].override = aux[k].override
            /\ aux'[k].check = aux[k].check + 1
        BY <2>1, <2>4, <3>2, CompletesFields
      <4> QED BY <4>1
    <3>3. CASE k # key[w]
      <4>1. aux'[k] = aux[k] BY <2>1, <2>4, <3>3, CompletesFields
      <4> QED BY <2>2, <3>1, <4>1
    <3> QED BY <3>2, <3>3
  <2>5. CASE RecordsFailure
    <3> DEFINE j == key[Scanner]
               r == Recorded(exp[Scanner], pc[Scanner])
    <3>1. Carries(Scanner) BY <2>1 DEF CarriedOK, Procs
    <3>2. j \in Subs /\ exp[Scanner] \in HEntry /\ ValidEntry(exp[Scanner])
      BY <2>5, <3>1 DEF Carries, Checking, RecordsFailure
    <3>3. aux[j] = exp[Scanner] /\ exp[Scanner].mode = "automatic" /\ global' = global
      BY <2>5 DEF RecordsFailure, Unmoved
    <3>4. clock \in Nat BY <2>1, TimeAssumption DEF EntriesOK
    <3>5. /\ r.mode = aux[j].mode /\ r.override = aux[j].override /\ r.nodes = aux[j].nodes
          /\ r.check = aux[j].check
      BY <3>2, <3>3, <3>4, RecordedOK
    <3> HIDE DEF r
    <3>6. aux' = [aux EXCEPT ![j] = r] BY <2>5 DEF RecordsFailure, r
    <3>7. aux'[j] = r /\ (k # j => aux'[k] = aux[k]) BY <2>1, <3>2, <3>6 DEF EntriesOK
    <3>8. CASE k = j BY <3>3, <3>5, <3>7, <3>8 DEF Target
    <3>9. CASE k # j BY <2>2, <3>3, <3>7, <3>9
    <3> QED BY <3>8, <3>9
  <2>6. ASSUME NEW j \in Subs, NEW mode \in {"off", "manual", "automatic"},
               NEW o \in Targets \cup {None}, Configures(j, mode, o)
        PROVE  Advances(k)
    <3>1. global' = global BY <2>6 DEF Configures
    <3>2. CASE k # j
      <4>1. aux'[k] = aux[k] BY <2>1, <2>6, <3>2, ConfigureFields
      <4> QED BY <2>2, <3>1, <4>1
    <3>3. CASE k = j
      <4> DEFINE n == NewSettings(j, mode, o)
                 e == Entry(j)
                 moved == (IF e.override = None THEN global ELSE e.override)
                            # (IF o = None THEN global ELSE o)
      <4>1. /\ n.mode = mode /\ n.override = o /\ n.nodes = (IF moved THEN <<>> ELSE e.nodes)
            /\ n.check = IF moved \/ e.mode # mode THEN e.check + 1 ELSE e.check
        BY <2>1, <2>6, NewSettingsOK DEF Configures
      <4>2. aux'[k] = n BY <2>1, <2>6, <3>3, ConfigureFields
      <4>3. e = aux[k] BY <3>3 DEF Entry
      <4> HIDE DEF n, e
      <4> QED BY <3>1, <4>1, <4>2, <4>3 DEF Target
    <3> QED BY <3>2, <3>3
  <2>7. ASSUME NEW t \in Targets, Retargets(t) PROVE Advances(k)
    <3>1. global' = t BY <2>7 DEF Retargets, SetGlobal
    <3>2. CASE global # t /\ aux[k].override = None
      <4>1. aux'[k].check = aux[k].check + 1 BY <2>1, <2>7, <3>2, ResetFields
      <4> QED BY <4>1
    <3>3. CASE ~(global # t /\ aux[k].override = None)
      <4>1. aux'[k] = aux[k] BY <2>1, <2>7, <3>3, ResetFields
      <4>2. Target(aux'[k], global') = Target(aux[k], global) BY <3>1, <3>3, <4>1 DEF Target
      <4> QED BY <4>1, <4>2
    <3> QED BY <3>2, <3>3
  <2>8. CASE Drops BY <2>2, <2>8 DEF Drops
  <2> QED BY <1>1, <2>1, <2>3, <2>4, <2>5, <2>6, <2>7, <2>8, StepHasEffect DEF Effect
<1>2. IInv /\ [Next]_vars => [\A k \in Subs : Advances(k)]_vars BY <1>1
<1> QED BY <1>2, Inductive, PTL DEF Spec, VersionsAdvance

\* A disable, a deletion or another mode discards the result of an automatic
\* check under way, and no late check recreates what was deleted.
THEOREM StoppedNeverCommitted == Spec => StoppedNotCommitted
<1> DEFINE Stopped(k) ==
          /\ aux'[k] # None /\ aux'[k].at # None /\ aux'[k] # aux[k]
             /\ pc[Scanner] = "commit" /\ pc'[Scanner] = "idle" /\ key[Scanner] = k
             => /\ reg[k] # None /\ reg[k].status = "active" /\ reg[k].rev = rev[Scanner]
                /\ aux[k] # None /\ aux[k].mode = "automatic"
          /\ reg[k] = None /\ aux'[k] # None =>
                aux[k] # None /\ aux'[k].nodes \in {aux[k].nodes, <<>>}
<1>1. ASSUME IInv, [Next]_vars, NEW k \in Subs PROVE Stopped(k)
  <2>1. EntriesOK /\ RestOK /\ CarriedOK BY <1>1 DEF IInv
  <2>2. ASSUME aux'[k] \in {aux[k], None} PROVE Stopped(k) BY <2>2
  <2>3. ASSUME NEW w \in Procs, Completes(w) PROVE Stopped(k)
    <3>1. CASE k # key[w]
      <4>1. aux'[k] \in {aux[k], None} BY <2>1, <2>3, <3>1, CompletesFields
      <4> QED BY <2>2, <4>1
    <3>2. CASE k = key[w]
      <4>1. reg[k] # None /\ reg[k].rev = rev[w] BY <2>1, <2>3, <3>2, CompletesFields
      <4>2. CASE w = Scanner BY <2>1, <2>3, <3>2, <4>1, <4>2, CompletesFields
      <4>3. CASE w # Scanner
        <5>1. pc'[Scanner] = pc[Scanner] BY <2>3, <4>3 DEF Completes
        <5> QED BY <4>1, <5>1
      <4> QED BY <4>2, <4>3
    <3> QED BY <3>1, <3>2
  <2>4. CASE RecordsFailure
    <3>1. CASE k = key[Scanner] BY <2>4, <3>1 DEF RecordsFailure, Unmoved
    <3>2. CASE k # key[Scanner] BY <2>1, <2>2, <2>4, <3>2 DEF RecordsFailure, EntriesOK
    <3> QED BY <3>1, <3>2
  <2>5. ASSUME NEW j \in Subs, NEW mode \in {"off", "manual", "automatic"},
               NEW o \in Targets \cup {None}, Configures(j, mode, o)
        PROVE  Stopped(k)
    <3>1. CASE k = j BY <2>5, <3>1 DEF Configures
    <3>2. CASE k # j
      <4>1. aux'[k] \in {aux[k], None} BY <2>1, <2>5, <3>2, ConfigureFields
      <4> QED BY <2>2, <4>1
    <3> QED BY <3>1, <3>2
  <2>6. ASSUME NEW t \in Targets, Retargets(t) PROVE Stopped(k)
    <3>1. pc' = pc BY <2>6 DEF Retargets, SetGlobal
    <3>2. aux[k] = None => aux'[k] = None BY <2>1, <2>6, ResetFields
    <3>3. aux[k] # None => aux'[k] = aux[k] \/ aux'[k].nodes = <<>>
      BY <2>1, <2>6, ResetFields
    <3> QED BY <3>1, <3>2, <3>3
  <2>7. CASE Quiet \/ Drops BY <2>2, <2>7 DEF Quiet, Drops
  <2> QED BY <1>1, <2>1, <2>3, <2>4, <2>5, <2>6, <2>7, StepHasEffect DEF Effect
<1>2. IInv /\ [Next]_vars => [\A k \in Subs : Stopped(k)]_vars BY <1>1
<1> QED BY <1>2, Inductive, PTL DEF Spec, StoppedNotCommitted

\* Only the scanner's own failed job counts as a failure of the schedule
\* (health_schedule.record).
THEOREM OnlyJobFailuresEverCount == Spec => OnlyJobFailuresCount
<1> DEFINE Counts(k) ==
      aux[k] # None /\ aux'[k] # None =>
          (aux'[k].failures > aux[k].failures => pc[Scanner] = "error" /\ key[Scanner] = k)
<1>1. ASSUME IInv, [Next]_vars, NEW k \in Subs PROVE Counts(k)
  <2> SUFFICES ASSUME aux[k] # None, aux'[k] # None PROVE Counts(k)
      OBVIOUS
  <2>1. EntriesOK /\ RestOK /\ CarriedOK BY <1>1 DEF IInv
  <2>2. aux[k].failures \in Nat
    <3>1. aux[k] \in HEntry BY <2>1 DEF EntriesOK
    <3>2. aux[k].failures \in 0..Len(Backoff) BY <3>1, EntryFields
    <3> QED BY <3>2
  <2>3. ASSUME aux'[k].failures \in {0, aux[k].failures} PROVE Counts(k) BY <2>2, <2>3
  <2>4. ASSUME aux'[k] = aux[k] PROVE Counts(k) BY <2>3, <2>4
  <2>5. ASSUME NEW w \in Procs, Completes(w) PROVE Counts(k)
    <3>1. CASE k # key[w]
      <4>1. aux'[k] = aux[k] BY <2>1, <2>5, <3>1, CompletesFields
      <4> QED BY <2>4, <4>1
    <3>2. CASE k = key[w]
      <4>1. aux'[k].failures = 0 BY <2>1, <2>5, <3>2, CompletesFields
      <4> QED BY <2>3, <4>1
    <3> QED BY <3>1, <3>2
  <2>6. CASE RecordsFailure
    <3> DEFINE r == Recorded(exp[Scanner], pc[Scanner])
    <3>1. CASE k # key[Scanner]
      <4>1. aux'[k] = aux[k] BY <2>1, <2>6, <3>1 DEF RecordsFailure, EntriesOK
      <4> QED BY <2>4, <4>1
    <3>2. CASE k = key[Scanner]
      <4>1. Carries(Scanner) BY <2>1 DEF CarriedOK, Procs
      <4>2. exp[Scanner] \in HEntry /\ ValidEntry(exp[Scanner])
        BY <2>6, <4>1 DEF Carries, Checking, RecordsFailure
      <4>3. aux[k] = exp[Scanner] /\ exp[Scanner].mode = "automatic"
        BY <2>6, <3>2 DEF RecordsFailure, Unmoved
      <4>4. clock \in Nat BY <2>1, TimeAssumption DEF EntriesOK
      <4>5. pc[Scanner] \in {"busy", "conflict"} => r.failures = aux[k].failures
        BY <4>2, <4>3, <4>4, RecordedOK
      <4> HIDE DEF r
      <4>6. aux' = [aux EXCEPT ![key[Scanner]] = r] BY <2>6 DEF RecordsFailure, r
      <4>7. aux'[k] = r BY <2>1, <3>2, <4>6 DEF EntriesOK
      <4>8. CASE pc[Scanner] = "error" BY <3>2, <4>8
      <4>9. CASE pc[Scanner] \in {"busy", "conflict"} BY <2>3, <4>5, <4>7, <4>9
      <4> QED BY <2>6, <4>8, <4>9 DEF RecordsFailure
    <3> QED BY <3>1, <3>2
  <2>7. ASSUME NEW j \in Subs, NEW mode \in {"off", "manual", "automatic"},
               NEW o \in Targets \cup {None}, Configures(j, mode, o)
        PROVE  Counts(k)
    <3>1. CASE k # j
      <4>1. aux'[k] = aux[k] BY <2>1, <2>7, <3>1, ConfigureFields
      <4> QED BY <2>4, <4>1
    <3>2. CASE k = j
      <4>1. aux'[k] = NewSettings(k, mode, o) BY <2>1, <2>7, <3>2, ConfigureFields
      <4>2. NewSettings(k, mode, o).failures \in {0, Entry(k).failures}
        BY <2>1, <2>7, <3>2, NewSettingsOK DEF Configures
      <4>3. Entry(k) = aux[k] BY DEF Entry
      <4> QED BY <2>3, <4>1, <4>2, <4>3
    <3> QED BY <3>1, <3>2
  <2>8. ASSUME NEW t \in Targets, Retargets(t) PROVE Counts(k)
    <3>1. aux'[k].failures \in {0, aux[k].failures} BY <2>1, <2>8, ResetFields
    <3> QED BY <2>3, <3>1
  <2>9. CASE Quiet \/ Drops BY <2>4, <2>9 DEF Quiet, Drops
  <2> QED BY <1>1, <2>1, <2>5, <2>6, <2>7, <2>8, <2>9, StepHasEffect DEF Effect
<1>2. IInv /\ [Next]_vars => [\A k \in Subs : Counts(k)]_vars BY <1>1
<1> QED BY <1>2, Inductive, PTL DEF Spec, OnlyJobFailuresCount

=============================================================================
