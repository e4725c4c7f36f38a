------------------------------- MODULE Catalog -------------------------------
(***************************************************************************)
(* The trust catalog of offline snapshots (scripts/backup_catalog.py):        *)
(* register, verify and inspect under a nonblocking lock on the catalog's      *)
(* directory, with a staged record published by a rename that never replaces.  *)
(***************************************************************************)
EXTENDS Integers, FiniteSets

CONSTANTS
    Calls,       \* invocations; a registration's name is its snapshot id
    Snapshots,   \* places a snapshot is at
    Operations,  \* operation ids of the updater
    None,
    MaxRecords,  \* capacity
    MaxAlters,   \* bound on alterations of a snapshot
    MaxFaults    \* bound on errors, interrupts and kills

CapacityAssumption == MaxRecords \in Nat \ {0}
BoundsAssumption == MaxAlters \in Nat /\ MaxFaults \in Nat
NamesAssumption == None \notin [op: Operations, at: Snapshots, digest: 0..MaxAlters]

VARIABLES
    records,   \* published records by snapshot id
    residue,   \* staged records
    bytes,     \* version of what is at each place
    call,      \* the invocations
    report,    \* what they return
    faults

vars == <<records, residue, bytes, call, report, faults>>

Steps == {"new", "inventory", "verify", "stage", "verify staged", "compare", "publish",
          "verify published", "confirm", "lookup", "check", "recheck", "show",
          "finally", "over", "killed"}
TypeOK ==
    /\ records \in [Calls -> [op: Operations, at: Snapshots, digest: 0..MaxAlters] \cup {None}]
    /\ residue \subseteq Calls
    /\ bytes \in [Snapshots -> 0..MaxAlters]
    /\ \A c \in Calls : call[c].at \in Steps
    /\ \A c \in Calls : report[c].status \in {"FAILED", "REGISTERED", "TRUSTED", "INSPECTED"}
    /\ faults \in 0..MaxFaults

\* The arguments of an invocation are fixed; the digest was handed over by the writer.
Init ==
    /\ records = [c \in Calls |-> None] /\ residue = {} /\ bytes = [s \in Snapshots |-> 0]
    /\ call = [c \in Calls |-> [at |-> "new"]]
    /\ report = [c \in Calls |-> [status |-> "FAILED", publication |-> "NOT_PUBLISHED",
                                  retained |-> FALSE]]
    /\ faults = 0

Fault == faults < MaxFaults /\ faults' = faults + 1
At(c, step) == call[c].at = step
Goes(c, step) == call' = [call EXCEPT ![c] = IF step \in {"over", "killed"} THEN [at |-> step]
                                              ELSE [@ EXCEPT !.at = step]]
Passed(c, ok, step) == Goes(c, IF ok THEN step ELSE "finally")
Running == {c \in Calls : call[c].at \notin {"new", "over", "killed"}}
Registered == {c \in Calls : records[c] # None}

-----------------------------------------------------------------------------
(* The lock: shared for readers, exclusive for a registration, never waiting *)

Free(write) == \A d \in Running : ~write /\ call[d].action # "register"
Start(c, arguments) ==
    /\ At(c, "new")
    /\ call' = [call EXCEPT ![c] =
           IF Free(arguments.action = "register") THEN arguments ELSE [at |-> "over"]]
    /\ UNCHANGED <<records, residue, bytes, report, faults>>
StartRegister(c, place, op) ==
    Start(c, [at |-> "inventory", action |-> "register", place |-> place, op |-> op,
              digest |-> bytes[place], seen |-> {}])
StartVerify(c, place, target) ==
    Start(c, [at |-> "inventory", action |-> "verify", place |-> place, target |-> target,
              digest |-> bytes[place], seen |-> {}])
StartInspect(c, target) ==
    Start(c, [at |-> "inventory", action |-> "inspect", target |-> target, seen |-> {}])

-----------------------------------------------------------------------------
(* register *)

\* A staging left by a killed registration stops every later one.
AdmittedTwice(c) == residue = {} /\ Cardinality(Registered) < MaxRecords
Admitted(c) ==
    /\ residue = {}
    /\ Cardinality(Registered) < MaxRecords
    /\ \A d \in Registered : records[d].op # call[c].op /\ records[d].at # call[c].place
Inventory(c) ==
    /\ At(c, "inventory")
    /\ IF call[c].action = "register"
       THEN call' = [call EXCEPT ![c].at = IF Admitted(c) THEN "verify" ELSE "finally",
                                 ![c].seen = Registered]
       ELSE call' = [call EXCEPT ![c].at = IF call[c].action = "verify" THEN "lookup" ELSE "show",
                                 ![c].seen = Registered]
    /\ UNCHANGED <<records, residue, bytes, report, faults>>

\* verify_snapshot: the verifier with the operator's digest, three times.
Matches(c) == bytes[call[c].place] = call[c].digest
VerifyFor(c, step, following) ==
    /\ At(c, step) /\ Passed(c, Matches(c), following)
    /\ UNCHANGED <<records, residue, bytes, report, faults>>
VerifySnapshot(c) ==
    \/ VerifyFor(c, "verify", "stage")
    \/ VerifyFor(c, "verify staged", "compare")
    \/ VerifyFor(c, "verify published", "confirm")

WriteStage(c) ==
    /\ At(c, "stage")
    /\ residue' = residue \cup {c} /\ Goes(c, "verify staged")
    /\ UNCHANGED <<records, bytes, report, faults>>
\* The second inventory: the first one and this call's staging.
Compare(c) ==
    /\ At(c, "compare")
    /\ Passed(c, residue = {c} /\ Registered = call[c].seen, "publish")
    /\ UNCHANGED <<records, residue, bytes, report, faults>>
\* An interrupt may follow the system call.
Publish(c) ==
    /\ At(c, "publish")
    /\ residue' = residue \ {c}
    /\ records' = [records EXCEPT ![c] =
           [op |-> call[c].op, at |-> call[c].place, digest |-> call[c].digest]]
    /\ \/ /\ Goes(c, "verify published") /\ UNCHANGED faults
          /\ report' = [report EXCEPT ![c].publication = "PUBLISHED"]
       \/ Goes(c, "finally") /\ Fault /\ UNCHANGED report
    /\ UNCHANGED bytes
Confirm(c) ==
    /\ At(c, "confirm")
    /\ LET ok == residue = {} /\ Registered = call[c].seen \cup {c}
       IN  /\ Goes(c, IF ok THEN "over" ELSE "finally")
           /\ report' = IF ok THEN [report EXCEPT ![c].status = "REGISTERED"] ELSE report
    /\ UNCHANGED <<records, residue, bytes, faults>>

\* cleanup: the name is looked at before the staging is removed.
Published(c) == records[c] # None
Finally(c) ==
    /\ At(c, "finally")
    /\ IF Published(c)
       THEN /\ report' = [report EXCEPT ![c].publication = "PUBLISHED", ![c].retained = TRUE]
            /\ UNCHANGED residue
       ELSE residue' = residue \ {c} /\ UNCHANGED report
    /\ Goes(c, "over")
    /\ UNCHANGED <<records, bytes, faults>>
\* Neither the lookup nor the removal need succeed.
FinallyFails(c) ==
    /\ At(c, "finally") /\ c \in residue \cup Registered /\ Fault
    /\ report' = [report EXCEPT ![c].publication = IF @ = "PUBLISHED" THEN @ ELSE "UNCERTAIN",
                                ![c].retained = TRUE]
    /\ Goes(c, "over")
    /\ UNCHANGED <<records, residue, bytes>>

-----------------------------------------------------------------------------
(* verify and inspect *)

\* The record is the anchor: its place, and its digest instead of the caller's.
Anchor(c) == records[call[c].target].digest
Lookup(c) ==
    /\ At(c, "lookup")
    /\ IF call[c].target \in Registered /\ records[call[c].target].at = call[c].place
       THEN call' = [call EXCEPT ![c].at = "check", ![c].digest = Anchor(c)]
       ELSE Goes(c, "finally")
    /\ UNCHANGED <<records, residue, bytes, report, faults>>
Check(c) ==
    /\ At(c, "check") /\ Passed(c, Matches(c), "recheck")
    /\ UNCHANGED <<records, residue, bytes, report, faults>>
Recheck(c) ==
    /\ At(c, "recheck")
    /\ Passed(c, Registered = call[c].seen, "over")
    /\ report' = IF Registered = call[c].seen
                 THEN [report EXCEPT ![c] = [status |-> "TRUSTED", about |-> call[c].target,
                                             digest |-> call[c].digest]]
                 ELSE report
    /\ UNCHANGED <<records, residue, bytes, faults>>
Show(c) ==
    /\ At(c, "show")
    /\ Passed(c, call[c].target \in Registered, "over")
    /\ report' = IF call[c].target \in Registered
                 THEN [report EXCEPT ![c].status = "INSPECTED"] ELSE report
    /\ UNCHANGED <<records, residue, bytes, faults>>

-----------------------------------------------------------------------------

Fails(c) ==
    /\ c \in Running /\ ~At(c, "finally") /\ Fault /\ Goes(c, "finally")
    /\ UNCHANGED <<records, residue, bytes, report>>
Kill(c) ==
    /\ c \in Running /\ Fault /\ Goes(c, "killed")
    /\ UNCHANGED <<records, residue, bytes, report>>
Alter(s) ==
    /\ bytes[s] < MaxAlters /\ bytes' = [bytes EXCEPT ![s] = @ + 1]
    /\ UNCHANGED <<records, residue, call, report, faults>>

Next ==
    \/ \E c \in Calls :
         \/ \E s \in Snapshots, op \in Operations : StartRegister(c, s, op)
         \/ \E s \in Snapshots, target \in Calls : StartVerify(c, s, target)
         \/ \E target \in Calls : StartInspect(c, target)
         \/ Inventory(c) \/ VerifySnapshot(c) \/ WriteStage(c) \/ Compare(c) \/ Publish(c)
         \/ Confirm(c) \/ Finally(c) \/ FinallyFails(c)
         \/ Lookup(c) \/ Check(c) \/ Recheck(c) \/ Show(c)
         \/ Fails(c) \/ Kill(c)
    \/ \E s \in Snapshots : Alter(s)

Spec == Init /\ [][Next]_vars

-----------------------------------------------------------------------------

\* Whatever was killed, interrupted or reported as failed before: a snapshot and an
\* operation have one record, a call that returned never hides a record it published,
\* and what verify trusts are the bytes that were registered.
OneRecordEach ==
    \A c, d \in Registered : c # d => records[c].op # records[d].op /\ records[c].at # records[d].at
RecordReported ==
    \A c \in Registered : At(c, "over") => report[c].status = "REGISTERED" \/ report[c].retained
TrustedIsRegistered ==
    \A c \in Calls : report[c].status = "TRUSTED" =>
        /\ report[c].about \in Registered
        /\ report[c].digest = records[report[c].about].digest
CatalogSound == OneRecordEach /\ RecordReported /\ TrustedIsRegistered

=============================================================================
