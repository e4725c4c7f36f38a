------------------------------- MODULE Sidecar -------------------------------
(***************************************************************************)
(* The opt-in hook of update.sh (scripts/backup_sidecar_update.py): after      *)
(* the legacy backup it copies a subset of it, has it collected, written,      *)
(* verified and registered, and permits or blocks the upgrade.  The tools are  *)
(* Snapshot and Catalog; here each ends with a status and a set of codes.      *)
(***************************************************************************)
EXTENDS Integers, FiniteSets, Sequences

CONSTANTS
    None,
    MaxWrites,  \* bound on writes to the legacy backup
    MaxFaults   \* bound on failures and interrupts

BoundsAssumption == MaxWrites \in Nat /\ MaxFaults \in Nat
NamesAssumption == None \notin 0..MaxWrites

VARIABLES
    mode,       \* "OPTIONAL" or "STRICT"
    legacy,     \* version of the legacy backup
    active,     \* a known writer runs, or a unit is not dead
    space,      \* the reserve of the deployment is there
    inherited,  \* the inherited guard is valid
    at,         \* index in Program
    phase,      \* "run", or how the run ends
    seen,       \* what the run saw of the legacy backup
    codes,      \* validation codes
    report,
    history,    \* what happened, whether the run noticed it or not
    faults

outside == <<mode, legacy, active, space, inherited>>
vars == <<mode, legacy, active, space, inherited, at, phase, seen, codes, report, history, faults>>

Program == <<"guard", "probe", "headroom", "inventory", "copy", "recheck", "probe",
             "collector", "writer", "verifier", "catalog_register", "catalog_verify",
             "confirm", "probe", "permit">>
Tools == {"collector", "writer", "verifier", "catalog_register", "catalog_verify"}
\* What a caught interrupt is called; the verifier lets it through to the hook.
Interrupted == [collector |-> "COLLECTION_INTERRUPTED", writer |-> "CREATION_INTERRUPTED",
                verifier |-> "INTEGRATION_INTERRUPTED",
                catalog_register |-> "REGISTRATION_INTERRUPTED",
                catalog_verify |-> "INSPECTION_INTERRUPTED"]
GlobalCodes == {"DISK_FULL", "READ_FAILED", "BACKUP_CHANGED", "HEADROOM_INSUFFICIENT",
    "QUIET_GATE_REFUSED", "COLLECTION_INTERRUPTED", "CREATION_INTERRUPTED",
    "REGISTRATION_INTERRUPTED"}
Ordinary == {"SIDECAR_STAGE_FAILED", "TIME_LIMIT"}
Guard == "DEPLOYMENT_GUARD"
\* A tool that fails for an ordinary reason, and one whose reads fail.
Refusals == {{"VERIFICATION_FAILED"}, {"READ_FAILED"}}

TypeOK ==
    /\ mode \in {"OPTIONAL", "STRICT"} /\ legacy \in 0..MaxWrites
    /\ {active, space, inherited} \subseteq BOOLEAN
    /\ at \in DOMAIN Program
    /\ phase \in {"run", "except", "retry_space", "retry_confirm", "retry_probe",
                  "finally", "over", "killed"}
    /\ codes \subseteq GlobalCodes \cup Ordinary \cup (UNION Refusals)
                       \cup {Interrupted[t] : t \in Tools} \cup {Guard}
    /\ report.upgrade \in {"BLOCKED", "PERMITTED", "PERMITTED_WITH_FAILURE"}
    /\ report.sidecar \in {"NOT_RUN", "FAILED", "TRUSTED"}
    /\ faults \in 0..MaxFaults

Init ==
    /\ mode \in {"OPTIONAL", "STRICT"}
    /\ legacy = 0 /\ active \in BOOLEAN /\ space = TRUE /\ inherited = TRUE
    /\ at = 1 /\ phase = "run" /\ codes = {} /\ faults = 0
    /\ seen = [before |-> None, copied |-> None]
    /\ report = [upgrade |-> "BLOCKED", sidecar |-> "NOT_RUN", catalog |-> "NOT_RUN"]
    /\ history = [interrupted |-> FALSE, unreadable |-> FALSE, confirmed |-> None]

Running == phase = "run"
At(step) == Running /\ Program[at] = step
Fault == faults < MaxFaults /\ faults' = faults + 1
Ends(how) == phase' = how /\ UNCHANGED at
Raise(new) == codes' = codes \cup new /\ Ends("except")
Continue == at' = at + 1 /\ UNCHANGED <<phase, codes>>
Require(ok, code) == IF ok THEN Continue ELSE Raise({code})

-----------------------------------------------------------------------------

\* guard_inherited
CheckGuard ==
    /\ At("guard") /\ Require(inherited, Guard)
    /\ UNCHANGED <<outside, seen, report, history, faults>>
\* quiet_evidence: units, jobs and processes, between two validations of the guard.
Probe ==
    /\ At("probe") /\ Require(inherited /\ ~active, IF inherited THEN "QUIET_GATE_REFUSED" ELSE Guard)
    /\ UNCHANGED <<outside, seen, report, history, faults>>
\* headroom; the operation directory of this run alone.
Headroom ==
    /\ At("headroom") /\ Require(space, "HEADROOM_INSUFFICIENT")
    /\ UNCHANGED <<outside, seen, report, history, faults>>
\* LegacySubset.inventory, or a limit on what it may read.
Inventory ==
    /\ At("inventory")
    /\ \/ Continue /\ seen' = [seen EXCEPT !.before = legacy] /\ UNCHANGED faults
       \/ Raise({"TIME_LIMIT"}) /\ Fault /\ UNCHANGED seen
    /\ UNCHANGED <<outside, report, history>>
\* LegacySubset.copy, every file against its inventoried fingerprint.
Copy ==
    /\ At("copy") /\ Require(legacy = seen.before, "BACKUP_CHANGED")
    /\ seen' = [seen EXCEPT !.copied = legacy]
    /\ UNCHANGED <<outside, report, history, faults>>
Recheck ==
    /\ At("recheck") /\ Require(legacy = seen.before, "BACKUP_CHANGED")
    /\ UNCHANGED <<outside, seen, report, history, faults>>

\* stage: a tool's codes are kept and the reserve is checked, also when it failed.
Tool(t, new, success) ==
    /\ At(t)
    /\ LET kept == codes \cup new
       IN  IF ~space THEN codes' = kept \cup {"HEADROOM_INSUFFICIENT"} /\ Ends("except")
           ELSE IF ~success THEN codes' = kept \cup {"SIDECAR_STAGE_FAILED"} /\ Ends("except")
           ELSE codes' = kept /\ at' = at + 1 /\ UNCHANGED phase
    /\ report' = [sidecar |-> IF success /\ space /\ t = "catalog_verify" THEN "TRUSTED" ELSE "FAILED",
                  catalog |-> IF t \notin {"catalog_register", "catalog_verify"} THEN report.catalog
                              ELSE IF success /\ space /\ t = "catalog_verify" THEN "TRUSTED"
                              ELSE "FAILED",
                  upgrade |-> "BLOCKED"]
    /\ UNCHANGED <<outside, seen>>
ToolSucceeds(t) == Tool(t, {}, TRUE) /\ UNCHANGED <<history, faults>>
ToolFails(t) ==
    \E new \in Refusals :
        /\ Tool(t, new, FALSE) /\ Fault
        /\ history' = [history EXCEPT !.unreadable = @ \/ "READ_FAILED" \in new]
\* The interrupt of a tool that catches it is one of its codes.
ToolInterrupted(t) ==
    /\ At(t) /\ Fault /\ history' = [history EXCEPT !.interrupted = TRUE]
    /\ IF t = "verifier" THEN Raise({Interrupted[t]}) /\ UNCHANGED <<outside, seen, report>>
       ELSE Tool(t, {Interrupted[t]}, FALSE)
\* A step of the hook itself is interrupted or meets a full disk.
StepFails(code) ==
    /\ Running /\ Program[at] \notin Tools /\ Raise({code}) /\ Fault
    /\ history' = [history EXCEPT !.interrupted = @ \/ code = "INTEGRATION_INTERRUPTED"]
    /\ UNCHANGED <<outside, seen, report>>

\* confirm_legacy
ConfirmedEarlier == TRUE
Confirmed == seen.before \in {None, legacy}
Confirm ==
    /\ At("confirm") /\ Require(Confirmed, "BACKUP_CHANGED")
    /\ history' = [history EXCEPT !.confirmed = legacy]
    /\ UNCHANGED <<outside, seen, report, faults>>
Permit ==
    /\ At("permit") /\ Ends("finally")
    /\ report' = [report EXCEPT !.upgrade = "PERMITTED"]
    /\ UNCHANGED <<outside, seen, codes, history, faults>>

-----------------------------------------------------------------------------
(* The end *)

Fatal == codes \cap GlobalCodes # {} \/ Guard \in codes
\* Only known ordinary failures are looked at again, and only in OPTIONAL.
Except ==
    /\ phase = "except"
    /\ Ends(IF mode = "OPTIONAL" /\ ~Fatal /\ codes \cap Ordinary # {}
            THEN "retry_space" ELSE "finally")
    /\ UNCHANGED <<outside, seen, codes, report, history, faults>>
Retry(step, ok, code, following) ==
    /\ phase = step
    /\ IF ok THEN Ends(following) /\ UNCHANGED codes
       ELSE Ends("finally") /\ codes' = codes \cup {code}
    /\ UNCHANGED <<outside, seen, faults>>
RetrySpace ==
    /\ Retry("retry_space", space, "HEADROOM_INSUFFICIENT", "retry_confirm")
    /\ UNCHANGED <<report, history>>
RetryConfirm ==
    /\ Retry("retry_confirm", Confirmed, "BACKUP_CHANGED", "retry_probe")
    /\ history' = [history EXCEPT !.confirmed = legacy] /\ UNCHANGED report
RetryProbe ==
    /\ Retry("retry_probe", inherited /\ ~active, "QUIET_GATE_REFUSED", "finally")
    /\ report' = IF inherited /\ ~active THEN [report EXCEPT !.upgrade = "PERMITTED_WITH_FAILURE"]
                 ELSE report
    /\ UNCHANGED history
\* The guard is validated once more; only duplicates are closed.
Finally ==
    /\ phase = "finally" /\ Ends("over")
    /\ IF inherited THEN UNCHANGED <<codes, report>>
       ELSE codes' = codes \cup {Guard} /\ report' = [report EXCEPT !.upgrade = "BLOCKED"]
    /\ UNCHANGED <<outside, seen, history, faults>>

-----------------------------------------------------------------------------
(* Outside *)

Outside(changed) == phase \notin {"over", "killed"} /\ changed /\ UNCHANGED <<mode, at, phase, seen, codes, report, history>>
WriteLegacy == Outside(legacy < MaxWrites /\ legacy' = legacy + 1)
               /\ UNCHANGED <<active, space, inherited, faults>>
WriterStarts == Outside(active' = ~active) /\ Fault /\ UNCHANGED <<legacy, space, inherited>>
DiskFills == Outside(space' = ~space) /\ Fault /\ UNCHANGED <<legacy, active, inherited>>
GuardLost == Outside(inherited /\ inherited' = FALSE) /\ Fault /\ UNCHANGED <<legacy, active, space>>
Kill == phase \notin {"over", "killed"} /\ Fault /\ Ends("killed")
        /\ UNCHANGED <<outside, seen, codes, report, history>>

Next ==
    \/ CheckGuard \/ Probe \/ Headroom \/ Inventory \/ Copy \/ Recheck
    \/ \E t \in Tools : ToolSucceeds(t) \/ ToolFails(t) \/ ToolInterrupted(t)
    \/ \E code \in {"INTEGRATION_INTERRUPTED", "DISK_FULL"} : StepFails(code)
    \/ Confirm \/ Permit \/ Except \/ RetrySpace \/ RetryConfirm \/ RetryProbe \/ Finally
    \/ WriteLegacy \/ WriterStarts \/ DiskFills \/ GuardLost \/ Kill

Spec == Init /\ [][Next]_vars

-----------------------------------------------------------------------------

Permitted == phase = "over" /\ report.upgrade # "BLOCKED"

\* An upgrade goes on only beside the legacy backup that was inventoried, however
\* the sidecar ended; a trusted sidecar is of those bytes, and in STRICT there is one.
PermittedIsWhatWasCaptured ==
    Permitted =>
        /\ seen.before \in {None, history.confirmed}
        /\ report.sidecar = "TRUSTED" => seen.copied = history.confirmed
        /\ mode = "STRICT" => report.sidecar = "TRUSTED" /\ report.catalog = "TRUSTED"
        /\ ~history.unreadable

\* docs/BACKUP_UPDATER_SIDECAR.md:164 of a caught interruption: the upgrade may not go on.
InterruptedNeverContinues == Permitted => ~history.interrupted

=============================================================================
