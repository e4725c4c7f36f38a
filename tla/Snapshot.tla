------------------------------ MODULE Snapshot ------------------------------
(***************************************************************************)
(* The offline snapshot writer (scripts/backup_create.py), the allowlist     *)
(* collector built on it (scripts/backup_collect.py) and the verifier both   *)
(* rely on (scripts/backup_verify.py).                                       *)
(*                                                                         *)
(* A call inventories a source that is promised to be quiet, copies it into  *)
(* a private staging directory, checks both again and publishes the staging  *)
(* with a rename that never replaces.  The version of a file stands for its   *)
(* bytes and its fingerprint; Tampered for bytes nobody wrote.               *)
(***************************************************************************)
EXTENDS Integers, FiniteSets, Sequences

CONSTANTS
    Paths,      \* selected files of the source
    None,
    MaxWrites,  \* bound on the versions of a file
    MaxFaults   \* bound on errors, interrupts, kills and disturbances

BoundsAssumption == MaxWrites \in Nat /\ MaxFaults \in Nat

VARIABLES
    source,     \* version of each file, None while there is none
    place,      \* what is at the names "stage" and "dest": "absent", "foreign", "ours"
    stored,     \* the copied tree, wherever it is
    call,       \* the running call
    report,     \* what it returns
    faults

vars == <<source, place, stored, call, report, faults>>

Tampered == -1
NamesAssumption == None \notin {Tampered} \cup 0..MaxWrites
Nothing == [p \in Paths |-> None]
CreateProgram ==
    <<"absent", "inventory", "stage", "copy", "check_source", "manifest", "check_stage",
      "verify_stage", "check_source", "check_stage", "publish", "check_dest",
      "verify_dest", "check_dest", "report">>
CollectProgram ==
    <<"absent", "inventory", "stage", "copy", "check_source", "manifest", "check_stage",
      "check_source", "publish", "check_dest", "verify_dest", "check_source", "report">>
Program(tool) == IF tool = "create" THEN CreateProgram ELSE CollectProgram

TypeOK ==
    /\ \A p \in Paths : source[p] \in {None} \cup 0..MaxWrites
    /\ place \in [{"stage", "dest"} -> {"absent", "foreign", "ours"}]
    /\ \A p \in Paths : stored[p] \in {None, Tampered} \cup 0..MaxWrites
    /\ call.phase \in {"run", "finally", "clean", "over", "killed"}
    /\ report.status \in {"FAILED", "CREATED"}
    /\ report.publication \in {"NOT_PUBLISHED", "PUBLISHED", "UNCERTAIN"}
    /\ report.cleanup \in {"NOT_NEEDED", "NOT_ATTEMPTED", "CLEANED", "FAILED"}
    /\ faults \in 0..MaxFaults

\* empty_report; nothing is staged, owned or published.
Init ==
    /\ source \in [Paths -> {None, 0}]
    /\ place \in {[stage |-> "absent", dest |-> d] : d \in {"absent", "foreign"}}
    /\ stored = Nothing
    /\ \E tool \in {"create", "collect"} :
          call = [tool |-> tool, phase |-> "run", pc |-> 1, seen |-> {}, before |-> Nothing,
                  named |-> FALSE, owned |-> FALSE, published |-> FALSE,
                  asOf |-> Nothing, verified |-> Nothing]
    /\ report = [status |-> "FAILED", publication |-> "NOT_PUBLISHED",
                 cleanup |-> "NOT_NEEDED", retained |-> FALSE, residue |-> FALSE]
    /\ faults = 0

Fault == faults < MaxFaults /\ faults' = faults + 1
At(step) == call.phase = "run" /\ Program(call.tool)[call.pc] = step
Advanced == [call EXCEPT !.pc = @ + 1, !.seen = {}]
Raised == [call EXCEPT !.phase = "finally"]
Passed(ok) == call' = IF ok THEN Advanced ELSE Raised
\* A step per file; the walk raises at the first mismatch.
Walked(p, ok) ==
    call' = IF ~ok THEN Raised
            ELSE IF call.seen \cup {p} = Paths THEN Advanced
            ELSE [call EXCEPT !.seen = @ \cup {p}]

-----------------------------------------------------------------------------
(* The steps *)

\* No object may be at the destination; stat without opening it.
CheckAbsent ==
    /\ At("absent") /\ Passed(place["dest"] = "absent")
    /\ UNCHANGED <<source, place, stored, report, faults>>

\* source_snapshot / inventory; asOf is the source when the walk ends.
Inventory(p) ==
    /\ At("inventory") /\ p \notin call.seen
    /\ LET walked == [call EXCEPT !.before[p] = source[p], !.seen = @ \cup {p}]
       IN  call' = IF walked.seen = Paths
                   THEN [walked EXCEPT !.pc = @ + 1, !.seen = {}, !.asOf = source] ELSE walked
    /\ UNCHANGED <<source, place, stored, report, faults>>

\* The collector names its staging before it creates it, the writer afterwards.
MakeStage ==
    /\ At("stage")
    /\ place' = [place EXCEPT !["stage"] = "ours"]
    /\ \/ call' = [Advanced EXCEPT !.named = TRUE, !.owned = TRUE] /\ UNCHANGED faults
       \/ call' = [Raised EXCEPT !.named = call.tool = "collect"] /\ Fault
    /\ UNCHANGED <<source, stored, report>>

\* An inventoried file must still have its fingerprint when it was read.
Copy(p) ==
    /\ At("copy") /\ p \notin call.seen
    /\ LET same == call.before[p] \in {None, source[p]}
       IN  /\ Walked(p, same)
           /\ stored' = IF same THEN [stored EXCEPT ![p] = call.before[p]] ELSE stored
    /\ UNCHANGED <<source, place, report, faults>>

\* check_source: a second inventory must equal the first.
UnchangedAssumed(p) == TRUE
Unchanged(p) == source[p] = call.before[p]
CheckSource(p) ==
    /\ At("check_source") /\ p \notin call.seen
    /\ Walked(p, Unchanged(p))
    /\ UNCHANGED <<source, place, stored, report, faults>>

\* manifest / validate_output: what is stored is what was copied.
AsCopied == stored = call.before
Manifest ==
    /\ At("manifest") /\ Passed(AsCopied)
    /\ UNCHANGED <<source, place, stored, report, faults>>

\* check_stage, after the parent: the inode made by this call is at the name.
CheckPlace(name) ==
    /\ At(IF name = "stage" THEN "check_stage" ELSE "check_dest")
    /\ Passed(place[name] = "ours")
    /\ UNCHANGED <<source, place, stored, report, faults>>

\* verify: every listed file, no other, with the bytes of the manifest.
Verify(name) ==
    /\ At(IF name = "stage" THEN "verify_stage" ELSE "verify_dest")
    /\ LET found == place[name] = "ours" \/ call.tool = "collect"  \* by its descriptor
       IN  call' = [(IF found /\ AsCopied THEN Advanced ELSE Raised) EXCEPT !.verified = stored]
    /\ UNCHANGED <<source, place, stored, report, faults>>

\* renameat2 with RENAME_NOREPLACE; an interrupt may follow the system call.
Publish ==
    /\ At("publish")
    /\ IF place["dest"] = "absent" /\ place["stage"] = "ours"
       THEN /\ place' = [stage |-> "absent", dest |-> "ours"]
            /\ \/ /\ call' = [Advanced EXCEPT !.published = TRUE]
                  /\ report' = [report EXCEPT !.publication = "PUBLISHED"]
                  /\ UNCHANGED faults
               \/ call' = Raised /\ Fault /\ UNCHANGED report
       ELSE call' = Raised /\ UNCHANGED <<place, report, faults>>
    /\ UNCHANGED <<source, stored>>

\* A handle that cannot be closed turns the result into a failure.
Report ==
    /\ At("report") /\ call' = [call EXCEPT !.phase = "over"]
    /\ \/ report' = [report EXCEPT !.status = "CREATED"] /\ UNCHANGED faults
       \/ report' = [report EXCEPT !.retained = TRUE, !.cleanup = "NOT_ATTEMPTED"] /\ Fault
    /\ UNCHANGED <<source, place, stored>>

-----------------------------------------------------------------------------
(* The end of a call that was not created *)

Over(changes) == report' = changes /\ call' = [call EXCEPT !.phase = "over"]
\* The destination is looked at: a rename may have happened without being noticed.
Published == call.published \/ (call.owned /\ place["dest"] = "ours")
Finally ==
    /\ call.phase = "finally"
    /\ IF ~call.named THEN Over(report)
       ELSE IF Published
       THEN Over([report EXCEPT !.publication = "PUBLISHED", !.retained = TRUE,
                               !.cleanup = "NOT_ATTEMPTED"])
       ELSE call' = [call EXCEPT !.phase = "clean"] /\ UNCHANGED report
    /\ UNCHANGED <<source, place, stored, faults>>
\* The destination cannot be looked at: whatever is there, nothing is removed.
FinallyBlind ==
    /\ call.phase = "finally" /\ call.named /\ ~call.published /\ Fault
    /\ Over([report EXCEPT !.publication = "UNCERTAIN", !.retained = TRUE,
                           !.cleanup = "NOT_ATTEMPTED", !.residue = TRUE])
    /\ UNCHANGED <<source, place, stored>>

\* cleanup: recorded inodes one by one, the directory last.
CleanFile(p) ==
    /\ call.phase = "clean" /\ call.owned /\ place["stage"] = "ours" /\ stored[p] # None
    /\ stored' = [stored EXCEPT ![p] = None]
    /\ UNCHANGED <<source, place, call, report, faults>>
CleanStage ==
    /\ call.phase = "clean" /\ call.owned /\ place["stage"] = "ours" /\ stored = Nothing
    /\ place' = [place EXCEPT !["stage"] = "absent"]
    /\ Over([report EXCEPT !.cleanup = "CLEANED"])
    /\ UNCHANGED <<source, stored, faults>>
\* An interrupt is swallowed here as well.
CleanFails ==
    /\ call.phase = "clean"
    /\ IF call.owned /\ place["stage"] = "ours" THEN Fault ELSE UNCHANGED faults
    /\ Over([report EXCEPT !.cleanup = "FAILED", !.residue = TRUE])
    /\ UNCHANGED <<source, place, stored>>

-----------------------------------------------------------------------------
(* Failures and others *)

\* An I/O error, a limit, an interrupt or a refused file at any step.
Fails ==
    /\ call.phase = "run" /\ Fault /\ call' = Raised
    /\ UNCHANGED <<source, place, stored, report>>
Kill ==
    /\ call.phase \in {"run", "finally", "clean"} /\ Fault
    /\ call' = [call EXCEPT !.phase = "killed"]
    /\ UNCHANGED <<source, place, stored, report>>
\* The source is not as quiet as promised.
Write(p) ==
    /\ call.phase = "run" /\ source[p] # MaxWrites
    /\ source' = [source EXCEPT ![p] = IF @ = None THEN 0 ELSE @ + 1]
    /\ UNCHANGED <<place, stored, call, report, faults>>
\* Somebody takes the destination, moves a tree away or alters stored bytes.
Occupy ==
    /\ call.phase = "run" /\ place["dest"] = "absent" /\ Fault
    /\ place' = [place EXCEPT !["dest"] = "foreign"]
    /\ UNCHANGED <<source, stored, call, report>>
TakeAway(name) ==
    /\ call.phase = "run" /\ place[name] = "ours" /\ Fault
    /\ place' = [place EXCEPT ![name] = "absent"]
    /\ UNCHANGED <<source, stored, call, report>>
Tamper(p) ==
    /\ call.phase = "run" /\ stored[p] # None /\ Fault
    /\ stored' = [stored EXCEPT ![p] = Tampered]
    /\ UNCHANGED <<source, place, call, report>>

Next ==
    \/ CheckAbsent \/ MakeStage \/ Manifest \/ Publish \/ Report
    \/ \E p \in Paths : \/ Inventory(p) \/ Copy(p) \/ CheckSource(p) \/ CleanFile(p)
                        \/ Write(p) \/ Tamper(p)
    \/ \E name \in {"stage", "dest"} : CheckPlace(name) \/ Verify(name) \/ TakeAway(name)
    \/ Finally \/ FinallyBlind \/ CleanStage \/ CleanFails
    \/ Fails \/ Kill \/ Occupy

Spec == Init /\ [][Next]_vars

-----------------------------------------------------------------------------

\* A call that reports success verified exactly the source of one moment, the end
\* of its inventory, however the files were written to in the meantime.
CreatedIsTheSource ==
    report.status = "CREATED" => call.verified = call.asOf

\* A call that returned never hides what it published, also when it did not notice,
\* and a published tree is complete: cleaning up never starts on it.
PublicationReported ==
    /\ call.phase = "over" /\ place["dest"] = "ours" => report.publication # "NOT_PUBLISHED"
    /\ place["dest"] = "ours" => \A p \in Paths : call.before[p] # None => stored[p] # None
SnapshotSound == CreatedIsTheSource /\ PublicationReported

=============================================================================
