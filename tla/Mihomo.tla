------------------------------- MODULE Mihomo -------------------------------
(***************************************************************************)
(* The managed Mihomo engine: core/mihomo_manager.py.                      *)
(*                                                                         *)
(* The binary and the metadata that describes it are two files, replaced    *)
(* and removed one after the other under a lock; status reads them without  *)
(* the lock.  Builds are the amd64 levels; arm64 has one.                   *)
(***************************************************************************)
EXTENDS Integers, Sequences

CONSTANTS
    MaxLevel,     \* the builds are 1..MaxLevel
    CpuLevel,     \* the highest level this processor supports
    None,         \* a file that does not exist
    MaxFaults     \* bound on failing replacements and kills

LevelAssumption == MaxLevel \in Nat /\ CpuLevel \in 1..MaxLevel
FaultsAssumption == MaxFaults \in Nat

VARIABLES
    binary,    \* the build that is installed
    metadata,  \* the build the metadata describes
    job,       \* the process that holds the lock
    reader,    \* a process that asks for the status
    faults,
    \* history
    verified,  \* builds that answered to -v before they were installed, and the first
    kept       \* FALSE once a failing restore or a kill broke the pair

vars == <<binary, metadata, job, reader, faults, verified, kept>>
files == <<binary, metadata>>

Builds == 1..MaxLevel
Other == 0                      \* a file of another version
Content == Builds \cup {Other, None}
AtRest == [mode |-> "idle"]

TypeOK ==
    /\ binary \in Content /\ metadata \in Content
    /\ job.mode \in {"idle", "try", "binary", "metadata", "verify", "undo binary",
                     "undo metadata", "remove binary", "remove metadata"}
    /\ reader.mode \in {"idle", "described", "hashed", "said"}
    /\ faults \in 0..MaxFaults /\ verified \subseteq Builds /\ kept \in BOOLEAN

Init ==
    /\ binary \in Content /\ metadata \in Content
    /\ job = AtRest /\ reader = AtRest
    /\ faults = 0 /\ verified = {binary} \cap Builds /\ kept = TRUE

-----------------------------------------------------------------------------
(* status: three reads, of the metadata, of the hash, and the version check. *)

Described(meta, bin) ==
    IF bin = None /\ meta = None THEN "NOT INSTALLED"
    ELSE IF bin = None \/ meta = None THEN "BROKEN"
    ELSE IF meta = Other THEN "INCOMPATIBLE" ELSE "?"
HashedUnchecked(meta, bin) == IF meta > CpuLevel THEN "INCOMPATIBLE" ELSE "?"
Hashed(meta, bin) ==
    IF bin # meta THEN "BROKEN"
    ELSE IF meta > CpuLevel THEN "INCOMPATIBLE" ELSE "?"
\* A build above the level of the processor does not run, others may not.
Ran(bin, runs) == IF bin = None \/ ~runs THEN "BROKEN"
                  ELSE IF bin = Other THEN "INCOMPATIBLE" ELSE "COMPATIBLE"
Runs(bin) == IF bin = None \/ bin > CpuLevel THEN {FALSE} ELSE BOOLEAN

Say(verdict, meta) == [mode |-> "said", verdict |-> verdict, build |-> meta]
Ask ==
    /\ reader.mode \in {"idle", "said"}
    /\ reader' = IF Described(metadata, binary) = "?"
                 THEN [mode |-> "described", build |-> metadata]
                 ELSE Say(Described(metadata, binary), metadata)
    /\ UNCHANGED <<files, job, faults, verified, kept>>
Hash ==
    /\ reader.mode = "described"
    /\ reader' = IF Hashed(reader.build, binary) = "?"
                 THEN [reader EXCEPT !.mode = "hashed"]
                 ELSE Say(Hashed(reader.build, binary), reader.build)
    /\ UNCHANGED <<files, job, faults, verified, kept>>
\* The Settings page stops at the hash.
Answer ==
    /\ reader.mode = "hashed"
    /\ \/ reader' = Say("COMPATIBLE", reader.build)
       \/ \E runs \in Runs(binary) : reader' = Say(Ran(binary, runs), reader.build)
    /\ UNCHANGED <<files, job, faults, verified, kept>>

-----------------------------------------------------------------------------

Idle == job = AtRest
End == job' = AtRest
Move(mode) == job' = [job EXCEPT !.mode = mode]
Fault == faults < MaxFaults /\ faults' = faults + 1

\* Builds from the level of the processor down, each downloaded and verified.
Install ==
    /\ Idle
    /\ job' = [mode |-> "try", level |-> CpuLevel, before |-> files]
    /\ UNCHANGED <<files, reader, faults, verified, kept>>

\* Only a verified artifact that does not run gives way to a lower build.
Accepted(runs) == runs
Try ==
    /\ job.mode = "try"
    /\ \E runs \in Runs(job.level) :
         /\ \/ Accepted(runs) /\ Move("binary")
            \/ ~Accepted(runs) /\ job.level > 1 /\ job' = [job EXCEPT !.level = @ - 1]
            \/ ~Accepted(runs) /\ job.level = 1 /\ End
         /\ verified' = IF runs THEN verified \cup {job.level} ELSE verified
    /\ UNCHANGED <<files, reader, faults, kept>>

ReplaceBinary ==
    /\ job.mode = "binary"
    /\ binary' = job.level /\ Move("metadata")
    /\ UNCHANGED <<metadata, reader, faults, verified, kept>>

ReplaceMetadata ==
    /\ job.mode = "metadata"
    /\ metadata' = job.level /\ Move("verify")
    /\ UNCHANGED <<binary, reader, faults, verified, kept>>

Verify ==
    /\ job.mode = "verify"
    /\ \E runs \in Runs(binary) : IF runs THEN End ELSE Move("undo binary")
    /\ UNCHANGED <<files, reader, faults, verified, kept>>

\* A download or a check fails before a file changed; a replacement fails, with
\* or without effect; or undoing fails.
UndoMetadataOnly == "undo metadata"
Undo == "undo binary"
Fail ==
    /\ Fault
    /\ \/ job.mode = "try" /\ End /\ UNCHANGED <<binary, kept>>
       \/ job.mode = "binary" /\ binary' \in {binary, job.level} /\ Move(Undo)
          /\ UNCHANGED kept
       \/ job.mode = "metadata" /\ Move(Undo) /\ UNCHANGED <<binary, kept>>
       \/ /\ job.mode \in {"undo binary", "undo metadata", "remove binary", "remove metadata"}
          /\ End /\ kept' = FALSE /\ UNCHANGED binary
    /\ UNCHANGED <<metadata, reader, verified>>

UndoBinary ==
    /\ job.mode = "undo binary"
    /\ binary' = job.before[1] /\ Move("undo metadata")
    /\ UNCHANGED <<metadata, reader, faults, verified, kept>>
UndoMetadata ==
    /\ job.mode = "undo metadata"
    /\ metadata' = job.before[2] /\ End
    /\ UNCHANGED <<binary, reader, faults, verified, kept>>

Remove ==
    /\ Idle /\ job' = [mode |-> "remove binary"]
    /\ UNCHANGED <<files, reader, faults, verified, kept>>
RemoveBinary ==
    /\ job.mode = "remove binary"
    /\ binary' = None /\ Move("remove metadata")
    /\ UNCHANGED <<metadata, reader, faults, verified, kept>>
RemoveMetadata ==
    /\ job.mode = "remove metadata"
    /\ metadata' = None /\ End
    /\ UNCHANGED <<binary, reader, faults, verified, kept>>

Kill ==
    /\ ~Idle /\ Fault /\ End
    /\ kept' = (kept /\ job.mode \in {"try", "binary", "remove binary"})
    /\ UNCHANGED <<files, reader, verified>>

Next ==
    \/ Ask \/ Hash \/ Answer
    \/ Install \/ Try \/ ReplaceBinary \/ ReplaceMetadata \/ Verify
    \/ Fail \/ UndoBinary \/ UndoMetadata
    \/ Remove \/ RemoveBinary \/ RemoveMetadata \/ Kill

Spec == Init /\ [][Next]_vars

-----------------------------------------------------------------------------

\* "Previous component preserved": an install that ends without a kill or a
\* failing restore leaves either a pair it verified or both files as they were,
\* at whichever of its steps it gave up.
PreservedStep ==
    job.mode \notin {"idle", "remove binary", "remove metadata"}
    /\ job'.mode = "idle" /\ kept' =>
        \/ <<binary', metadata'>> = job.before
        \/ binary' = job.level /\ metadata' = job.level /\ job.level \in verified
PreviousPreserved == [][PreservedStep]_vars

\* However reads interleave with an install, its undoing or a removal, and
\* whatever a kill left of a pair, COMPATIBLE is said only of a build that ran
\* here before it was installed, or that was there from the start.
CompatibleWasVerified ==
    reader.mode = "said" => (reader.verdict = "COMPATIBLE" => reader.build \in verified)

=============================================================================
