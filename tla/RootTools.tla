------------------------------ MODULE RootTools ------------------------------
(***************************************************************************)
(* The tools an administrator runs as root.  They share nothing but the      *)
(* machine: a behaviour is one of one tool.                                  *)
(***************************************************************************)
EXTENDS Integers

CONSTANTS
    None,
    Hosts, MaxBackups, MaxEdits, HttpsFaults,
    MaxLevel, CpuLevel, EngineFaults,
    Updaters, Offered, Installed, ServiceWrites, UpgradeFaults,
    Paths, SourceWrites, SnapshotFaults,
    Calls, Snapshots, Operations, MaxRecords, MaxAlters, CatalogFaults,
    BackupWrites, SidecarFaults

VARIABLES
    tool,  \* the module this behaviour is of
    disk, app, web, backups, run, edits, foreign, torn,
    binary, metadata, job, reader, verified, kept,
    holders, parent, child, timers, running, data, code, info, backup,
    source, place, stored,
    records, residue, bytes,
    mode, legacy, active, space, inherited, at, phase, seen, codes, history,
    call, report, faults

https == <<disk, app, web, backups, run, edits, foreign, torn>>
mihomo == <<binary, metadata, job, reader, verified, kept>>
upgrade == <<holders, parent, child, timers, running, data, code, info, backup>>
snapshot == <<source, place, stored>>
catalog == <<records, residue, bytes>>
sidecar == <<mode, legacy, active, space, inherited, at, phase, seen, codes, history>>
vars == <<tool, https, mihomo, upgrade, snapshot, catalog, sidecar, call, report, faults>>

Https == INSTANCE HttpsSetupProperties WITH MaxFaults <- HttpsFaults
Mihomo == INSTANCE Mihomo WITH MaxFaults <- EngineFaults
Upgrade == INSTANCE UpgradeProofs WITH
    Builds <- Offered, MaxWrites <- ServiceWrites, MaxFaults <- UpgradeFaults
Snapshot == INSTANCE Snapshot WITH MaxWrites <- SourceWrites, MaxFaults <- SnapshotFaults
Catalog == INSTANCE Catalog WITH MaxFaults <- CatalogFaults
Sidecar == INSTANCE Sidecar WITH MaxWrites <- BackupWrites, MaxFaults <- SidecarFaults

\* A file that does not exist is no build of the engine.
NoneAssumption == None \notin 1..MaxLevel /\ None # 0

ASSUME RootToolsAssumption ==
    /\ Https!BoundsAssumption /\ Https!NamesAssumption
    /\ Mihomo!LevelAssumption /\ Mihomo!FaultsAssumption /\ NoneAssumption
    /\ Upgrade!BuildsAssumption /\ Upgrade!BoundsAssumption
    /\ Catalog!CapacityAssumption /\ Catalog!BoundsAssumption /\ Catalog!NamesAssumption
    /\ Snapshot!BoundsAssumption /\ Snapshot!NamesAssumption
    /\ Sidecar!BoundsAssumption /\ Sidecar!NamesAssumption

-----------------------------------------------------------------------------

Unused == "unused"
NoHttps == /\ disk = Unused /\ app = Unused /\ web = Unused /\ backups = Unused
           /\ run = Unused /\ edits = Unused /\ foreign = Unused /\ torn = Unused
NoMihomo == /\ binary = Unused /\ metadata = Unused /\ job = Unused /\ reader = Unused
            /\ verified = Unused /\ kept = Unused
NoUpgrade == /\ holders = Unused /\ parent = Unused /\ child = Unused /\ timers = Unused
             /\ running = Unused /\ data = Unused /\ code = Unused /\ info = Unused
             /\ backup = Unused
NoSnapshot == source = Unused /\ place = Unused /\ stored = Unused
NoCatalog == records = Unused /\ residue = Unused /\ bytes = Unused
NoSidecar == /\ mode = Unused /\ legacy = Unused /\ active = Unused /\ space = Unused
             /\ inherited = Unused /\ at = Unused /\ phase = Unused /\ seen = Unused
             /\ codes = Unused /\ history = Unused
NoCall == call = Unused /\ report = Unused

Init ==
    \/ /\ tool = "https" /\ Https!Init
       /\ NoMihomo /\ NoUpgrade /\ NoSnapshot /\ NoCatalog /\ NoSidecar /\ NoCall
    \/ /\ tool = "mihomo" /\ Mihomo!Init
       /\ NoHttps /\ NoUpgrade /\ NoSnapshot /\ NoCatalog /\ NoSidecar /\ NoCall
    \/ /\ tool = "upgrade" /\ Upgrade!Init
       /\ NoHttps /\ NoMihomo /\ NoSnapshot /\ NoCatalog /\ NoSidecar /\ NoCall
    \/ /\ tool = "snapshot" /\ Snapshot!Init
       /\ NoHttps /\ NoMihomo /\ NoUpgrade /\ NoCatalog /\ NoSidecar
    \/ /\ tool = "catalog" /\ Catalog!Init
       /\ NoHttps /\ NoMihomo /\ NoUpgrade /\ NoSnapshot /\ NoSidecar
    \/ /\ tool = "sidecar" /\ Sidecar!Init
       /\ NoHttps /\ NoMihomo /\ NoUpgrade /\ NoSnapshot /\ NoCatalog /\ call = Unused

Next ==
    \/ /\ tool = "https" /\ Https!Next
       /\ UNCHANGED <<tool, mihomo, upgrade, snapshot, catalog, sidecar, call, report>>
    \/ /\ tool = "mihomo" /\ Mihomo!Next
       /\ UNCHANGED <<tool, https, upgrade, snapshot, catalog, sidecar, call, report>>
    \/ /\ tool = "upgrade" /\ Upgrade!Next
       /\ UNCHANGED <<tool, https, mihomo, snapshot, catalog, sidecar, call, report>>
    \/ /\ tool = "snapshot" /\ Snapshot!Next
       /\ UNCHANGED <<tool, https, mihomo, upgrade, catalog, sidecar>>
    \/ /\ tool = "catalog" /\ Catalog!Next
       /\ UNCHANGED <<tool, https, mihomo, upgrade, snapshot, sidecar>>
    \/ /\ tool = "sidecar" /\ Sidecar!Next
       /\ UNCHANGED <<tool, https, mihomo, upgrade, snapshot, catalog, call>>

Spec == Init /\ [][Next]_vars

-----------------------------------------------------------------------------
(* The properties of the modules, each with the types of its module once. *)

\* The latest HTTPS transaction can always be undone, and when none is half done
\* the services run what is on disk and no setting of a past domain is left.
LatestCanBeUndone ==
    tool = "https" => /\ Https!TypeOK /\ Https!LatestCanBeUndone
                      /\ Https!ServedAsOnDisk /\ Https!SettingsComeBack

\* An edit leaves the live file only by a transaction that has it in its own backup.
NoEditLost == [][tool = "https" => Https!NoEditLostStep]_vars

\* COMPATIBLE is said only of an engine that ran here.
CompatibleWasVerified == tool = "mihomo" => Mihomo!TypeOK /\ Mihomo!CompatibleWasVerified

\* An install that gives up leaves the previous pair of files.
PreviousPreserved == [][tool = "mihomo" => Mihomo!PreservedStep]_vars

\* Two upgrades never work at once, and one that is cut off leaves a backup of
\* what it replaced and can go on.
UpgradesSound == tool = "upgrade" => Upgrade!TypeOK /\ Upgrade!UpgradesSound

\* A reported snapshot is the source of one moment; a published one is complete
\* and never hidden.
SnapshotSound == tool = "snapshot" => Snapshot!TypeOK /\ Snapshot!SnapshotSound

\* One record per snapshot and operation, none hidden, and trust only in them.
CatalogSound == tool = "catalog" => Catalog!TypeOK /\ Catalog!CatalogSound

\* The hook permits an upgrade only beside the backup it looked at.
PermittedIsWhatWasCaptured ==
    tool = "sidecar" => Sidecar!TypeOK /\ Sidecar!PermittedIsWhatWasCaptured

=============================================================================
