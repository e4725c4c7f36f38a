SPECIFICATION Spec
CONSTANTS
    None = None
    Hosts = {h}
    Updaters = {u1, u2}
    Paths = {a, b}
    Calls = {c, d, e}
    Snapshots = {s}
    Operations = {o, q}
    Offered <- Releases
    Installed <- First
    MaxBackups = 2
    MaxEdits = 1
    HttpsFaults = 2
    MaxLevel = 3
    CpuLevel = 2
    EngineFaults = 2
    ServiceWrites = 1
    UpgradeFaults = 1
    SourceWrites = 1
    SnapshotFaults = 2
    MaxRecords = 2
    MaxAlters = 1
    CatalogFaults = 1
    BackupWrites = 1
    SidecarFaults = 2
INVARIANTS
    LatestCanBeUndone
    CompatibleWasVerified
    UpgradesSound
    SnapshotSound
    CatalogSound
    PermittedIsWhatWasCaptured
PROPERTIES
    NoEditLost
    PreviousPreserved
CHECK_DEADLOCK FALSE
