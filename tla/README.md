# clash-yaml-manager: models, checks and proofs

This directory holds a verification project for clash-yaml-manager 1.10: TLA+
modules translated from the Python and shell code, TLC configurations that check
them on small instances, and TLAPS proofs of theorems about them. `PROJECT.json`
lists components, runs, mutants, hazards, theorems and, for every definition that
models code, the lines it was translated from.

## The system

A Flask application turns proxy subscriptions and uploaded YAML into Clash
configurations. It is not one process:

- two Gunicorn workers serve the web interface and the public subscription URLs,
- two systemd timers start oneshot jobs, `auto_refresh` (sources) and
  `auto_health` (node checks),
- root tools install, upgrade, back up and integrate Mihomo, GeoIP and HTTPS.

They share nothing but files: JSON state under `state/`, directories of revisions
under `state/fixed/`, `.env`. Every read-modify-write holds an `flock` of its own
store; every write is a temporary file, `fsync`, `os.replace`, `fsync` of the
directory (`core/state.py`). Network, YAML generation and probes never run under the
registry lock: the work is done on a snapshot and committed against it later. That
pattern is where the interesting behaviour is.

Lock order: `login_attempts` before `auth`; `cleanup.lock` before `temporary_links`;
`auto_refresh.lock` before the registry; `auto_health.lock` before
`proxy_probe.lock` before the registry before the health files; the health policy
takes the proxy lock without waiting; `notifications.lock` is taken alone.

### Inventory

| Component | State | Operations | What is hard | What makes it correct | Here |
|---|---|---|---|---|---|
| Fixed subscription store (`fixed_subscriptions.py`, `state.py`) | registry of entries (selected revision, token, status, audit, statistics), retired tokens, revision directories | create, edit, source action, automatic refresh, cached reconciliation, enable, disable, regenerate, delete, resolve, failure and audit records, collection | commit in two locked sections around minutes of unlocked work; rename + replace + rollback, each may fail or be cut off; three kinds of process | selected revision complete; stale commits refused; tokens unique and retired; nothing left behind | `FixedStore` |
| Scheduled refresh (`auto_refresh.py`, `refresh_schedule.py`, `fixed_sources.py`) | per source row: URL, interval, next, failures, last payload | scan and selection, fetch and fall-back, failure record, forms, source and management actions | a scan works on old entries; bytes survive edits; selection under a limit | served bytes match the configuration; schedule fields consistent; only due rows touched; oldest first, nobody starves | `AutoRefresh` |
| Health checks (`node_health.py`, `proxy_health.py`, `health_schedule.py`, `auto_health.py`) | auxiliary entry per subscription: mode, next, failures, check revision, target, observations | manual and automatic checks, settings, global target, pruning, removal, failed jobs, scan | probes of minutes against entries that move; three versions to compare | observations belong to the target; versions advance; paused or deleted is not committed; state stays valid; due work attended | `HealthCheck` |
| Login limiter, credentials, sessions (`rate_limit.py`, `security.py`, `migrate.py`, `app.py`) | `login_attempts.json`, `auth.json`, `.env`, cookies in browsers | attempt, authenticate, change password, start of a worker, migration, backup and restore of the state | two nested locks around a slow hash; cookies cannot be withdrawn; bounded table; migration in two files | rate bounded; lockouts fixed; a change ends older sessions; credentials never lost | `Access` |
| Notifications (`notifications.py`, `notification_events.py`, `telegram.py`) | provider settings with secrets, revision, delivery outcome | save, remove, test, deliver a batch | a delivery of seconds without lock; late result; failing save with rollback; a clock that is set back | a late result is never recorded on other settings nor over a younger one | `Notifications` |
| Temporary links and retention (`temporary_links.py`, `retention.py`, `app.py`) | links and tombstones, output files, cleanup stamp | publish, create, resolve, delete, revoke, prune, throttled cleanup | time read before the lock; file and links are removed in two steps; kills leave files of two names | links live their time and end with their output; what is old goes | `TemporaryLinks` |
| GeoIP store (`geoip_store.py`) | database and settings files, lock file | upload, remove, lookup with and without the lock | two files, restore on failure, kills between | a lookup answers from a database and the settings that describe it | `GeoStore` |
| HTTPS integration (`https_manager.py`) | five files, three services, private backups with a journal of intents | setup, disable, detach, rollback | kill between the durable intent and a replacement; foreign edits; certbot for minutes in between | a rollback is not refused and restores exactly; an edit leaves a live file only into the backup of the transaction that replaced it; services run what is on disk | `HttpsSetup` |
| Mihomo engine (`mihomo_manager.py`) | binary, metadata | install, remove, status | two replacements and their undoing; status reads in three steps without the lock | COMPATIBLE only of a build that ran here; a failed install keeps the previous pair | `Mihomo` |
| Locks of `state/` (`state.py` and its callers) | twelve lock files | take, try, leave, die | locks nested by requests, scans, probes and generations written in different files | nobody waits in a circle | `LockOrder` |
| Probe runner (`mihomo_probe.py`) | batches, one engine process, a private directory | isolate, start, ask, close | bisection of rejected configurations; starts that fail; errors at any point | every node judged, exactly the rejected unsupported, one engine at a time | `MihomoProbe` |
| Health policy (`health_policy.py`, `policy_engine.py`) | none | snapshot, guard, apply | guard inside a foreign lock | a superseded observation never excludes a node | its guard is `FixedStore!Conflict`; the filter is a pure function, not modelled |
| Fetch, parsers, YAML generation | none | pure | data | data | not modelled; a fetch or a generation is one outcome |
| Upgrade (`update.sh`, `deploy-common.sh`, `deployment_guard.py`, `remote_lifecycle.py`, `install_info.py`) | installed tree, units and writers, backups, admission lock, INSTALLATION.json | acquire, decide, the steps of the script, record | a failure, kill or reboot after every step; a lock inherited by children | one upgrade at a time; from the backup of the state to the new code only the migration writes; credentials are never lost; a repeated attempt goes on | `Upgrade`; install.sh and uninstall.sh are not modelled |
| Snapshot writer, collector, verifier (`backup_create.py`, `backup_collect.py`, `backup_verify.py`) | source, staging, destination | inventory, copy, check, publish, verify, clean up | the source is written to; others take, move or alter; interrupts between rename and note | a reported snapshot is the source of one moment; what is published is complete and reported | `Snapshot` |
| Trust catalog (`backup_catalog.py`) | records, staged records | register, verify, inspect | killed registrations; interrupted confirmations | one record per snapshot and operation; trust only in registered bytes | `Catalog` |
| Sidecar of the updater (`backup_sidecar_update.py`) | legacy backup, quiet units, disk, guard | the hook: copy, five tools, decision | what it looked at changes before it decides; kinds of errors in two policies | an upgrade goes on only beside the backup that was captured | `Sidecar` |
| Recovery packages and audit (`scripts/recovery_*`, `backup_audit.py`) | none | assess, inspect | data | | not modelled: read-only |
| Web interface, release tooling, generated bootstraps | none of their own | | | | not modelled: presentation, git, generated |

## Modules

Each component has a module with its state and actions. The larger ones have a
`...Properties` module with what they promise (and the inductive invariant when there
are proofs), a `MC...` module for TLC and possibly a `...Proofs` module; the smaller
ones state their properties at their end.

`RootTools` and `WebStores` put several modules side by side; `MCRootTools` and
`MCWebStores` only give their constants values. Their state space is a disjoint union: a
variable (`tool`, `part`) says which module the behaviour is of, the variables of the
others are unused, and a step is a step of that module. Components put together so share
no state in the code either; where they do, they are one module.

### FixedStore

`FixedStore` has one action per step between which another process may run, a
process may be killed or a write may fail. `Request`, `Snapshot`, `StartCreate` are
the first locked section of `save`; `Build` and `BuildFails` the unlocked work;
`Conflict`, `Enter`, `AllocateHome`, `PlaceFails`, `Place`, `Publish`,
`PublishAudit`, `Abort`, `Collect` the second one; `Restore` the rollback of
`_commit`; `Note` and `GiveUp` what is recorded of a failed refresh; `Manage`,
`RemoveHome`, `Resolve` the rest; `Crash` kills a process (its flock goes with it).
`file` is the registry on disk, `previous` the bytes a pending rollback would write,
`dir` the state of every revision directory ("absent", "part" of it, "whole").
`Torn` and `NotWritten` are the two ways `atomic_write` fails: after the replacement
took effect, or before. Registry migration and validation are data and left out; an
entry keeps the fields the code compares, keeps or moves.

`SubscriptionService` is what callers may rely on: a registry in which saves are
compare-and-swap on the entry they started from, written without directories,
locks, crashes or rollbacks. `FixedStoreRefines` instantiates it with the
refinement mapping (the settled registry) and states `ImplementsService`.

### HealthCheck

Web processes and the scanner take a copy of an auxiliary entry (`ManualStart`,
`AutoSnapshot`, `AutoStart`), probe without any lock (`Probe`, `ProbeFails`) under
`proxy_probe.lock` for proxies (`TakeJob`, `ReleaseJob`), and commit only over what
they read (`CommitCheck`, `Current`, `SameCheckState`). `Settings`, `SetGlobal`,
`Toggle`, `Delete`, `Publish`, `Describe`, `Remove` move the state meanwhile;
`RecordFailedJob` reschedules. `Scan` takes a member of `Selected`: the first `Limit` of
the `Ready` entries, by due time and id. A behaviour is about
one of the two observers, `Kind`: `ProxyHealth` ("proxy") has a global target,
`NodeHealth` ("endpoint") has none. A probe is one nondeterministic result per node;
consecutive failures above the threshold behave alike and are one count. Displayed
fields (last trigger, last result) are left out. `about` is history: the target
stored observations were measured with.

### AutoRefresh

One row is URL and format (`cfg`), interval, next, failures, last attempt and
whether the last good bytes are from a cache. `Scan` reads the registry once and
selects (`Selected`, oldest group first, at most `Limit` rows unless one group
alone is larger); `Fetch`, `Commit`, `RecordError` work through it; a web process
holds at most one candidate at a time (`Request`s, `Build`, `Save`); `Manage`
enables, disables, deletes, publishes. The web's read of the entry and its build are
one step, since both use the entry of that moment. `version` stands for the pair
(revision, updated_at) the identity check compares; a new one differs from any
candidate's. `fails` stops at the last backoff, as the delay does. Uploaded rows,
history, warnings and node counts are left out.

### Access

`Attempt`, `Authenticate`, `Record` are one `LoginLimiter.attempt`: the lock of the
table is held from the first to the last, that of `auth.json` only in the second,
so a `ChangePassword` of the other worker comes between them. `Boot` reads `.env`,
`Start` initialises; `Migrate` and `MigrateEnv` are the two writes of
`migrate_auth`. `Admit` is `invalidate_old_sessions`, after which a request is not
checked again until `change_password` compares version and instance. Cookies only
accumulate, because a browser may keep or copy any. `Backup` and `Restore` copy
`auth.json` while every worker is down, as `update.sh` and the rollback notes do.
`era`, `restored`, `misses` are history: how many changes were committed, whether a
backup was put back, and the times of the last refused passwords of an address.
Times are integers, so the rounding up of `math.ceil` shows nothing; the clock does
not go back; a hash is its password.

### HttpsSetup

A transaction is a program: a sequence of `Write`s, restarts and activations that is
fixed when it starts (`SetupProgram`, `DisableProgram`, `DetachProgram`). `Start` runs
the checks, `Setup` reads `.env` and nginx, `Snapshot` saves the five files, then
every file is noted in the journal (`Note`) before it is replaced (`Publish`), unless
it is neither saved nor noted content (`Unchanged`). `Fail` is a step that fails,
`Recover`, `Undo`, `PutBack`, `Finish` the undoing, `Rollback` the command that undoes
a killed one later, `Kill` a kill anywhere, `Edit` an administrator. A content is
what its generator was given, and the edit that changed it last.

`NoEditLost` does not say that an edit stays in the live file, for that is false of the
code. `setup` reads `.env` at https_manager.py:553 and `disable` at :600, before the backup
is taken at :554 and :604. An edit between the two is what the backup saves, so the check
of `write` (:368-372) takes it for the baseline, and the file is replaced by text made from
what was read before. In the model: `Setup` (reads edit 0), `Edit` (edit 1), `Snapshot`
(saves edit 1), `Note`, `Publish` of the content with edit 0. The window is two statements
wide, but docs/HTTPS.md:151-152 says that unrelated records of `.env`, later secret
changes included, remain intact. `NoEditLost` says how far the damage goes: an edit leaves
the live file only in the transaction whose own backup has it, never after that backup was
taken and never in a rollback.

### Mihomo and MihomoProbe

`Mihomo`: the lock holder (`job`) tries candidates, replaces binary and metadata,
verifies, and undoes both on failure; `reader` is a status that describes, hashes and
runs in three steps (`Ask`, `Hash`, `Answer`), without the lock. A build is its amd64
level, file 0 one of another version. The message of a failed install says that the
previous component is preserved; that is so unless the restore itself fails (`kept`).

`MihomoProbe`: one check. `chunks` is the stack of the recursive `isolate`, `Validate`
starts a test process and `Isolate` uses its verdict; `Start` is one round of the loop
over ports; `Ask` collects answers in order; `Raise` is any process or controller
error and any deadline; `Close` is the `finally` clauses: the process may not be stopped
and the directory not be removed, and either ends the check without a result, as does a
process that is not ready and cannot be stopped in `Start`. `OneEngine` says that no batch
begins beside what an earlier one left. Nodes are numbers and the
set of those the engine rejects is arbitrary.

### Upgrade

`parent` is the bootstrap or the guard of a local update, `child` the script that
inherits the lock; the lock is held as long as one of them has the description open
(`holders`). `Program` is the order of `update.sh`, `Parts` what is copied one after
the other. Units may be armed, fire, run and end by themselves, write to the state,
and come back with a reboot. `info` is INSTALLATION.json and `Decide` the bootstrap's
answer (up to date, refused, go on).

`data` is what an upgrade must not lose: the writes to `state/`, whether `auth.json` is
there, and whether `.env` holds credentials ("legacy"), held them ("cleaned") or never did
("clean"). `.env` is backed up with the code and `state/` once the writers are stopped; then
`core.migrate` makes `auth.json` (`Migrate`) and takes the credentials out of `.env`
(`Clean`). On a legacy installation the backup is therefore not what is there when the copy
begins: it lacks the `auth.json` and still has the credentials. `BackupIsWhatWasReplaced`
allows exactly these two differences and no other, at the steps where they may exist, and
`CredentialsKept` says what a rollback needs of them: `auth.json` or credentials in `.env`
at every moment, and credentials that were taken out are in the backup of an attempt, also
when a later attempt has backed up the cleaned `.env`. `Initialize` is a version of the
service that makes `auth.json` itself when it starts (app.py:163).

Some things the model shows and the code accepts: killed after the new application
but before VERSION was copied, the bootstrap of the OLD release answers that it is up
to date; killed between VERSION and the last step, metadata and VERSION differ and
remote updates are refused until a local one ran; without INSTALLATION.json a repeated
attempt after VERSION was copied is "Already up to date". `RepeatedAttemptGoesOn` says
what remains.

### Snapshot, Catalog, Sidecar

`Snapshot`: `CreateProgram` and `CollectProgram` are the two orders of the checks.
The version of a file is its bytes and its fingerprint. `Finally` and `FinallyBlind`
are the two ways the tools learn, after an interrupt, whether the rename happened.
An interrupt between `mkdir` and the note of the staging's name
(backup_create.py:148-149) leaves it behind, which the model allows.

`Catalog`: one step per call it makes of the lock, the inventory, the verifier and
the rename. Calls exclude each other by a nonblocking lock; a kill leaves residue,
which makes later registrations fail. `TrustedIsRegistered` is about the bytes and not
about the place, since a tree may be moved and altered between two looks.

`Sidecar`: `Program` is the order of the hook. Each of its tools is `Snapshot` or
`Catalog`, and ends with codes here; `Finally` decides, with a second look
(`RetrySpace`, `RetryConfirm`, `RetryProbe`) in OPTIONAL mode. `history` is what
happened to the legacy backup and the tools, whether the hook noticed or not.

### TemporaryLinks, Notifications, GeoStore

`TemporaryLinks`: outputs have the time they were written and whether their temporary
name is left (`twice`; a sweep passes over files of two names). A request may
publish and link an output, resolve a link, delete an output, or run the cleanup:
`ConsiderCleanup`, `BeginCleanup`, `Sweep` over the names it saw, `Revoke` after each
removal, `Prune`, `Mark`. Every time is read one step before it is used: the cleanup looks
twice whether it is due, by the time it read first, and the marker gets the time of its
writing. A link that was resolved is served in a later step (`Serve`). Uploads and backups are swept
the same way and have no links. Ids are random (96 bits, temporary_links.py:42-44), so the
code does not look whether one was used before: here an id may be bound again once its
tombstone was dropped, and `LinksLiveTheirTime` allows no more than that. A scan may run out
of its entries or its 2 seconds at any point (`Exhaust`, retention.py:77-78); the cleanup
then prunes and marks as if it had met everything (app.py:144-145), and what it did not
reach waits a whole interval for the next one, which may be cut short at the same place.

`TimesHold` has four parts. `LinksLiveTheirTime` and `OutputsLiveTheirTime`: no link or
output goes early, by the clock and not only by the time somebody read. `LinksEndInTime`: no
request that came after the end of a link is served by it, although nothing ends a link at
that time. `RetentionHolds`: a cleanup that was not cut short leaves nothing old but what it
met with two names; and two names are only left while an output is published, or by a worker
that was stopped between `os.link` and `unlink` (`torn`). Outputs of the last kind are passed
over by every later sweep and stay for ever; that is what the code does, and the property
says that there is no other way to it.

`Notifications`: `Snapshot`, `Send`, `Record` are the three parts of `deliver`; the
lock (`holder`) is free during the second. `Write`, `WriteFails`, `Undo` are `_commit`.
The events of a scan (`Commit`, `Boundary`) are kept in `batch` until `Deliver`; a kill of
the job before that loses them, as auto_refresh.py:44-62 does.

`GeoStore`: the writer replaces the database, then the settings, and restores both
when one fails. A lookup is three steps: it looks for the lock file and tries the lock
(`Lookup`), reads the database (`ReadDatabase`), reads the settings and compares (`Answer`).
A read-only one that finds no lock file goes on without, and the first uploads, their
undoing or a kill may come between any two of its steps; only the hash in the settings then
tells a pair from a mixture. The message of a failed upload says that the previous
database is unchanged; that is so unless the restore fails as well.

### LockOrder

The stores are modelled one at a time, each with its own lock. `LockOrder` has the
twelve locks of `state/` together and nothing else: `Waits` says which is waited for
inside which, `Tries` which is only attempted (`LOCK_NB`), and a process may take
whatever some code takes inside the locks it is in. The tables are the nestings of the
callers of `file_lock`; a nesting new to the code has to be added there.

## Runs

The runs of `FixedStore` check deadlock. The others do not (`CHECK_DEADLOCK FALSE`): their
clocks, versions, writes or faults are bounded and their tools end, so a behaviour really
comes to rest. Every property has a mutant: a plausible bug of a mapped definition under
which the run reports that property violated.

| Run | Instance | Question |
|---|---|---|
| `fixed_faults` | 2 processes, 1 subscription, 3 revisions, 2 tokens, crashes and failing writes | selected revision complete, tokens, audits, refinement of `SubscriptionService` |
| `fixed_races` | 2 processes, 2 revisions, moving clock and failures, no faults | commits only over their snapshot, nothing left behind, statistics never go back |
| `fixed_orphans` | as above with crashes | violated: see Findings |
| `health` | 1 web process and the scanner, endpoint or proxy checks, 2 targets, 2 revisions, crashes and failing writes | no observation beside another target, versions, what was stopped stays so, failure counts, valid state |
| `health_live` | 2 subscriptions, one job per scan | due work is attended to |
| `refresh_configs` | 1 row, 2 URLs, 2 intervals, forms, source actions, management, kills | bytes, schedules and attempts of a row |
| `refresh_rows` | 2 subscriptions of 2 rows, 2 places per scan | selection order, no starvation |
| `access` | 2 workers, 2 addresses, room for 1, 2 failures, lockout 3 of 4 time units; or 1 address, 2 changes, restores; failing writes | rate, exact waiting times, fixed lockouts, sessions after a change, credentials through the migration |
| `access_restore` | 2 changes, 1 restore | violated: see Findings |
| `root_tools` | HTTPS: 2 transactions, 1 edit, 2 faults; Mihomo: 3 builds, 2 faults; upgrade: 2 attempts, 4 builds, 1 fault; snapshot: 2 files, 2 faults; catalog: 3 calls, 1 fault; sidecar: 1 write, 2 faults | a transaction can be undone, no edit lost, verified engines, one upgrade, recoverable cuts also of a legacy installation, sound snapshots and records, permission only beside what was captured |
| `sidecar_interrupt` | the same sidecar | violated: see Findings |
| `web_stores` | links: 2 workers, 2 names, 2 ids, 1 fault; notifications: 1 user and the scan, 2 chats, 2 saves, 2 faults; GeoIP: 3 writes, 2 faults; probe: 5 nodes in batches of 3, every set of rejected ones; locks: 3 processes | links end with their outputs, links and outputs live their time and no longer, deliveries recorded where they belong, pairs of files, every node judged, no circle of waiting processes |

Why these bounds are enough to be interesting: two processes make every race of
interest (the code's conflicts are pairwise: one commit against one snapshot);
three revisions let one process collect what another is about to place; one
subscription suffices where entries do not interact, and two are used where they
do (selection, starvation, the full table). A lockout ends within the clock's
bound, a backoff saturates, `check_revision` and the epoch reach their caps. Two HTTPS
transactions let a rollback meet a newer one; two faults let an undoing fail as well;
five nodes in batches of three give an odd half, an even half and a short batch; three
calls let a registration meet a killed one and a verification.

`access` explores two sets of states (`MCAccess!Explored`): the limiter over the whole
clock while the credentials stay as they are, and the credentials at the beginning of
the clock while one address signs in. States where both go on at length are cut; the
theorems are about all of them.

Bounds that are not in the code: `MaxClock`, `MaxFails`, `MaxRevision`,
`MaxChanges`, `MaxBackups`, `MaxEdits`, `MaxWrites`, `MaxAlters`, `MaxFaults`.
`MaxCheck`, `MaxEpoch`, `MaxRecords`, `MaxTombstones` stand for limits the code has
(2^63 - 1, the year 9999, 128 records, 10000 tombstones) and are reached on purpose.

### Fairness

`health_live` and `refresh_rows` assume weak fairness of the scheduled job's own steps:
its timer fires again and again (`OnUnitActiveSec=5min` and `Persistent=true`, written by
scripts/deploy-common.sh:127-130 and 200-203), it has a lock of its own, and the locks it
waits for are held for bounded work. For that last reason `health_live` also assumes that a
web request that has begun goes on (`WF_vars(Step(w))`), and `refresh_rows` that the
clock does (`WF_vars(Tick)`). Nothing is assumed of administrators;
both properties speak of the time after they stop. `refresh_rows` has no disk
faults: docs/AUTO_REFRESH.md says a disk error ends the run, and then the oldest
subscription may well be first again forever. Fetches and probes may fail every time.

Both runs are limited by their clocks, of three values: they show that what is due is
attended to within a few rounds, however the rounds interleave and fail, and not that this
goes on for ever. `health_live` has no web process that checks or changes anything beside
the job, and one kind of check (endpoints); the races of the two kinds and of web processes
are `health`, which is about safety only.

### Findings

- `fixed_orphans`: the comment at `core/fixed_subscriptions.py:512` promises that
  revisions orphaned by a crash go with the next successful management mutation.
  Only `save` collects; enable, disable and regenerate do not.
- `access_restore`: docs/PHASE2.md:81 asks for another password change after an
  `auth.json` backup was restored, because old sessions may be valid again. The
  change repeats a version number that was already used after the backup, under the
  same instance id, and the sessions of that number become valid by it.
- `sidecar_interrupt`: docs/BACKUP_UPDATER_SIDECAR.md:164 says a caught interruption
  does not let the upgrade continue. One that the catalog catches while it verifies is
  reported as INSPECTION_INTERRUPTED, which `GLOBAL_CODES` lacks; in OPTIONAL mode the
  upgrade goes on with a sidecar failure.

## Theorems

Eight modules hold the proofs; they are about every value of the constants. An invariant
that was to be proved inductive was first given to TLC on the instance of its run.

| Module | Theorems about the runs' properties |
|---|---|
| `FixedStoreProofs` | `SelectedComplete`, `TokensUnique`, `AuditDescribesSelected`, `NothingLeftBehind`, `PublishOnSnapshot`, `AccessNeverLost`, `ImplementsService` |
| `HealthCheckProofs` | `ValidState`, `MeasuredAsConfigured`, `VersionsAdvance`, `StoppedNotCommitted`, `OnlyJobFailuresCount` |
| `AutoRefreshProofs` | `ServedAsConfigured`, `NextIsEarned`, `ValidSchedule`, `AutoTouchesOnlyDue`, `AttemptsAdvance`, `OldestFirst` |
| `AccessProofs` | `RateBounded`, `RetryExact`, `LockoutsFixed`, `ChangeEndsSessions`, `ChangedOnlyBySession`, `CredentialsNeverLost` |
| `UpgradeProofs`, `RootToolsProofs` | `UpgradesSound`, `CompatibleWasVerified`, `PreviousPreserved`, `SnapshotSound`, `CatalogSound`, `PermittedIsWhatWasCaptured`, `LatestCanBeUndone`, `NoEditLost` |
| `TemporaryLinksProofs`, `WebStoresProofs` | `LinksEndWithOutput`, `TimesHold`, `DeliveriesRecorded`, `AnswersFromAPair`, `EveryNodeJudged`, `NoCircle` |

### FixedStoreProofs

`IInv` is inductive, hence `TypeOK` and `SelectedComplete`. `SelectedComplete` alone is
not: removing a directory is harmless only because the process that removes it holds the
lock (`Exclusion`), still sees the entry it compared (`StillCurrent`), has a complete
candidate (`CandidateComplete`), and because a pending rollback belongs to a process that
is about to do it (`Settled`).

The other theorems look at the registry. `RegistryInv`: `file` and `previous`, the bytes a
pending rollback would write, differ by the one write of the process about to undo it.
Every step is one of five (nothing, an edit, a save, the undoing of a torn write, a
collection of directories), and each keeps the tokens unique (`TokensNeverShared`), the
audit beside its revision (`AuditsNeverStray`) and the statistics from going back
(`AccessIsMonotone`). `SavesAreOptimistic`: what a save publishes it publishes over the
entry of its snapshot. `NothingIsLeftBehind`: without faults, `Pending` says which
directories belong to a save that is under way and `Cleaning` which to a removal that is;
the rest belong to registered entries.

`StoreImplementsService` is the refinement, step by step: `Record` shows that the settled
registry is what the service sees, `Basis` that a save in progress carries the entry it
started from. A crash, a torn write, a rollback and a collection stutter, and whatever a
step publishes is one step of `SubscriptionService`. `ViewAssumption` says only that
`None` is no view.

### AutoRefreshProofs

`IInv` has four parts. `TypeOK`; `RowsInOrder`: every stored row is sound (its bytes are of
its configuration, its next attempt is the last one plus the delay of its interval and
failures) and no attempt lies in the future; `Held`: so are the rows of a scan and of a
candidate, which were read from the registry earlier; `Working`: whoever works began with a
version the registry had, so an entry still of that version has not changed. The last one
makes the comparison of versions enough: `AttemptsNeverGoBack` needs that no other attempt
was recorded in between, `RefreshTouchesOnlyDue` that a row read as due still is. The order
of the scan is by least elements of sets of naturals (`LeastExists`), which gives that the
scan always has a first group. `StartAssumption` is what the loaded registry passed
(`valid`); `VersionAssumption` that a new version differs from the two a candidate compares.

`ScansTakeOldestFirst` is about the sum over a set in `Fits`. The prover has no induction
over a recursive fold, so the least-element lemma replaces it: the least size of a set for
which there is no sum (`SumExists`), for which the element added first matters
(`SumTakesAny`), or which sums up to less than a part of it (`SumGrows`) is contradicted by
the set without one element. A part of what fits therefore fits (`FitsShrinks`), what is
taken leaves nothing before it (`TakenInOrder`), and all of it is the last subscription that
is taken with those before it (`LastExists`), which fits unless it is alone.
`FiniteAssumption`: the subscriptions and the rows of each are finitely many.

### AccessProofs

For any number of workers, addresses, passwords and limits:

- `TypeCorrect`: the table respects `MaxEntries` and the failures of a record their
  limit. This needs `Limited`: while an attempt is under way its lock excludes
  others, so what admitted it is still true when it is recorded.
- `SessionsEnd`, `ChangesNeedSession`, `CredentialsKept`: from `SessionInv`, that
  no session is ahead of the credentials and that those level with them are of the
  current era. The counter alone would not do: a version has to grow with every
  change, and `auth.json` must never be initialised twice.
- `LockoutsRun`: no step changes a running lockout.
- `RateAlwaysBounded`: from `HistoryInv`, that every refused password that is
  younger than the window and the lockout is covered by the record of its address:
  aligned from the newest, the record holds a failure at least as young. Expiry,
  failing writes and expired lockouts keep that; when the limit is reached the
  oldest of the covered ones must have aged. The lemmas `ExpiredFirst`,
  `LoadedCovers`, `CountedCovers` and `RateStep` carry the argument.
- `RetryAlwaysExact`: failures are stored in the order of their times (sorted tables), so
  `_load` drops a prefix. A record goes at its `Expiry` and is kept as it is until then;
  hence an address refused now is refused until the time it was told, and not after.

### HealthCheckProofs

`ValidState` and `MeasuredAsConfigured` always hold and every step satisfies
`VersionsAdvance`, `StoppedNotCommitted` and `OnlyJobFailuresCount`.
`MeasuredAsConfigured` is not inductive alone: a commit writes what the check carried
since it read the entry, so `IInv` adds that every carried entry was valid, that the
scanner's was automatic, that a web check has the revision it snapshotted, and that
without a global target no entry has one of its own (`Carries`, `EntriesOK`). A step
changes the stored entries in one of six ways (`Effect`, `StepHasEffect`), and each of
the five properties is shown for each way; that the comparison of a commit is
sufficient is `CurrentOK`.

### UpgradeProofs and RootToolsProofs

`LockInv`: every parent and script that works has the locked file description open, and all
who have it open are of one attempt; hence a killed parent leaves its script the lock, and a
script that is over leaves it to the parent that still writes `INSTALLATION.json`
(`NeverTwoUpgrades`). `UpgradeInv` adds what is true at each step of the one that works:
units that were stopped stay so until it starts them, so the backup is what is there but for
the two writes of its own migration (`Saved`); what it has not backed up yet is "unsaved", so
nobody writes over the backup that has the credentials (`Fresh`); and what the bootstrap
decided from `INSTALLATION.json` is still so until it records. A reboot
in between ends the attempt, which is why these are about the one that works only. From it
follow `CutOffIsRecoverable` with its three parts.

Mihomo: the installed binary was always verified, and so is whatever may replace it: the
build an install accepted, and the one its undoing puts back. The metadata may describe
anything, so a status counts only from its hash on: at that moment the build it read was the
binary (`VerifiedInv`). `PairInv` is how far an install, or its undoing, has come with the
two files; where it gives up they are those it found.

Snapshot: files are only written to, so their versions have an order (`NoYounger`), and a
second look that equals the first means that the source was that at one moment between
(`AsInventoried`); the copy is compared with it before it is published (`TreeVerified`). Only
a complete staging of the call's own is renamed, a call that does not know of its rename
looks for it, and cleaning starts only where nothing of its own was published (`StageOwned`,
`TreeComplete`, `PublicationTold`).

Catalog: `Alone` carries it. Whoever registers holds the lock, so what it read of the records
is still so when it publishes, whatever residue killed calls left; the readers need no lock,
for records are never changed. `Own` says, for each call, what it knows of its own record.

Sidecar: what the program went past is done (`WentPast`): beyond the copy the copy is of the
inventoried version, beyond the catalog it is trusted, beyond the confirmation the legacy
backup was still that. A failure may be looked at again only if it is ordinary, and a failed
read never is (`LookedAtAgain`); hence what was permitted was earned (`PermitEarned`).

HTTPS: `UndoableInv` is enough for a rollback that is not refused, and for the first half of
`NoEditLost`. For the second, `EditsInv` numbers the edits: whatever is written or put back
carries the edit that was the newest when it was read, and what was read is not ahead of what
was saved (`ReadEarlier`, `NotAhead`, `Numbered`); older text over a newer edit can therefore
only be the program's own, over the content its backup has (`StepKeepsEdits`). A file
is replaced only by a content that was noted, while it is still one that is known
(`Intents`), and what is still to be put back is as it was looked at (`Undoings`). That the
services run what is on disk, and that no setting of a past domain stays, needs `SettledInv`.
Where every file was put back, the newest backup has to tell what was there: what its
transaction did not touch is as it found it, but for edits, and is served (`NewestKnows`).
That breaks when an older transaction is undone before a newer one, so `Crossed` is remembered
(`UndoneInOrder`). Where a transaction ends, it is the rest of its program that tells: every
service is restarted after the last write of its files (`Restarts`), and the rest either ends
with the description of a backup whose settings were the administrator's, or takes the
description away after the settings (`Setting`, `Removing`).

### TemporaryLinksProofs and WebStoresProofs

Links: `LinksInv` says that a name is used once and what is being revoked is gone for good
(`UsedOnce`), that one cleanup goes on at a time (`OneCleanup`), and that, unless its scan
was cut short, it has met or has still before it every file that was old when it read the
time (`SweepsMeet`). `Naming` adds what two names come from: a publication that goes on or
that was stopped.

Notifications: `WritersHold` says that who writes holds the lock and has still the settings it
read, new or old, in the file. `DeliveriesKnow` is the heart: settings a delivery has read are
those of their revision for ever, although the undoing of a failed write puts an older
revision back; so an equal revision means equal settings, and the late result belongs to them.

GeoIP: `PairInv` adds to `AnswersFromAPair` that a reader with the lock keeps writers out
(`ReaderExcludes`). One without a lock began before the first upload (`NothingBeforeLock`),
but any number of uploads may come between its steps; beside it, settings only ever name a
database they were once paired with, those a failed upload would bring back included
(`NamedFromAPair`), so an equal hash is enough.

Probe: a node has a verdict or is still before the check (`NobodyForgotten`), what was
validated is not rejected and verdicts are those of the engine (`JustVerdicts`), and between
two batches nothing is left over (`BatchOver`). Halving keeps the nodes of a part because a
sequence is the concatenation of its halves.

Locks: every lock has a rank, and each row of `Waits` ends in a lock that ranks above the
others of the row; hence of any set of processes the one that waits for the highest lock
waits for none of the others. `Tries` need no rank, because nobody waits in them.

Side by side (`RootToolsProofs`, `WebStoresProofs`): a behaviour is of one module to its
end, and a step of another cannot happen, so the properties of the runs follow from the
theorems about the modules (`PartOfLinks`, `PartOfMihomo` and the like).

### Assumptions

Those of the modules, and TLC evaluates each of them on the instance of its run: `None` is no
other value; limits are positive and bounds are numbers; the addresses, the subscriptions and
their rows are finitely many and the subscriptions have an order; the builds of the engine are 1..`MaxLevel`
and the processor supports one of them; a build of the application has a channel and a
version.

### Only model-checked

Liveness (`health_live`, `refresh_rows`), which is beyond the prover. Every other property of
the passing runs is stated by a theorem.

## Plan

Pure operators: the policy filter and the placement of nodes in groups, each against a
declarative definition over bounded inputs.

## Not modelled

Formatting, templates, wording, logging; parsers of share links, the generator, the
policy filter and the health policy's filter, which are pure functions of one call;
hashing, URL signatures and TLS; the MMDB reader; Telegram's answers beyond success
and failure; install.sh and uninstall.sh; recovery packages and the audit, which only
read; git-based release tooling and the bootstraps generated from
`scripts/remote_lifecycle.py`. The locks of the root tools are in the modules of
the tools, not in `LockOrder`. A user who submits a form that was opened
before another edit replaces that edit: the store compares with the entry at the time
of the submission, which is outside what it promises.
