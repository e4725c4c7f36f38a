------------------------------- MODULE Upgrade -------------------------------
(***************************************************************************)
(* An upgrade of the installed service: update.sh with                       *)
(* scripts/deploy-common.sh, the admission of scripts/deployment_guard.py    *)
(* and the remote bootstrap of scripts/remote_lifecycle.py.                  *)
(*                                                                         *)
(* A parent (the bootstrap, or the guard itself) takes the lock and runs      *)
(* update.sh, which inherits it.  update.sh backs up the code, stops the     *)
(* writers, backs up the state, migrates, replaces the code and starts the    *)
(* new version.  Nothing is rolled back automatically.                       *)
(***************************************************************************)
EXTENDS Integers, FiniteSets, Sequences

CONSTANTS
    Updaters,    \* attempts to upgrade
    Builds,      \* builds: [channel, version]; a main build has no other of its version
    Installed,   \* the build installed at first
    None,
    MaxWrites,   \* bound on writes of the service
    MaxFaults    \* bound on kills, failing steps and reboots

BuildsAssumption ==
    /\ Builds \subseteq [channel: {"stable", "main", "local"}, version: Nat]
    /\ Installed \in Builds
BoundsAssumption == MaxWrites \in Nat /\ MaxFaults \in Nat

VARIABLES
    holders,   \* processes that have the locked file description open
    parent,    \* bootstrap or guard: step and target
    child,     \* update.sh: the step it is at
    timers, running,  \* armed timers; running writers
    data,      \* writes to state/, its auth.json, the credentials that .env holds
    code,      \* the build each part of the installation is from
    info,      \* INSTALLATION.json
    backup,    \* what each attempt backed up: the code and .env, later state/
    faults

vars == <<holders, parent, child, timers, running, data, code, info, backup, faults>>
lock == <<holders, parent>>
units == <<timers, running>>
installed == <<data, code, info, backup>>

Jobs == {"refresh", "health"}
Parts == {"VERSION", "app"}
Whole(build) == [p \in Parts |-> build]
ProgramJobFirst ==
    <<"check", "back_up_code", "job_refresh", "timer_refresh", "job_health", "timer_health",
      "web", "back_up_state", "migrate", "clean", "copy", "finalize",
      "arm_refresh", "arm_health", "restart", "verify">>
Program == <<"check", "back_up_code", "timer_refresh", "job_refresh", "timer_health",
             "job_health", "web", "back_up_state", "migrate", "clean", "copy", "finalize",
             "arm_refresh", "arm_health", "restart", "verify">>
Steps == {Program[i] : i \in DOMAIN Program} \cup {"none", "ended", "failed"}
Ends == {"none", "ended", "failed"}
\* "cleaned": a migration has removed them; "clean": there never were any.
Envs == {"legacy", "cleaned", "clean"}
Auths == {"missing", "made"}
Untouched == [code |-> None, env |-> "unsaved", writes |-> None, auth |-> "unsaved"]

TypeOK ==
    /\ holders \subseteq {<<u, who>> : u \in Updaters, who \in {"parent", "child"}}
    /\ \A u \in Updaters : parent[u].at \in {"none", "decide", "wait", "record", "ended"}
    /\ child \in [Updaters -> Steps]
    /\ timers \subseteq Jobs /\ running \subseteq Jobs \cup {"web"}
    /\ data \in [writes: 0..MaxWrites, auth: Auths, env: Envs] /\ code \in [Parts -> Builds]
    /\ info # None => info.channel \in {"stable", "main", "local"} /\ info.version \in Nat
    /\ faults \in 0..MaxFaults

\* Somebody can sign in, now or once the credentials are migrated.
Credentials == data.auth = "made" \/ data.env = "legacy"

Init ==
    /\ holders = {} /\ child = [u \in Updaters |-> "none"]
    /\ parent = [u \in Updaters |-> [at |-> "none"]]
    /\ timers = Jobs /\ running = {"web"}
    /\ data \in [writes: {0}, auth: Auths, env: {"legacy", "clean"}] /\ Credentials
    /\ code = Whole(Installed) /\ info \in {None, Installed}
    /\ backup = [u \in Updaters |-> Untouched]
    /\ faults = 0

Fault == faults < MaxFaults /\ faults' = faults + 1

-----------------------------------------------------------------------------
(* The parent *)

\* guard_acquire: nonblocking, so a second attempt is refused.  The bootstrap
\* brings what it resolved, the guard alone a working copy.
Acquire(u, build) ==
    /\ parent[u].at = "none" /\ holders = {}
    /\ holders' = {<<u, "parent">>}
    /\ parent' = [parent EXCEPT ![u] = [at |-> "decide", build |-> build,
                                            remote |-> build.channel # "local"]]
    /\ UNCHANGED <<child, units, installed, faults>>

\* _run_lifecycle, from what VERSION and INSTALLATION.json say
Current == code["VERSION"].version
Mismatch == info # None /\ info.version # Current
Before == IF info = None THEN [channel |-> "stable", version |-> Current] ELSE info
UpToDate(build) == ~Mismatch /\ build = Before
Refused(build, downgrade) ==
    \/ Mismatch
    \/ /\ build.channel = "stable" /\ ~downgrade
       /\ \/ build.version < Current
          \/ Before.channel # "stable" /\ build.version = Current
Release(u, who) == holders' = holders \ {<<u, who>>}
Ending(u) == parent' = [parent EXCEPT ![u].at = "ended"] /\ Release(u, "parent")
Decide(u, downgrade) ==
    /\ parent[u].at = "decide"
    /\ IF parent[u].remote /\ (Refused(parent[u].build, downgrade) \/ UpToDate(parent[u].build))
       THEN Ending(u) /\ UNCHANGED child
       ELSE /\ parent' = [parent EXCEPT ![u].at = "wait"]
            /\ holders' = holders \cup {<<u, "child">>}
            /\ child' = [child EXCEPT ![u] = "check"]
    /\ UNCHANGED <<units, installed, faults>>

\* The script is over; a remote attempt records the build itself, for scripts
\* older than the metadata.
Return(u) ==
    /\ parent[u].at = "wait" /\ child[u] \in {"ended", "failed"}
    /\ IF child[u] = "failed" \/ ~parent[u].remote THEN Ending(u)
       ELSE parent' = [parent EXCEPT ![u].at = "record"] /\ UNCHANGED holders
    /\ UNCHANGED <<child, units, installed, faults>>
Record(u) ==
    /\ parent[u].at = "record"
    /\ info' = parent[u].build
    /\ Ending(u)
    /\ UNCHANGED <<child, units, data, code, backup, faults>>

-----------------------------------------------------------------------------
(* update.sh *)

Build(u) == parent[u].build
Following(step) == LET i == CHOOSE i \in DOMAIN Program : Program[i] = step
                   IN  IF i = Len(Program) THEN "ended" ELSE Program[i + 1]
At(u, step) == child[u] = step
Advance(u) == child' = [child EXCEPT ![u] = Following(child[u])]

\* Closing the duplicates leaves the parent's lock alone.
Closed(u) == holders
CheckInherited(u) ==
    /\ At(u, "check") /\ Credentials
    /\ holders' = Closed(u) /\ Advance(u)
    /\ UNCHANGED <<parent, units, installed, faults>>

BackUpCode(u) ==
    /\ At(u, "back_up_code")
    /\ backup' = [backup EXCEPT ![u].code = code, ![u].env = data.env]
    /\ Advance(u)
    /\ UNCHANGED <<lock, units, data, code, info, faults>>

\* stop_refresh_units and stop_health_units: first the timer, then the job.
StopTimer(u, j) ==
    /\ At(u, IF j = "refresh" THEN "timer_refresh" ELSE "timer_health")
    /\ timers' = timers \ {j} /\ Advance(u)
    /\ UNCHANGED <<lock, running, installed, faults>>
StopJob(u, j) ==
    /\ At(u, IF j = "refresh" THEN "job_refresh" ELSE "job_health")
    /\ running' = running \ {j} /\ Advance(u)
    /\ UNCHANGED <<lock, timers, installed, faults>>
StopWeb(u) ==
    /\ At(u, "web")
    /\ running' = running \ {"web"} /\ Advance(u)
    /\ UNCHANGED <<lock, timers, installed, faults>>

BackUpState(u) ==
    /\ At(u, "back_up_state")
    /\ backup' = [backup EXCEPT ![u].writes = data.writes, ![u].auth = data.auth]
    /\ Advance(u)
    /\ UNCHANGED <<lock, units, data, code, info, faults>>

\* migrate_auth: state/auth.json is made, unless it is there, and only then the
\* credentials are removed from .env; each file is replaced atomically.
Migrate(u) ==
    /\ At(u, "migrate") /\ Credentials
    /\ data' = [data EXCEPT !.auth = "made"] /\ Advance(u)
    /\ UNCHANGED <<lock, units, code, info, backup, faults>>
Clean(u) ==
    /\ At(u, "clean")
    /\ data' = [data EXCEPT !.env = IF data.env = "legacy" THEN "cleaned" ELSE data.env]
    /\ Advance(u)
    /\ UNCHANGED <<lock, units, code, info, backup, faults>>

\* The parts are replaced one after the other.
Copied(u) == \A p \in Parts : code[p] = Build(u)
CopyPart(u) ==
    /\ At(u, "copy")
    /\ \/ \E p \in Parts : code[p] # Build(u) /\ code' = [code EXCEPT ![p] = Build(u)]
                           /\ UNCHANGED child
       \/ Copied(u) /\ Advance(u) /\ UNCHANGED code
    /\ UNCHANGED <<lock, units, data, info, backup, faults>>

\* finalize_install: the metadata of the bootstrap, or a local build.
FinalizeInstall(u) ==
    /\ At(u, "finalize")
    /\ info' = Build(u) /\ Advance(u)
    /\ UNCHANGED <<lock, units, data, code, backup, faults>>

ArmTimer(u, j) ==
    /\ At(u, IF j = "refresh" THEN "arm_refresh" ELSE "arm_health")
    /\ timers' = timers \cup {j} /\ Advance(u)
    /\ UNCHANGED <<lock, running, installed, faults>>
Restart(u) ==
    /\ At(u, "restart")
    /\ running' = running \cup {"web"} /\ Advance(u)
    /\ UNCHANGED <<lock, timers, installed, faults>>
Exit(u, how) == child' = [child EXCEPT ![u] = how] /\ Release(u, "child")
Verify(u) ==
    /\ At(u, "verify")
    /\ Exit(u, "ended")
    /\ UNCHANGED <<parent, units, installed, faults>>

\* Any step may fail or the script be killed.  A failure to install the health
\* units puts the old ones back and starts their timer again, if it can.
Fails(u) ==
    /\ child[u] \notin Ends /\ Fault
    /\ \/ UNCHANGED timers
       \/ At(u, "arm_health") /\ timers' = timers \cup {"health"}
    /\ Exit(u, "failed")
    /\ UNCHANGED <<parent, running, installed>>
\* A killed parent leaves its child behind, which keeps the lock.
KillParent(u) ==
    /\ parent[u].at \notin {"none", "ended"} /\ Fault
    /\ Ending(u)
    /\ UNCHANGED <<child, units, installed>>
\* Units stay enabled while they are stopped.
Reboot ==
    /\ Fault
    /\ holders' = {}
    /\ parent' = [u \in Updaters |-> IF parent[u].at \in {"none", "ended"} THEN parent[u]
                                     ELSE [parent[u] EXCEPT !.at = "ended"]]
    /\ child' = [u \in Updaters |-> IF child[u] \in Ends THEN child[u] ELSE "failed"]
    /\ timers' = Jobs /\ running' = {"web"}
    /\ UNCHANGED installed

-----------------------------------------------------------------------------
(* The service *)

Fire(j) ==
    /\ j \in timers \ running /\ running' = running \cup {j}
    /\ UNCHANGED <<lock, child, timers, installed, faults>>
JobEnds(j) ==
    /\ j \in running /\ running' = running \ {j}
    /\ UNCHANGED <<lock, child, timers, installed, faults>>
WriteState ==
    /\ running # {} /\ data.writes < MaxWrites
    /\ data' = [data EXCEPT !.writes = data.writes + 1]
    /\ UNCHANGED <<lock, child, units, code, info, backup, faults>>
\* A web service that keeps its password in state/ makes auth.json as it starts.
Initialize ==
    /\ "web" \in running /\ data.auth = "missing" /\ Credentials
    /\ data' = [data EXCEPT !.auth = "made"]
    /\ UNCHANGED <<lock, child, units, code, info, backup, faults>>

Next ==
    \/ \E u \in Updaters :
         \/ \E b \in Builds : Acquire(u, b)
         \/ \E downgrade \in BOOLEAN : Decide(u, downgrade)
         \/ Return(u) \/ Record(u)
         \/ CheckInherited(u) \/ BackUpCode(u)
         \/ \E j \in Jobs : StopTimer(u, j) \/ StopJob(u, j) \/ ArmTimer(u, j)
         \/ StopWeb(u) \/ BackUpState(u) \/ Migrate(u) \/ Clean(u) \/ CopyPart(u)
         \/ FinalizeInstall(u) \/ Restart(u) \/ Verify(u)
         \/ Fails(u) \/ KillParent(u)
    \/ Reboot
    \/ \E j \in Jobs : Fire(j) \/ JobEnds(j)
    \/ WriteState \/ Initialize

Spec == Init /\ [][Next]_vars

-----------------------------------------------------------------------------

\* Two upgrades never work at once, also when the bootstrap of one was killed and
\* its script goes on, or when its script is over and the bootstrap still writes.
OneUpgrade ==
    \A u, v \in Updaters :
        child[u] \notin Ends /\ (child[v] \notin Ends \/ parent[v].at = "record") => u = v

\* Once the state is backed up only the migration writes to it or to the
\* credentials of .env: up to the first replaced part the backup is the code there
\* is, and until the new version runs it is the data there are, but for an
\* auth.json that the migration made and the credentials it took out of .env.
BackupIsWhatWasReplaced ==
    \A u \in Updaters : child[u] \in {"migrate", "clean", "copy", "finalize"} =>
        /\ backup[u].writes = data.writes
        /\ \/ backup[u].auth = data.auth
           \/ backup[u].auth = "missing" /\ child[u] # "migrate"
        /\ \/ backup[u].env = data.env
           \/ backup[u].env = "legacy" /\ child[u] \in {"copy", "finalize"}
        /\ child[u] \in {"migrate", "clean"} => backup[u].code = code

\* The credentials leave .env only for an auth.json, and stay in the backup of an
\* attempt: whoever goes back to a version that reads them from .env finds them
\* there, also when another attempt has backed up a cleaned .env since.
CredentialsKept ==
    /\ Credentials
    /\ data.env = "cleaned" => \E u \in Updaters : backup[u].env = "legacy"

\* Wherever a bootstrapped attempt is cut off while it copies, asking for the same
\* build again is not answered "Already up to date", if there are metadata.
RepeatedAttemptGoesOn ==
    \A u \in Updaters :
        At(u, "copy") /\ parent[u].remote /\ ~Copied(u) /\ info # None => ~UpToDate(Build(u))

\* Nothing is rolled back automatically, so an attempt that is cut off must leave
\* what a person needs: a backup of what was replaced, the credentials, and a way to
\* go on.
CutOffIsRecoverable == BackupIsWhatWasReplaced /\ CredentialsKept /\ RepeatedAttemptGoesOn

\* What an upgrade promises: no other beside it, and a way back and on when it is
\* cut off.
UpgradesSound == OneUpgrade /\ CutOffIsRecoverable

=============================================================================
