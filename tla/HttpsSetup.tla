----------------------------- MODULE HttpsSetup -----------------------------
(***************************************************************************)
(* The managed HTTPS integration: core/https_manager.py.                   *)
(*                                                                         *)
(* setup, disable and detach replace up to five files of three services.   *)
(* Each is a transaction: it saves the files in a private backup, notes     *)
(* every intended content there before it replaces a file, and puts the     *)
(* files back when a step fails.  A killed transaction leaves its backup;   *)
(* rollback undoes it later.  Administrators edit the files at any time.    *)
(***************************************************************************)
EXTENDS Integers, Sequences, FiniteSets

CONSTANTS
    Hosts,        \* domains
    None,         \* a file that does not exist
    MaxBackups,   \* bound on transactions
    MaxEdits,     \* bound on edits by administrators
    MaxFaults     \* bound on failing steps and kills

BoundsAssumption == MaxBackups \in Nat /\ MaxEdits \in Nat /\ MaxFaults \in Nat

VARIABLES
    disk,     \* the five files
    app,      \* .env and unit the running application was started with
    web,      \* the configuration nginx runs with
    backups,  \* the private backups: the saved files, the journal of intents
    run,      \* the tool that holds .httpsctl.lock, if any
    \* history
    edits,    \* edits so far
    faults,   \* failing steps and kills so far
    foreign,  \* files changed by others since the last backup was taken
    torn      \* transactions and rollbacks that were killed or gave up, and
              \* Crossed once an older transaction was undone before a newer one

vars == <<disk, app, web, backups, run, edits, faults, foreign, torn>>
services == <<app, web>>
history == <<edits, faults, foreign, torn>>

Files == {"env", "unit", "nginx", "hook", "metadata"}

-----------------------------------------------------------------------------
(* Contents.  A content is what its generator was given and the number of    *)
(* the edit that changed it last, 0 if none did.                             *)

\* The five managed settings of .env are those of a domain, or the
\* administrator's (None); `other` stands for the rest of the file.
Env == [settings: Hosts \cup {None}, other: 0..MaxEdits]
Nginx == [host: Hosts, tls: BOOLEAN, edit: 0..MaxEdits]
Metadata == [host: Hosts, nginx: Nginx \cup {None}, prior: 1..MaxBackups]

\* A file that does not exist has no content.
NamesAssumption == None \notin Hosts \cup Nginx \cup Metadata

NginxConfig(host, tls) == [host |-> host, tls |-> tls, edit |-> 0]
\* The unit binds to the loopback address behind nginx.
ServiceUnit(settings) == IF settings = None THEN "any" ELSE "local"
EditEnv(text, settings) == [text EXCEPT !.settings = settings]

Disk == [env: Env, unit: {"any", "local"}, nginx: Nginx \cup {None},
         hook: Hosts \cup {None}, metadata: Metadata \cup {None}]
Journal == [env: SUBSET Env, unit: SUBSET {"any", "local"}, nginx: SUBSET (Nginx \cup {None}),
            hook: SUBSET (Hosts \cup {None}), metadata: SUBSET (Metadata \cup {None})]

NewBackup == [saved |-> disk, written |-> [env |-> {}, unit |-> {}, nginx |-> {},
                                           hook |-> {}, metadata |-> {}]]
Known(b, f) == {backups[b].saved[f]} \cup backups[b].written[f]
Selected(b) == {f \in Files : backups[b].written[f] # {}}

\* status says YES, and setup and disable go on, only when environment, nginx,
\* hook and unit are what the metadata describes.
Consistent(info) ==
    /\ disk.env.settings = info.host
    /\ disk.nginx = info.nginx /\ disk.nginx # None
    /\ disk.hook = info.host
    /\ disk.unit = "local"

-----------------------------------------------------------------------------
(* The programs of the transactions, with the environment they read before.  *)

Write(f, c) == [step |-> "write", file |-> f, content |-> c]
Restart == [step |-> "app"]
Activate == [step |-> "nginx"]

SetupProgram(host, text) ==
    <<Write("nginx", NginxConfig(host, FALSE)), Activate,
      Write("nginx", NginxConfig(host, TRUE)),
      Write("hook", host),
      Write("env", EditEnv(text, host)),
      Write("unit", ServiceUnit(host)),
      Restart, Activate,
      [step |-> "describe", host |-> host]>>

DisableProgram(text, settings) ==
    <<Write("nginx", None), Write("hook", None),
      Write("env", EditEnv(text, settings)),
      Write("unit", ServiceUnit(settings)),
      Restart, Activate,
      Write("metadata", None)>>

DetachProgram == <<Write("nginx", None), Write("hook", None), Activate>>

-----------------------------------------------------------------------------

Crossed == 0
AtRest == [mode |-> "idle"]

TypeOK ==
    /\ disk \in Disk
    /\ app \in Env \X {"any", "local"}
    /\ web \in Nginx \cup {None}
    /\ DOMAIN backups = 1..Len(backups) /\ Len(backups) <= MaxBackups
    /\ \A b \in DOMAIN backups : backups[b].saved \in Disk /\ backups[b].written \in Journal
    /\ run.mode \in {"idle", "start", "do", "failed", "undo"}
    /\ edits \in 0..MaxEdits /\ foreign \subseteq Files
    /\ torn \subseteq DOMAIN backups \cup {Crossed}

Idle == run = AtRest
Doing == run.mode = "do"
Undoing == run.mode = "undo"

Init ==
    /\ disk = [env |-> [settings |-> None, other |-> 0], unit |-> "any",
                nginx |-> None, hook |-> None, metadata |-> None]
    /\ app = <<disk.env, disk.unit>>
    /\ web = None
    /\ backups = <<>>
    /\ run = AtRest
    /\ edits = 0 /\ faults = 0 /\ foreign = {} /\ torn = {}

\* Locked, checked, and the environment read; the backup comes after that.
Start(program) ==
    /\ Idle /\ Len(backups) < MaxBackups
    /\ run' = [mode |-> "start", todo |-> program]
    /\ UNCHANGED <<disk, services, backups, history>>

Setup(host) ==
    /\ disk.metadata = None /\ disk.nginx = None /\ disk.hook = None
    /\ Start(SetupProgram(host, disk.env))

Disable ==
    /\ disk.metadata # None /\ Consistent(disk.metadata)
    /\ Start(DisableProgram(disk.env, backups[disk.metadata.prior].saved.env.settings))

Detach ==
    /\ disk.metadata # None /\ Consistent(disk.metadata)
    /\ Start(DetachProgram)

\* transaction: setup looks once more for an integration that appeared.
Appeared == run.todo[1].content # None
            /\ \E f \in {"nginx", "hook", "metadata"} : disk[f] # None
Snapshot ==
    /\ run.mode = "start"
    /\ backups' = Append(backups, NewBackup)
    /\ run' = IF Appeared THEN AtRest
              ELSE [mode |-> "do", folder |-> Len(backups) + 1, todo |-> run.todo,
                    intent |-> FALSE]
    /\ foreign' = {}
    /\ UNCHANGED <<disk, services, edits, faults, torn>>

\* The file a write step is about, and what it puts there.
Target == IF Head(run.todo).step = "describe" THEN "metadata" ELSE Head(run.todo).file
Content ==
    IF Head(run.todo).step = "describe"
    THEN [host |-> Head(run.todo).host, nginx |-> disk.nginx, prior |-> run.folder]
    ELSE Head(run.todo).content

Proceed(todo) == run' = [run EXCEPT !.todo = todo, !.intent = FALSE]
Writing == Doing /\ run.todo # <<>> /\ Head(run.todo).step \in {"write", "describe"}

\* write: the file must be as saved or as this transaction left it; the intent
\* is on disk before the file is replaced.
NotedFirst(b, f, c) ==
    IF backups[b].written[f] # {} THEN backups
    ELSE [backups EXCEPT ![b].written[f] = {c}]
Noted(b, f, c) == [backups EXCEPT ![b].written[f] = @ \cup {c}]
UnchangedAssumed(b, f) == TRUE
Unchanged(b, f) == disk[f] \in Known(b, f)
Note ==
    /\ Writing /\ ~run.intent
    /\ Unchanged(run.folder, Target)
    /\ backups' = Noted(run.folder, Target, Content)
    /\ run' = [run EXCEPT !.intent = TRUE]
    /\ UNCHANGED <<disk, services, history>>

Publish ==
    /\ Writing /\ run.intent
    /\ disk' = [disk EXCEPT ![Target] = Content]
    /\ Proceed(Tail(run.todo))
    /\ UNCHANGED <<services, backups, history>>

\* restart_app and activate_nginx or reload_existing_nginx, after nginx -t.
Serve ==
    /\ Doing /\ run.todo # <<>> /\ Head(run.todo).step \in {"app", "nginx"}
    /\ app' = IF Head(run.todo).step = "app" THEN <<disk.env, disk.unit>> ELSE app
    /\ web' = IF Head(run.todo).step = "nginx" THEN disk.nginx ELSE web
    /\ Proceed(Tail(run.todo))
    /\ UNCHANGED <<disk, backups, history>>

Commit ==
    /\ Doing /\ run.todo = <<>>
    /\ run' = AtRest
    /\ UNCHANGED <<disk, services, backups, history>>

-----------------------------------------------------------------------------
(* Undoing *)

\* restore looks at every selected file before it touches one.
Undoable(b) == \A f \in Selected(b) : Unchanged(b, f)
Undo(b) ==
    /\ Undoable(b)
    /\ run' = [mode |-> "undo", folder |-> b, left |-> Selected(b), whole |-> TRUE]

\* A command, a check or a write fails, an edit is in the way, or a signal
\* arrives: any step of the transaction may be its last.  A replacement can
\* have taken effect before its fsync fails.
Fault == faults < MaxFaults /\ faults' = faults + 1
Fail ==
    /\ Doing /\ Fault
    /\ \/ UNCHANGED disk
       \/ Writing /\ run.intent /\ disk' = [disk EXCEPT ![Target] = Content]
    /\ run' = [mode |-> "failed", folder |-> run.folder]
    /\ UNCHANGED <<services, backups, edits, foreign, torn>>

Recover ==
    /\ run.mode = "failed"
    /\ \/ Undo(run.folder) /\ UNCHANGED torn
       \/ /\ ~Undoable(run.folder)
          /\ run' = AtRest /\ torn' = torn \cup {run.folder}
    /\ UNCHANGED <<disk, services, backups, edits, faults, foreign>>

Rollback(b) ==
    /\ Idle /\ b \in DOMAIN backups
    /\ Undo(b)
    /\ torn' = IF b = Len(backups) THEN torn ELSE torn \cup {Crossed}
    /\ UNCHANGED <<disk, services, backups, edits, faults, foreign>>

PutBack(f) ==
    /\ Undoing /\ f \in run.left
    /\ \/ /\ disk' = [disk EXCEPT ![f] = backups[run.folder].saved[f]]
          /\ foreign' = IF run.folder = Len(backups) THEN foreign ELSE foreign \cup {f}
          /\ run' = [run EXCEPT !.left = @ \ {f}]
          /\ UNCHANGED faults
       \/ /\ Fault
          /\ run' = [run EXCEPT !.left = @ \ {f}, !.whole = FALSE]
          /\ UNCHANGED <<disk, foreign>>
    /\ UNCHANGED <<services, backups, edits, torn>>

\* Both services are brought back, each if one of its files was selected.
Finish ==
    /\ Undoing /\ run.left = {}
    /\ \E up \in SUBSET {"app", "nginx"} :
         /\ IF up = {"app", "nginx"} THEN UNCHANGED faults ELSE Fault
         /\ app' = IF "app" \in up /\ {"env", "unit"} \cap Selected(run.folder) # {}
                   THEN <<disk.env, disk.unit>> ELSE app
         /\ web' = IF "nginx" \in up /\ "nginx" \in Selected(run.folder)
                   THEN disk.nginx ELSE web
         /\ torn' = IF run.whole /\ up = {"app", "nginx"}
                    THEN torn \ {run.folder} ELSE torn \cup {run.folder}
    /\ run' = AtRest
    /\ UNCHANGED <<disk, backups, edits, foreign>>

-----------------------------------------------------------------------------
(* The rest of the world *)

\* SIGKILL or power loss.  The next boot or administrator starts the services
\* again, or nobody does.
Kill ==
    /\ ~Idle /\ Fault
    /\ run' = AtRest
    /\ torn' = IF run.mode = "start" THEN torn ELSE torn \cup {run.folder}
    /\ UNCHANGED <<disk, services, backups, edits, foreign>>

\* An administrator changes unmanaged settings or the nginx configuration and
\* reloads the service.  No edit falls into the instants between a check of the
\* tool and the replacement that follows it.
Edit(f) ==
    /\ edits < MaxEdits
    /\ run.mode \in {"idle", "start"} \/ (Doing /\ ~run.intent)
    /\ edits' = edits + 1
    /\ foreign' = foreign \cup {f}
    /\ \/ /\ f = "env"
          /\ disk' = [disk EXCEPT !.env.other = edits']
          /\ app' = <<disk'.env, disk.unit>>
          /\ UNCHANGED web
       \/ /\ f = "nginx" /\ disk.nginx # None
          /\ disk' = [disk EXCEPT !.nginx.edit = edits']
          /\ web' = disk'.nginx
          /\ UNCHANGED app
    /\ UNCHANGED <<backups, run, faults, torn>>

Next ==
    \/ \E h \in Hosts : Setup(h)
    \/ Disable
    \/ Detach
    \/ Snapshot
    \/ Note
    \/ Publish
    \/ Serve
    \/ Commit
    \/ Fail
    \/ Recover
    \/ \E b \in 1..MaxBackups : Rollback(b)
    \/ \E f \in Files : PutBack(f)
    \/ Finish
    \/ Kill
    \/ \E f \in {"env", "nginx"} : Edit(f)

Spec == Init /\ [][Next]_vars

=============================================================================
