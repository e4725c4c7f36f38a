------------------------ MODULE HttpsSetupProperties ------------------------
(***************************************************************************)
(* What the HTTPS transactions promise (docs/HTTPS.md, "Transactions,       *)
(* disable and recovery").                                                  *)
(***************************************************************************)
EXTENDS HttpsSetup

\* Wherever the newest transaction, or an attempt to undo it, is cut off, every
\* file is as saved or as journalled, unless someone else changed it since: a
\* rollback is not refused and leaves nothing of the transaction behind.
LatestCanBeUndone ==
    backups # <<>> => \A f \in Files \ foreign : disk[f] \in Known(Len(backups), f)

\* When no transaction is left half done, the application and nginx run with the
\* files that are on disk, whatever failed and was put back before.
ServedAsOnDisk ==
    Idle /\ torn = {} => app = <<disk.env, disk.unit>> /\ web = disk.nginx

\* The newest edit a content carries.
EditIn(f, content) ==
    CASE f = "env" -> content.other
      [] f = "nginx" -> IF content = None THEN 0 ELSE content.edit
      [] OTHER -> 0

\* What a tool replaces was saved in a backup or written by a tool before; and an
\* edit an administrator made leaves the live file only by a transaction that found
\* it there when it took its backup, so that it is in that one, whatever is
\* undone, in whatever order, however long certbot took.  An edit after the backup
\* is never replaced.  One before it is, when the transaction read .env, or checked
\* nginx, still earlier: the window between environment() and snapshot().
NoEditLostStep ==
    edits' = edits =>
        \A f \in Files : disk'[f] # disk[f] =>
            /\ \E b \in DOMAIN backups : disk[f] \in Known(b, f)
            /\ EditIn(f, disk'[f]) < EditIn(f, disk[f]) =>
                   Doing /\ disk[f] = backups[run.folder].saved[f]
NoEditLost == [][NoEditLostStep]_vars

\* Disabling gives the administrator's settings back: they never stay those of
\* the domain once metadata, nginx and hook are gone and nothing was cut off.
SettingsComeBack ==
    /\ Idle /\ torn = {}
    /\ \A f \in {"nginx", "hook", "metadata"} : disk[f] = None
    => disk.env.settings = None /\ disk.unit = "any"

=============================================================================
