------------------------------ MODULE GeoStore ------------------------------
(***************************************************************************)
(* The uploaded GeoIP database: core/geoip_store.py.                       *)
(*                                                                         *)
(* Database and settings are two files, replaced one after the other and    *)
(* put back on failure, under a lock that readers share without waiting.    *)
(* A read-only lookup that finds no lock file goes on without the lock, and  *)
(* the first uploads may come between this and its reads of the two files.   *)
(***************************************************************************)
EXTENDS Integers

CONSTANTS
    Databases,   \* valid databases, each with its hash and type
    None,
    MaxWrites,   \* bound on uploads and removals
    MaxFaults    \* bound on failing replacements and kills

BoundsAssumption == MaxWrites \in Nat /\ MaxFaults \in Nat

VARIABLES
    database,    \* active.mmdb
    settings,    \* the database settings.json describes, None without one
    locked,      \* the lock file exists
    writer, reader, writes, faults,
    \* history
    pairs        \* what a completed pair of files said since the reader began

vars == <<database, settings, locked, writer, reader, writes, faults, pairs>>
files == <<database, settings>>

Contents == Databases \cup {None}
AtRest == [mode |-> "idle"]

TypeOK ==
    /\ database \in Contents /\ settings \in Contents /\ locked \in BOOLEAN
    /\ writer.mode \in {"idle", "database", "settings", "undo database", "undo settings"}
    /\ reader.mode \in {"idle", "database", "settings", "done", "unavailable"}
    /\ writes \in 0..MaxWrites /\ faults \in 0..MaxFaults /\ pairs \subseteq Contents

Init ==
    /\ database = None /\ settings = None /\ locked = FALSE
    /\ writer = AtRest /\ reader = AtRest
    /\ writes = 0 /\ faults = 0 /\ pairs = {}

Paired(db, meta) == IF db = meta THEN {db} ELSE {}
Fault == faults < MaxFaults /\ faults' = faults + 1
Held == writer # AtRest
Reading == reader.mode \in {"database", "settings"}

-----------------------------------------------------------------------------
(* upload (staged and validated before) and remove *)

Write(d) ==
    /\ ~Held /\ ~(Reading /\ reader.lock)
    /\ writes < MaxWrites /\ writes' = writes + 1
    /\ locked' = TRUE
    /\ writer' = [mode |-> "database", new |-> d, before |-> files]
    /\ UNCHANGED <<files, reader, faults, pairs>>

Step(mode) == writer' = [writer EXCEPT !.mode = mode]
ReplaceDatabase ==
    /\ writer.mode = "database"
    /\ database' = writer.new /\ Step("settings")
    /\ UNCHANGED <<settings, locked, reader, writes, faults, pairs>>
ReplaceSettings ==
    /\ writer.mode = "settings"
    /\ settings' = writer.new /\ writer' = AtRest
    /\ pairs' = pairs \cup Paired(database, settings')
    /\ UNCHANGED <<database, locked, reader, writes, faults>>

\* A replacement fails, with or without effect; both files are restored, and a
\* restore that fails is passed over.
Fails ==
    /\ Held /\ Fault
    /\ \/ /\ writer.mode = "database"
          /\ database' \in {database, writer.new} /\ Step("undo database")
          /\ UNCHANGED settings
       \/ /\ writer.mode = "settings"
          /\ settings' \in {settings, writer.new} /\ Step("undo database")
          /\ UNCHANGED database
       \/ /\ writer.mode = "undo database" /\ Step("undo settings")
          /\ UNCHANGED files
       \/ /\ writer.mode = "undo settings" /\ writer' = AtRest
          /\ UNCHANGED files
    /\ pairs' = pairs \cup Paired(database', settings')
    /\ UNCHANGED <<locked, reader, writes>>

Restore ==
    /\ \/ /\ writer.mode = "undo database"
          /\ database' = writer.before[1] /\ Step("undo settings")
          /\ UNCHANGED settings
       \/ /\ writer.mode = "undo settings"
          /\ settings' = writer.before[2] /\ writer' = AtRest
          /\ UNCHANGED database
    /\ pairs' = pairs \cup Paired(database', settings')
    /\ UNCHANGED <<locked, reader, writes, faults>>

Kill ==
    /\ Held /\ Fault
    /\ writer' = AtRest
    /\ UNCHANGED <<files, locked, reader, writes, pairs>>

-----------------------------------------------------------------------------
(* lookup and status *)

\* The lock is tried once; read-only lookups go without a lock file.
Lookup(readonly) ==
    /\ ~Reading
    /\ LET lock == locked \/ ~readonly
       IN  IF lock /\ Held
           THEN reader' = [mode |-> "unavailable"] /\ UNCHANGED locked
           ELSE reader' = [mode |-> "database", lock |-> lock] /\ locked' = lock
    /\ pairs' = Paired(database, settings)
    /\ UNCHANGED <<files, writer, writes, faults>>

ReadDatabase ==
    /\ reader.mode = "database"
    /\ reader' = [mode |-> "settings", lock |-> reader.lock, raw |-> database]
    /\ UNCHANGED <<files, locked, writer, writes, faults, pairs>>

\* Both files or neither, and the size and hash of one database.
BothOrNeither(raw, meta) == (raw = None) = (meta = None)
Matching(raw, meta) == raw = meta
Answer ==
    /\ reader.mode = "settings"
    /\ reader' = IF Matching(reader.raw, settings)
                 THEN [mode |-> "done", raw |-> reader.raw]
                 ELSE [mode |-> "unavailable"]
    /\ UNCHANGED <<files, locked, writer, writes, faults, pairs>>

Next ==
    \/ \E d \in Contents : Write(d)
    \/ ReplaceDatabase \/ ReplaceSettings \/ Fails \/ Restore \/ Kill
    \/ \E readonly \in BOOLEAN : Lookup(readonly)
    \/ ReadDatabase \/ Answer

Spec == Init /\ [][Next]_vars

-----------------------------------------------------------------------------

\* A lookup answers from a database whose settings named it at some moment of the
\* lookup, or from none at such a moment: never from half of an upload, of an
\* undone one or of what a kill left behind.  With the lock nothing moves between
\* the two reads; without it uploads may, and only the hash in the settings tells.
AnswersFromAPair == reader.mode = "done" => reader.raw \in pairs

=============================================================================
