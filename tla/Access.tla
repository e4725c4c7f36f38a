------------------------------- MODULE Access -------------------------------
(***************************************************************************)
(* Signing in: core/rate_limit.py, core/security.py, core/migrate.py and    *)
(* the session checks of app.py.                                           *)
(*                                                                         *)
(* The workers share the credentials (auth.json) and the table of failed    *)
(* sign-ins (login_attempts.json).  An attempt holds the lock of the table  *)
(* while it waits for the slow password hash; a password change takes only  *)
(* the lock of the credentials, so it may come between the check and the    *)
(* answer.  Sessions live in signed cookies that browsers keep: the server  *)
(* cannot withdraw them, it can only stop accepting them.                   *)
(***************************************************************************)
EXTENDS Integers, FiniteSets, FiniteSetsExt, Sequences

CONSTANTS
    Workers,      \* Gunicorn workers
    Ips,          \* normalised client addresses
    Passwords,
    Instances,    \* random ids of a credential file
    None,         \* Python's None
    MaxFailures,  \* failures that lock an address
    Window,       \* the time in which they are counted
    Lockout,      \* the time an address is locked
    MaxEntries,   \* addresses the table holds
    MaxClock,     \* bound on the clock
    MaxChanges,   \* bound on password changes
    Faults        \* a subset of {"io", "restore"}

VARIABLES
    env,        \* the legacy password in .env, or None once it was migrated
    auth,       \* auth.json, or None before it exists
    backup,     \* the copy of auth.json an administrator keeps, or None
    table,      \* login_attempts.json: the record of every address, or None
    lock,       \* the worker that holds login_attempts.lock, or None
    clock,
    pc, from, now, given, sess,  \* where every worker is, and its locals
    migrating,  \* the root migration has committed auth.json, not yet .env
    cookies,    \* the sessions browsers hold
    era,        \* history: password changes that were committed
    restored,   \* history: "never", "yes", or a change came after it: "changed"
    misses      \* history: the last refused passwords of every address

vars == <<env, auth, backup, table, lock, clock, pc, from, now, given, sess,
          migrating, cookies, era, restored, misses>>
locals == <<from, now, given, sess>>
history == <<era, restored, misses>>

-----------------------------------------------------------------------------
(* Types *)

Auth == [version: 1..(MaxChanges + 1), instance: Instances, password: Passwords]

\* A session names the credentials it was issued under; era is history.
Session == [version: 1..(MaxChanges + 1), instance: Instances, era: Nat]

\* blocked is 0 or the time the lockout ends.
Attempts == [failures: Seq(0..MaxClock), blocked: 0..(MaxClock + Lockout)]

ASSUME NoneAssumption ==
    None \notin Workers \cup Passwords \cup Auth \cup Session \cup Attempts
ASSUME LimitAssumption ==
    /\ {MaxFailures, Window, Lockout, MaxEntries} \subseteq Nat \ {0}
    /\ MaxClock \in Nat /\ MaxChanges \in Nat
ASSUME IpsAssumption == IsFiniteSet(Ips)

\* The addresses the table has a record of.
Used(tab) == {ip \in Ips : tab[ip] # None}

\* The table is bounded in both directions: the failures of an address by the
\* limit that locks it, the addresses by MaxEntries.
TableOK(tab) ==
    /\ tab \in [Ips -> Attempts \cup {None}]
    /\ \A ip \in Ips : tab[ip] # None =>
         Len(tab[ip].failures) < MaxFailures + (IF tab[ip].blocked = 0 THEN 0 ELSE 1)
    /\ Cardinality(Used(tab)) <= MaxEntries

TypeOK ==
    /\ env \in Passwords \cup {None}
    /\ auth \in Auth \cup {None}
    /\ backup \in Auth \cup {None}
    /\ TableOK(table)
    /\ lock \in Workers \cup {None}
    /\ clock \in 0..MaxClock
    /\ pc \in [Workers -> {"down", "boot", "idle", "limited", "checked", "admitted"}]
    /\ from \in [Workers -> Ips \cup {None}]
    /\ now \in [Workers -> 0..MaxClock]
    /\ given \in [Workers -> Passwords \cup {None}]
    /\ sess \in [Workers -> Session \cup {None}]
    /\ migrating \in BOOLEAN
    /\ cookies \subseteq Session
    /\ era \in Nat
    /\ restored \in {"never", "yes", "changed"}
    /\ misses \in [Ips -> Seq(0..MaxClock)]

\* An installation with a legacy password in .env.
Init ==
    /\ env \in Passwords
    /\ auth = None /\ backup = None
    /\ table = [ip \in Ips |-> None]
    /\ lock = None
    /\ clock = 0
    /\ pc = [w \in Workers |-> "down"]
    /\ from = [w \in Workers |-> None]
    /\ now = [w \in Workers |-> 0]
    /\ given = [w \in Workers |-> None]
    /\ sess = [w \in Workers |-> None]
    /\ migrating = FALSE
    /\ cookies = {}
    /\ era = 0 /\ restored = "never"
    /\ misses = [ip \in Ips |-> <<>>]

Goto(w, label) == pc' = [pc EXCEPT ![w] = label]

\* The request ends and the worker forgets its locals.
Forget(w) ==
    /\ from' = [from EXCEPT ![w] = None]
    /\ now' = [now EXCEPT ![w] = 0]
    /\ given' = [given EXCEPT ![w] = None]
    /\ sess' = [sess EXCEPT ![w] = None]
Finish(w) == Goto(w, "idle") /\ Forget(w)

-----------------------------------------------------------------------------
(* initialize and migrate_auth *)

\* The file initialize writes from a legacy password, unless there is one: a
\* write that failed before the replacement leaves none.
Initialized(password) ==
    IF auth # None THEN {auth}
    ELSE IF password = None THEN {}
    ELSE {[version |-> 1, instance |-> i, password |-> password] : i \in Instances}

\* systemd hands the worker the .env it finds.
Boot(w) ==
    /\ pc[w] = "down"
    /\ Goto(w, "boot")
    /\ given' = [given EXCEPT ![w] = env]
    /\ UNCHANGED <<env, auth, backup, table, lock, clock, from, now, sess, migrating,
                   cookies, history>>

\* initialize; after it the legacy password is popped from the environment.
Start(w) ==
    /\ pc[w] = "boot"
    /\ \/ \E a \in Initialized(given[w]) :
            /\ auth' = a
            /\ \/ Goto(w, "idle")
               \/ "io" \in Faults /\ auth = None /\ Goto(w, "down")
       \/ /\ UNCHANGED auth
          /\ auth = None /\ (given[w] = None \/ "io" \in Faults)
          /\ Goto(w, "down")
    /\ Forget(w)
    /\ UNCHANGED <<env, backup, table, lock, clock, migrating, cookies, history>>

\* The service stops or the worker is killed; the kernel drops its flock.
Stop(w) ==
    /\ pc[w] # "down"
    /\ Goto(w, "down") /\ Forget(w)
    /\ lock' = IF lock = w THEN None ELSE lock
    /\ UNCHANGED <<env, auth, backup, table, clock, migrating, cookies, history>>

\* migrate_auth, run by root: first auth.json durably, then .env.  A failing
\* write or a kill ends it between the two, and it may be run again.
Migrate ==
    /\ ~migrating
    /\ \E a \in Initialized(env) :
         /\ auth' = a
         /\ migrating' \in IF "io" \in Faults THEN BOOLEAN ELSE {TRUE}
    /\ UNCHANGED <<env, backup, table, lock, clock, pc, locals, cookies, history>>

\* The credential records are removed from .env, or the write fails.
CleanedFirst == auth = None \/ migrating
Cleaned == migrating
MigrateEnv ==
    /\ Cleaned
    /\ migrating' = FALSE
    /\ env' \in IF "io" \in Faults THEN {env, None} ELSE {None}
    /\ UNCHANGED <<auth, backup, table, lock, clock, pc, locals, cookies, history>>

-----------------------------------------------------------------------------
(* LoginLimiter.attempt with AuthStore.authenticate as its callback *)

\* Failures that still count at time t: the clock does not go back, so those
\* that have expired come first.
Expired(record, t) == {n \in DOMAIN record.failures : record.failures[n] <= t - Window}
Recent(record, t) ==
    SubSeq(record.failures, Cardinality(Expired(record, t)) + 1, Len(record.failures))

\* _load: the records that are still alive, without their expired failures.
AliveAtEnd(record, t) ==
    IF record.blocked # 0 THEN record.blocked >= t ELSE Recent(record, t) # <<>>
Alive(record, t) ==
    IF record.blocked # 0 THEN record.blocked > t ELSE Recent(record, t) # <<>>
Loaded(tab, t) ==
    [ip \in Ips |->
        IF tab[ip] # None /\ Alive(tab[ip], t)
        THEN [failures |-> Recent(tab[ip], t), blocked |-> tab[ip].blocked]
        ELSE None]

Full(tab) == Cardinality(Used(tab)) >= MaxEntries

\* A locked address waits, and so does a new one when the table is full: no
\* record is evicted to make room.
Waits(tab, ip, t) == IF tab[ip] = None THEN Full(tab) ELSE tab[ip].blocked > t

\* When a record leaves the table unless it is written again.
Expiry(r) ==
    IF r.blocked # 0 THEN r.blocked ELSE r.failures[Len(r.failures)] + Window

\* _retry: how long ip is told to wait at time t, 0 for not at all.
Retry(tab, ip, t) ==
    CASE ~Waits(tab, ip, t) -> 0
      [] Waits(tab, ip, t) /\ tab[ip] # None -> tab[ip].blocked - t
      [] OTHER -> Max({1, Min({Expiry(tab[j]) : j \in Used(tab)}) - t})

\* An attempt that has to wait only prunes the table.
RefusedLater(tab, ip, t) ==
    IF tab[ip] = None THEN tab ELSE [tab EXCEPT ![ip].blocked = t + Lockout]
Refused(tab, ip, t) == tab

Attempt(w, ip) ==
    /\ pc[w] = "idle" /\ lock = None
    /\ LET ips == Loaded(table, clock) IN
       IF Waits(ips, ip, clock)
       THEN /\ \/ table' = Refused(ips, ip, clock)
               \/ "io" \in Faults /\ UNCHANGED table
            /\ UNCHANGED <<lock, pc, from, now>>
       ELSE /\ lock' = w
            /\ Goto(w, "limited")
            /\ from' = [from EXCEPT ![w] = ip]
            /\ now' = [now EXCEPT ![w] = clock]
            /\ UNCHANGED table
    /\ UNCHANGED <<env, auth, backup, clock, given, sess, migrating, cookies, history>>

\* The session login issues for the credentials the password was checked with.
Issued(a) == [version |-> a.version, instance |-> a.instance, era |-> era]

\* authenticate, still under the lock of the table.
Authenticate(w, password) ==
    /\ pc[w] = "limited"
    /\ sess' = [sess EXCEPT ![w] = IF auth.password = password THEN Issued(auth) ELSE None]
    /\ Goto(w, "checked")
    /\ UNCHANGED <<env, auth, backup, table, lock, clock, from, now, given, migrating,
                   cookies, history>>

\* A failure counts for its address and locks it when it is one too many.
CountedLate(record, t) ==
    LET f == Append(IF record = None THEN <<>> ELSE record.failures, t)
    IN  [failures |-> f, blocked |-> IF Len(f) > MaxFailures THEN t + Lockout ELSE 0]
Counted(record, t) ==
    LET f == Append(IF record = None THEN <<>> ELSE record.failures, t)
    IN  [failures |-> f, blocked |-> IF Len(f) >= MaxFailures THEN t + Lockout ELSE 0]

Recorded(w) ==
    LET ips == Loaded(table, now[w])
    IN  [ips EXCEPT ![from[w]] = IF sess[w] # None THEN None ELSE Counted(@, now[w])]

\* The last MaxFailures + 1 refused passwords of an address.
Remember(s, t) ==
    LET f == Append(s, t) IN IF Len(f) > MaxFailures + 1 THEN Tail(f) ELSE f

\* The attempt is recorded and answered; a failing write answers with an error,
\* whether it took effect or not.
Record(w) ==
    /\ pc[w] = "checked"
    /\ \/ /\ table' = Recorded(w)
          /\ cookies' = IF sess[w] # None THEN cookies \cup {sess[w]} ELSE cookies
          /\ misses' = [misses EXCEPT ![from[w]] =
                           IF sess[w] # None THEN <<>> ELSE Remember(@, now[w])]
       \/ /\ "io" \in Faults
          /\ table' = Recorded(w)
          /\ misses' = [misses EXCEPT ![from[w]] = IF sess[w] # None THEN <<>> ELSE @]
          /\ UNCHANGED cookies
       \/ "io" \in Faults /\ UNCHANGED <<table, cookies, misses>>
    /\ lock' = None
    /\ Finish(w)
    /\ UNCHANGED <<env, auth, backup, clock, migrating, era, restored>>

-----------------------------------------------------------------------------
(* Requests with a session, change_password *)

Accepts(c) == auth # None /\ c.version = auth.version /\ c.instance = auth.instance

\* invalidate_old_sessions lets the request pass; it is not checked again.
Admit(w, c) ==
    /\ pc[w] = "idle"
    /\ Accepts(c)
    /\ Goto(w, "admitted")
    /\ sess' = [sess EXCEPT ![w] = c]
    /\ UNCHANGED <<env, auth, backup, table, lock, clock, from, now, given, migrating,
                   cookies, history>>

\* What the locked section asks of a change: the session is still the current
\* one and the current password was typed.
MayChangeUnchecked(w, current) == auth.password = current
MayChange(w, current) == Accepts(sess[w]) /\ auth.password = current

ChangedSameVersion(new) == [auth EXCEPT !.password = new]
Changed(new) == [auth EXCEPT !.password = new, !.version = @ + 1]

\* A change that took effect may still be reported as failed when the sync of
\* the directory fails; the file is not written back.
ChangePassword(w, current, new) ==
    /\ pc[w] = "admitted"
    /\ era < MaxChanges
    /\ MayChange(w, current)
    /\ auth' = Changed(new)
    /\ era' = era + 1
    /\ restored' = IF restored = "never" THEN "never" ELSE "changed"
    /\ Finish(w)
    /\ UNCHANGED <<env, backup, table, lock, clock, migrating, cookies, misses>>

\* Any other end of a request with a session: a refused or unwritten change,
\* a logout (which only clears the cookie of that browser), other pages.
Leave(w) ==
    /\ pc[w] = "admitted"
    /\ Finish(w)
    /\ UNCHANGED <<env, auth, backup, table, lock, clock, migrating, cookies, history>>

-----------------------------------------------------------------------------
(* Time, backups of the state directory *)

Tick ==
    /\ clock < MaxClock
    /\ clock' = clock + 1
    /\ UNCHANGED <<env, auth, backup, table, lock, pc, locals, migrating, cookies, history>>

\* update.sh copies the state with every writer stopped; docs/PHASE2.md puts it
\* back the same way.
AllDown == \A w \in Workers : pc[w] = "down"

Backup ==
    /\ "restore" \in Faults /\ AllDown
    /\ backup' = auth
    /\ UNCHANGED <<env, auth, table, lock, clock, pc, locals, migrating, cookies, history>>

Restore ==
    /\ "restore" \in Faults /\ AllDown
    /\ backup # None
    /\ auth' = backup
    /\ restored' = "yes"
    /\ UNCHANGED <<env, backup, table, lock, clock, pc, locals, migrating, cookies, era, misses>>

-----------------------------------------------------------------------------

Next ==
    \/ Tick \/ Migrate \/ MigrateEnv \/ Backup \/ Restore
    \/ \E w \in Workers :
         \/ Boot(w) \/ Start(w) \/ Stop(w) \/ Record(w) \/ Leave(w)
         \/ \E ip \in Ips : Attempt(w, ip)
         \/ \E p \in Passwords : Authenticate(w, p)
         \/ \E c \in cookies : Admit(w, c)
         \/ \E current, new \in Passwords : ChangePassword(w, current, new)

Spec == Init /\ [][Next]_vars

=============================================================================
