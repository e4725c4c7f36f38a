----------------------- MODULE AutoRefreshProperties -----------------------
(***************************************************************************)
(* What the scheduled refresh promises.                                    *)
(***************************************************************************)
EXTENDS AutoRefresh

AllRows(P(_)) == \A k \in Subs : reg[k] # None =>
                     \A i \in Rows(reg[k].src) : P(reg[k].src[i])

\* An enabled row always has bytes to serve, and bytes are only ever kept for
\* the URL and format they were fetched under, through any sequence of edits,
\* disables, failed fetches and fall-backs.
ServedAsConfigured ==
    AllRows(LAMBDA s : /\ s.enabled => s.payload # None
                       /\ s.payload # None => s.payload = s.cfg)

\* The next attempt of an enabled, scheduled row is the last attempt plus the
\* delay its interval and its failures call for: no edit leaves the time of an
\* earlier interval behind (docs/AUTO_REFRESH.md, "Changing an enabled source's
\* interval and successfully saving resets its next time").
NextIsEarned ==
    AllRows(LAMBDA s : s.enabled /\ s.interval # None =>
        /\ s.attempt # None
        /\ s.next = Earliest(s.attempt + Delay(s), MaxEpoch))

\* What refresh_schedule.valid asks of a stored schedule, times below the last
\* epoch included, and what its display relies on: a counted failure is one that
\* fell back to the last good bytes.
ValidSchedule ==
    /\ TypeOK
    /\ AllRows(LAMBDA s : /\ s.interval = None => s.next = None /\ s.fails = 0
                          /\ s.fails > 0 => s.cached
                          /\ s.cached => s.payload # None)

JobWrites(k) == pc \in {"ready", "failed"} /\ pc' # pc /\ reg'[k] # reg[k]
Settings(s) == <<s.cfg, s.enabled, s.interval>>

\* However long a scan takes, what it writes is about rows that are due in the
\* registry as it is now; it changes no setting, no other row, no status, and
\* never touches a disabled or deleted subscription.
AutoTouchesOnlyDue ==
    [][\A k \in Subs : JobWrites(k) =>
          /\ reg[k] # None /\ reg'[k] # None
          /\ reg'[k].status = reg[k].status
          /\ Rows(reg'[k].src) = Rows(reg[k].src)
          /\ \A i \in Rows(reg[k].src) :
               IF Due(reg[k], i, at)
               THEN Settings(reg'[k].src[i]) = Settings(reg[k].src[i])
               ELSE reg'[k].src[i] = reg[k].src[i]]_vars

\* A candidate that was fetched before another attempt was recorded never
\* overwrites it: the last attempt of a row never goes back.
AttemptsAdvance ==
    [][\A k \in Subs : reg[k] # None /\ reg'[k] # None =>
          \A i \in Rows(reg[k].src) \cap Rows(reg'[k].src) :
             reg[k].src[i].attempt # None =>
                /\ reg'[k].src[i].attempt # None
                /\ reg'[k].src[i].attempt >= reg[k].src[i].attempt]_vars

\* A scan takes work whenever there is some, never more than its limit unless
\* one subscription alone exceeds it, and nothing younger than what it leaves.
OldestFirst ==
    [][pc = "idle" /\ pc' = "run" =>
          LET taken == {k \in Subs : work'[k] # None}
          IN  /\ taken # {}
              /\ \/ Cardinality(taken) = 1
                 \/ MapThenSumSet(LAMBDA k : Cardinality(DueRows(reg[k], clock)), taken) <= Limit
              /\ \A k \in taken, j \in Groups(clock) \ taken :
                    Oldest(reg[k], clock) <= Oldest(reg[j], clock)]_vars

\* Once administrators are done, every due row gets its attempt, whatever fails
\* and however many others were due before it.
DueAttended ==
    <>[][~Admin]_vars =>
        \A k \in Subs, i \in Sources : Due(reg[k], i, clock) ~> ~Due(reg[k], i, clock)

\* The inductive invariant behind the safety theorems, part by part.

\* A row that keeps all of the above.
Sound(s) ==
    /\ s.enabled => s.payload # None
    /\ s.payload # None => s.payload = s.cfg
    /\ s.enabled /\ s.interval # None =>
         s.attempt # None /\ s.next = Earliest(s.attempt + Delay(s), MaxEpoch)
    /\ s.interval = None => s.next = None /\ s.fails = 0
    /\ s.fails > 0 => s.cached
    /\ s.cached => s.payload # None

\* Rows nobody has attempted in the future.
Orderly(src, now) ==
    \A i \in Rows(src) : Sound(src[i]) /\ (src[i].attempt # None => src[i].attempt <= now)

\* The registries a run starts from are ones the program can have written.
ASSUME StartAssumption ==
    \A r \in Start : /\ r \in [Subs -> Entry \cup {None}]
                     /\ \A k \in Subs : r[k] # None => Orderly(r[k].src, 0)

\* No attempt of old is missing in new.
Supersedes(new, src) ==
    \A i \in Rows(src) \cap Rows(new) :
        src[i].attempt # None => new[i].attempt # None /\ new[i].attempt >= src[i].attempt

\* The candidate src was made from the entry e by a scan that began at time then.
Refreshed(e, src, then) ==
    /\ Rows(src) = Rows(e.src)
    /\ Supersedes(src, e.src)
    /\ \A i \in Rows(e.src) :
         IF Due(e, i, then) THEN Settings(src[i]) = Settings(e.src[i]) ELSE src[i] = e.src[i]

\* Rows are in order wherever they are: registered, read by the scan or waiting
\* to be saved.
RowsInOrder ==
    /\ \A k \in Subs : reg[k] # None => Orderly(reg[k].src, clock)
    /\ \A k \in Subs : work[k] # None => Orderly(work[k].src, clock)
    /\ web # None => Orderly(web.src, clock)

\* An entry that still has the version a candidate was made from is the entry
\* the candidate was made from.
Held ==
    /\ \A k \in Subs : work[k] # None /\ VersionOf(reg[k]) = work[k].version => reg[k] = work[k]
    /\ web # None => \/ reg[web.key] = None \/ reg[web.key].version # web.old
                     \/ Supersedes(web.src, reg[web.key].src)

\* What the scan holds at each place.
Working ==
    /\ at <= clock
    /\ pc # "idle" => Pending # {}
    /\ \A k \in Pending : DueRows(work[k], at) # {}
    /\ pc = "ready" => /\ cand \in SourceList /\ Orderly(cand, clock)
                       /\ Refreshed(work[Current], cand, at)
    /\ pc = "failed" => blame \subseteq DueRows(work[Current], at)

IInv == TypeOK /\ RowsInOrder /\ Held /\ Working

=============================================================================
