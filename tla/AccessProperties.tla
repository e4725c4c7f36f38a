-------------------------- MODULE AccessProperties --------------------------
(***************************************************************************)
(* What signing in promises.                                               *)
(***************************************************************************)
EXTENDS Access

\* A password change ends every session that was issued before it, on every
\* worker and in every browser, also one whose sign-in was under way while the
\* password changed (docs/PHASE2.md, "Authentication architecture").
OnlyCurrentSessions == \A c \in cookies : Accepts(c) => c.era = era
ChangeEndsSessions == restored = "never" => OnlyCurrentSessions

\* docs/PHASE2.md asks for another password change after auth.json was restored
\* from a backup, because old sessions may be accepted again: after it they are
\* not.
ChangeAfterRestoreEndsSessions == restored # "yes" => OnlyCurrentSessions

\* The shorter of the two times.
Span == Min({Window, Lockout})

\* The limiter holds its promise over all workers, interleavings and failing
\* writes: between a refused password and the MaxFailures-th one after it lies
\* at least the window or a lockout.
RateBounded ==
    \A ip \in Ips :
        Len(misses[ip]) > MaxFailures =>
            misses[ip][MaxFailures + 1] - misses[ip][1] >= Span

\* The waiting time an address is told is exact: if nobody writes the table, it
\* is refused until then and no longer.
RetryExact ==
    \A ip \in Ips :
        LET at(t) == Retry(Loaded(table, t), ip, t)
            r == at(clock)
        IN  r > 0 => at(clock + r) = 0 /\ \A d \in 0..(r - 1) : at(clock + d) > 0

\* There is always a password: the legacy one stays until auth.json is written.
CredentialsNeverLost == auth # None \/ env # None

\* A lockout that has not ended is neither extended nor shortened nor evicted,
\* by attempts of this address, of others or by a full table.
LockoutsFixed ==
    [][\A ip \in Ips :
          table[ip] # None /\ table[ip].blocked > clock =>
            table'[ip] # None /\ table'[ip].blocked = table[ip].blocked]_vars

\* Once there are credentials they stay those of one instance and change only by
\* a signed in administrator, one version at a time, or by a restore: neither a
\* worker that starts with an old environment nor a repeated migration writes
\* them again, and of two changes admitted together the second is refused.
ChangedOnlyBySession ==
    [][auth # None /\ auth' # auth =>
          \/ AllDown /\ auth' = backup
          \/ /\ auth'.instance = auth.instance
             /\ auth'.version = auth.version + 1
             /\ \E w \in Workers : pc[w] = "admitted" /\ pc'[w] = "idle" /\ Accepts(sess[w])]_vars

\* The inductive invariant behind the theorems, part by part.

\* Who may run has credentials to run with; a session exists only under them,
\* and unless a backup was put back none is ahead of them.
Known(c) == auth # None /\ c.version <= auth.version
            /\ (c.version = auth.version => c.era = era)
SessionInv ==
    /\ \A w \in Workers : pc[w] \notin {"down", "boot"} \/ sess[w] # None => auth # None
    /\ \A w \in Workers : pc[w] = "admitted" => sess[w] # None
    /\ cookies # {} => auth # None
    /\ backup # None => auth # None
    /\ migrating => auth # None
    /\ auth # None => auth.version <= era + 1
    /\ backup # None => backup.version <= era + 1
    /\ restored = "never" =>
         /\ \A c \in cookies : Known(c)
         /\ \A w \in Workers : sess[w] # None => Known(sess[w])

Sorted(s) == \A i, j \in DOMAIN s : i <= j => s[i] <= s[j]
Until(s, t) == \A i \in DOMAIN s : s[i] <= t

\* Every refused password of s that is younger than Span at time t still counts
\* in the record r; aligned from the end, as r may hold unanswered ones too.
Covered(s, r, t) ==
    IF r # None /\ r.blocked # 0
    THEN \A i \in DOMAIN s : s[i] + Lockout <= r.blocked
    ELSE LET f == IF r = None THEN <<>> ELSE r.failures
         IN  \A i \in 0..(Len(s) - 1) :
                s[Len(s) - i] > t - Span =>
                    i < Len(f) /\ s[Len(s) - i] <= f[Len(f) - i]

\* The table and the history as an attempt at time t finds them.
Consistent(tab, m, t) ==
    \A ip \in Ips :
        /\ Until(m[ip], t)
        /\ tab[ip] # None => Sorted(tab[ip].failures) /\ Until(tab[ip].failures, t)
        /\ Covered(m[ip], tab[ip], t)

\* An attempt holds the lock of the table, which let its address in.
Limited ==
    \A w \in Workers : pc[w] \in {"limited", "checked"} =>
        /\ lock = w
        /\ from[w] \in Ips
        /\ now[w] <= clock
        /\ ~Waits(Loaded(table, now[w]), from[w], now[w])

HistoryInv ==
    /\ Consistent(table, misses, clock)
    /\ \A ip \in Ips : Len(misses[ip]) <= MaxFailures + 1
    /\ \A w \in Workers : pc[w] \in {"limited", "checked"} =>
         Consistent(table, misses, now[w])

StateInv == TypeOK /\ CredentialsNeverLost /\ SessionInv /\ Limited
IInv == StateInv /\ HistoryInv /\ RateBounded

=============================================================================
