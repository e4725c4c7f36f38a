---------------------------- MODULE AccessProofs ----------------------------
(***************************************************************************)
(* Proofs about signing in, for any number of workers, addresses, failures  *)
(* and changes: first what the table of failed sign-ins keeps when it is    *)
(* read and written, then the invariants of the sessions and of the limiter.*)
(***************************************************************************)
EXTENDS AccessProperties, FiniteSetTheorems, SequenceTheorems, TLAPS

USE LimitAssumption DEF LimitAssumption

\* None is no worker, password, credential, session or record.
LEMMA NoneIsNothing ==
    /\ \A w \in Workers : w # None
    /\ \A p \in Passwords : p # None
    /\ \A a \in Auth : a # None
    /\ \A c \in Session : c # None
    /\ \A r \in Attempts : r # None
  BY NoneAssumption DEF NoneAssumption

\* Span is one of the two times and no longer than either.
LEMMA SpanFacts ==
    Span \in Nat /\ 0 < Span /\ Span <= Window /\ Span <= Lockout
  <1>1. \E x \in {Window, Lockout} : \A y \in {Window, Lockout} : x <= y
    <2>1. CASE Window <= Lockout
      BY <2>1
    <2>2. CASE ~(Window <= Lockout)
      BY <2>2
    <2>3. QED
      BY <2>1, <2>2
  <1>2. Span \in {Window, Lockout} /\ \A y \in {Window, Lockout} : Span <= y
    BY <1>1 DEF Span, Min
  <1>3. QED
    BY <1>2

-----------------------------------------------------------------------------
(* What _load keeps of one record *)

Time == 0..MaxClock

\* Reading a record of the table.
LEMMA RecordShape ==
    ASSUME NEW r \in Attempts
    PROVE  /\ r.failures \in Seq(Time)
           /\ Len(r.failures) \in Nat
           /\ DOMAIN r.failures = 1..Len(r.failures)
           /\ \A n \in 1..Len(r.failures) : r.failures[n] \in Time
           /\ r.blocked \in Nat
  <1>1. r.failures \in Seq(Time) /\ r.blocked \in 0..(MaxClock + Lockout)
    BY DEF Attempts, Time
  <1>2. QED
    BY <1>1, LenProperties, ElementOfSeq

\* An initial interval has as many elements as its bound says.
LEMMA Initial ==
    ASSUME NEW n \in Nat
    PROVE  IsFiniteSet(1..n) /\ Cardinality(1..n) = n
  <1>1. 1 \in Int /\ n \in Int
    OBVIOUS
  <1>2. IsFiniteSet(1..n) /\ Cardinality(1..n) = IF 1 > n THEN 0 ELSE n - 1 + 1
    BY <1>1, FS_Interval
  <1>3. (IF 1 > n THEN 0 ELSE n - 1 + 1) = n
    OBVIOUS
  <1>4. QED
    BY <1>2, <1>3

\* The expired failures are finitely many, no more than there are.
LEMMA ExpiredCount ==
    ASSUME NEW r \in Attempts, NEW t \in Int
    PROVE  /\ IsFiniteSet(Expired(r, t))
           /\ Cardinality(Expired(r, t)) \in Nat
           /\ Cardinality(Expired(r, t)) <= Len(r.failures)
  <1>1. Len(r.failures) \in Nat /\ Expired(r, t) \subseteq 1..Len(r.failures)
    BY RecordShape DEF Expired
  <1>2. IsFiniteSet(1..Len(r.failures)) /\ Cardinality(1..Len(r.failures)) = Len(r.failures)
    BY <1>1, Initial
  <1>3. QED
    BY <1>1, <1>2, FS_Subset, FS_CardinalityType

\* What is left is the rest of the list.
LEMMA RecentShape ==
    ASSUME NEW r \in Attempts, NEW t \in Int
    PROVE  /\ Recent(r, t) \in Seq(Time)
           /\ Len(Recent(r, t)) = Len(r.failures) - Cardinality(Expired(r, t))
           /\ \A n \in 1..Len(Recent(r, t)) :
                Recent(r, t)[n] = r.failures[Cardinality(Expired(r, t)) + n]
  <1> DEFINE f == r.failures
             c == Cardinality(Expired(r, t))
  <1>1. f \in Seq(Time) /\ Len(f) \in Nat /\ \A n \in 1..Len(f) : f[n] \in Time
    BY RecordShape
  <1>2. c \in Nat /\ c <= Len(f)
    BY ExpiredCount
  <1>3. Recent(r, t) = SubSeq(f, c + 1, Len(f))
    BY DEF Recent
  <1> HIDE DEF f, c
  <1>4. \A n \in (c + 1)..Len(f) : f[n] \in Time
    BY <1>1, <1>2
  <1>5. /\ SubSeq(f, c + 1, Len(f)) \in Seq(Time)
        /\ Len(SubSeq(f, c + 1, Len(f))) =
              IF c + 1 <= Len(f) THEN Len(f) - (c + 1) + 1 ELSE 0
        /\ \A n \in 1..(Len(f) - (c + 1) + 1) :
              SubSeq(f, c + 1, Len(f))[n] = f[(c + 1) + n - 1]
    <2>1. c + 1 \in Int /\ Len(f) \in Int
      BY <1>1, <1>2
    <2>2. QED
      BY SMTT(30), <1>4, <2>1, SubSeqProperties
  <1>6. Len(SubSeq(f, c + 1, Len(f))) = Len(f) - c
    BY <1>1, <1>2, <1>5
  <1>7. \A n \in 1..(Len(f) - c) : SubSeq(f, c + 1, Len(f))[n] = f[c + n]
    BY <1>1, <1>2, <1>5
  <1>8. QED
    BY <1>3, <1>5, <1>6, <1>7 DEF f, c

\* In a sorted list the expired failures come first.
LEMMA ExpiredFirst ==
    ASSUME NEW r \in Attempts, NEW t \in Int, Sorted(r.failures),
           NEW n \in 1..Len(r.failures)
    PROVE  r.failures[n] <= t - Window <=> n <= Cardinality(Expired(r, t))
  <1> DEFINE E == Expired(r, t)
  <1>1. /\ Len(r.failures) \in Nat /\ DOMAIN r.failures = 1..Len(r.failures)
        /\ \A k \in 1..Len(r.failures) : r.failures[k] \in Int
    BY RecordShape DEF Time
  <1>2. IsFiniteSet(E) /\ Cardinality(E) \in Nat
    BY ExpiredCount
  <1>3. ASSUME r.failures[n] <= t - Window PROVE n <= Cardinality(E)
    <2>1. 1..n \subseteq E
      <3> SUFFICES ASSUME NEW k \in 1..n PROVE k \in E
        OBVIOUS
      <3>1. k \in 1..Len(r.failures) /\ k <= n
        BY <1>1
      <3>2. r.failures[k] <= r.failures[n]
        BY <1>1, <3>1 DEF Sorted
      <3>3. r.failures[k] <= t - Window
        BY <1>1, <1>3, <3>1, <3>2
      <3>4. QED
        BY <1>1, <3>1, <3>3 DEF Expired
    <2>2. Cardinality(1..n) = n
      BY <1>1, Initial
    <2>3. QED
      BY <1>2, <2>1, <2>2, FS_Subset
  <1>4. ASSUME ~(r.failures[n] <= t - Window) PROVE ~(n <= Cardinality(E))
    <2>1. E \subseteq 1..(n - 1)
      <3> SUFFICES ASSUME NEW k \in E PROVE k \in 1..(n - 1)
        OBVIOUS
      <3>1. k \in 1..Len(r.failures) /\ r.failures[k] <= t - Window
        BY <1>1 DEF Expired
      <3>2. n <= k => r.failures[n] <= r.failures[k]
        BY <1>1, <3>1 DEF Sorted
      <3>3. ~(n <= k)
        BY <1>1, <1>4, <3>1, <3>2
      <3>4. QED
        BY <1>1, <3>1, <3>3
    <2>2. IsFiniteSet(1..(n - 1)) /\ Cardinality(1..(n - 1)) = n - 1
      <3>1. n - 1 \in Nat
        BY <1>1
      <3>2. QED
        BY <3>1, Initial
    <2>3. QED
      BY <1>1, <1>2, <2>1, <2>2, FS_Subset
  <1>5. QED
    BY <1>3, <1>4

-----------------------------------------------------------------------------
(* The table *)

\* The entries of a table, and those of a table with one entry replaced.
LEMMA Entries ==
    ASSUME NEW tab \in [Ips -> Attempts \cup {None}], NEW ip \in Ips,
           NEW r \in Attempts \cup {None}
    PROVE  /\ [tab EXCEPT ![ip] = r] \in [Ips -> Attempts \cup {None}]
           /\ [tab EXCEPT ![ip] = r][ip] = r
           /\ \A j \in Ips : j # ip => [tab EXCEPT ![ip] = r][j] = tab[j]
  OBVIOUS

LEMMA UsedFinite ==
    ASSUME NEW tab
    PROVE  IsFiniteSet(Used(tab)) /\ Cardinality(Used(tab)) \in Nat
  <1>1. Used(tab) \subseteq Ips
    BY DEF Used
  <1>2. QED
    BY <1>1, IpsAssumption, FS_Subset, FS_CardinalityType DEF IpsAssumption

\* _load drops a record or keeps it with fewer failures.
LEMMA LoadedShape ==
    ASSUME NEW tab \in [Ips -> Attempts \cup {None}], NEW t \in Int, NEW ip \in Ips
    PROVE  \/ Loaded(tab, t)[ip] = None
           \/ /\ tab[ip] \in Attempts
              /\ Alive(tab[ip], t)
              /\ Loaded(tab, t)[ip] \in Attempts
              /\ Loaded(tab, t)[ip].failures = Recent(tab[ip], t)
              /\ Loaded(tab, t)[ip].blocked = tab[ip].blocked
              /\ Len(Loaded(tab, t)[ip].failures) <= Len(tab[ip].failures)
  <1>1. CASE tab[ip] # None /\ Alive(tab[ip], t)
    <2> DEFINE r == tab[ip]
               kept == [failures |-> Recent(r, t), blocked |-> r.blocked]
    <2>1. r \in Attempts
      BY <1>1
    <2>2. Loaded(tab, t)[ip] = kept
      BY <1>1 DEF Loaded
    <2>3. kept \in Attempts
      BY <2>1, RecentShape DEF Attempts, Time
    <2>4. Len(Recent(r, t)) <= Len(r.failures)
      <3>1. Len(Recent(r, t)) = Len(r.failures) - Cardinality(Expired(r, t))
        BY <2>1, RecentShape
      <3>2. Cardinality(Expired(r, t)) \in Nat /\ Len(r.failures) \in Nat
        BY <2>1, ExpiredCount, RecordShape
      <3>3. QED
        BY <3>1, <3>2
    <2>5. kept.failures = Recent(r, t) /\ kept.blocked = r.blocked
      OBVIOUS
    <2> HIDE DEF kept
    <2>6. QED
      BY <1>1, <2>1, <2>2, <2>3, <2>4, <2>5
  <1>2. CASE ~(tab[ip] # None /\ Alive(tab[ip], t))
    BY <1>2 DEF Loaded
  <1>3. QED
    BY <1>1, <1>2

\* What _load returns is a table again, with no address more.
LEMMA LoadedOK ==
    ASSUME NEW tab, TableOK(tab), NEW t \in Int
    PROVE  TableOK(Loaded(tab, t))
  <1> DEFINE new == Loaded(tab, t)
  <1>1. tab \in [Ips -> Attempts \cup {None}]
    BY DEF TableOK
  <1>2. \A ip \in Ips : new[ip] \in Attempts \cup {None}
    BY <1>1, LoadedShape
  <1>3. new \in [Ips -> Attempts \cup {None}]
    BY <1>2 DEF Loaded
  <1>4. ASSUME NEW ip \in Ips, new[ip] # None
        PROVE  Len(new[ip].failures) < MaxFailures + (IF new[ip].blocked = 0 THEN 0 ELSE 1)
    <2> DEFINE bound == MaxFailures + (IF tab[ip].blocked = 0 THEN 0 ELSE 1)
    <2>1. /\ tab[ip] \in Attempts /\ new[ip] \in Attempts
          /\ new[ip].blocked = tab[ip].blocked
          /\ Len(new[ip].failures) <= Len(tab[ip].failures)
      BY <1>1, <1>4, LoadedShape
    <2>2. Len(tab[ip].failures) < bound
      BY <2>1, NoneIsNothing DEF TableOK
    <2>3. Len(tab[ip].failures) \in Nat /\ Len(new[ip].failures) \in Nat /\ bound \in Int
      BY <2>1, RecordShape
    <2> HIDE DEF bound
    <2>4. Len(new[ip].failures) < bound
      BY <2>1, <2>2, <2>3
    <2>5. QED
      BY <2>1, <2>4 DEF bound
  <1>5. Cardinality(Used(new)) <= MaxEntries
    <2>1. Used(new) \subseteq Used(tab)
      <3>1. \A ip \in Ips : new[ip] # None => tab[ip] # None
        BY <1>1, LoadedShape, NoneIsNothing
      <3>2. QED
        BY <3>1 DEF Used
    <2>2. Cardinality(Used(new)) <= Cardinality(Used(tab))
      BY <2>1, UsedFinite, FS_Subset
    <2>3. Cardinality(Used(tab)) <= MaxEntries
      BY DEF TableOK
    <2>4. QED
      BY <2>2, <2>3, UsedFinite
  <1>6. QED
    BY <1>3, <1>4, <1>5 DEF TableOK

\* Replacing one record keeps a table when there is room for it.
LEMMA ReplacedOK ==
    ASSUME NEW tab, TableOK(tab), NEW ip \in Ips, NEW r \in Attempts \cup {None},
           r # None => Len(r.failures) < MaxFailures + (IF r.blocked = 0 THEN 0 ELSE 1),
           r # None /\ tab[ip] = None => ~Full(tab)
    PROVE  TableOK([tab EXCEPT ![ip] = r])
  <1> DEFINE new == [tab EXCEPT ![ip] = r]
  <1>1. tab \in [Ips -> Attempts \cup {None}]
    BY DEF TableOK
  <1>2. /\ new \in [Ips -> Attempts \cup {None}]
        /\ new[ip] = r
        /\ \A j \in Ips : j # ip => new[j] = tab[j]
    BY <1>1, Entries
  <1> HIDE DEF new
  <1>3. \A j \in Ips : new[j] # None =>
           Len(new[j].failures) < MaxFailures + (IF new[j].blocked = 0 THEN 0 ELSE 1)
    BY <1>2 DEF TableOK
  <1>4. Cardinality(Used(tab)) <= MaxEntries
    BY DEF TableOK
  <1>5. CASE r # None /\ tab[ip] = None
    <2>1. Used(new) = Used(tab) \cup {ip} /\ ip \notin Used(tab)
      BY <1>2, <1>5 DEF Used
    <2>2. Cardinality(Used(new)) = Cardinality(Used(tab)) + 1
      BY <2>1, UsedFinite, FS_AddElement
    <2>3. Cardinality(Used(tab)) < MaxEntries
      BY <1>5, UsedFinite DEF Full
    <2>4. Cardinality(Used(new)) <= MaxEntries
      BY <2>2, <2>3, UsedFinite
    <2>5. QED
      BY <1>2, <1>3, <2>4 DEF TableOK, new
  <1>6. CASE ~(r # None /\ tab[ip] = None)
    <2>1. Used(new) \subseteq Used(tab)
      BY <1>2, <1>6 DEF Used
    <2>2. Cardinality(Used(new)) <= MaxEntries
      BY <1>4, <2>1, UsedFinite, FS_Subset
    <2>3. QED
      BY <1>2, <1>3, <2>2 DEF TableOK, new
  <1>7. QED
    BY <1>5, <1>6

\* An address that need not wait has no record that locks it.
LEMMA Unlocked ==
    ASSUME NEW tab \in [Ips -> Attempts \cup {None}], NEW t \in Int, NEW ip \in Ips,
           ~Waits(Loaded(tab, t), ip, t)
    PROVE  /\ Loaded(tab, t)[ip] # None => Loaded(tab, t)[ip].blocked = 0
           /\ Loaded(tab, t)[ip] = None => ~Full(Loaded(tab, t))
  <1>1. ASSUME Loaded(tab, t)[ip] # None PROVE Loaded(tab, t)[ip].blocked = 0
    <2>1. /\ tab[ip] \in Attempts /\ Alive(tab[ip], t)
          /\ Loaded(tab, t)[ip].blocked = tab[ip].blocked
      BY <1>1, LoadedShape
    <2>2. ~(tab[ip].blocked > t)
      BY <1>1, <2>1 DEF Waits
    <2>3. QED
      BY <2>1, <2>2 DEF Alive
  <1>2. QED
    BY <1>1 DEF Waits

\* Counting a failure of such an address gives a record within the bounds.
LEMMA CountedOK ==
    ASSUME NEW r \in Attempts \cup {None}, NEW t \in Time,
           r # None => r.blocked = 0 /\ Len(r.failures) < MaxFailures
    PROVE  /\ Counted(r, t) \in Attempts
           /\ Len(Counted(r, t).failures) <
                 MaxFailures + (IF Counted(r, t).blocked = 0 THEN 0 ELSE 1)
  <1> DEFINE f == IF r = None THEN <<>> ELSE r.failures
             g == Append(f, t)
             b == IF Len(g) >= MaxFailures THEN t + Lockout ELSE 0
  <1>1. f \in Seq(Time) /\ Len(f) \in Nat /\ Len(f) < MaxFailures
    <2>1. CASE r = None
      BY <2>1
    <2>2. CASE r # None
      BY <2>2, RecordShape
    <2>3. QED
      BY <2>1, <2>2
  <1> HIDE DEF f
  <1>2. g \in Seq(Time) /\ Len(g) = Len(f) + 1
    BY <1>1
  <1>3. b \in 0..(MaxClock + Lockout) /\ (Len(g) >= MaxFailures => b # 0)
    BY <1>1, <1>2 DEF Time
  <1>4. Counted(r, t) = [failures |-> g, blocked |-> b]
    BY DEF Counted, f
  <1> HIDE DEF g, b
  <1>5. Counted(r, t) \in Attempts /\ Counted(r, t).failures = g /\ Counted(r, t).blocked = b
    BY <1>2, <1>3, <1>4 DEF Attempts, Time
  <1>6. Len(g) < MaxFailures + (IF b = 0 THEN 0 ELSE 1)
    BY <1>1, <1>2, <1>3
  <1>7. QED
    BY <1>5, <1>6

\* The history keeps its newest entries, aligned from the end.
LEMMA RememberShape ==
    ASSUME NEW s \in Seq(Time), NEW t \in Time
    PROVE  /\ Remember(s, t) \in Seq(Time)
           /\ Len(Remember(s, t)) =
                 IF Len(s) > MaxFailures THEN Len(s) ELSE Len(s) + 1
           /\ Remember(s, t)[Len(Remember(s, t))] = t
           /\ \A i \in 1..(Len(Remember(s, t)) - 1) :
                 Remember(s, t)[Len(Remember(s, t)) - i] = s[Len(s) - (i - 1)]
  <1> DEFINE f == Append(s, t)
  <1>1. Len(s) \in Nat
    OBVIOUS
  <1>2. /\ f \in Seq(Time) /\ f # <<>> /\ Len(f) = Len(s) + 1
        /\ f[Len(s) + 1] = t /\ \A i \in 1..Len(s) : f[i] = s[i]
    BY AppendProperties
  <1>3. Remember(s, t) = IF Len(f) > MaxFailures + 1 THEN Tail(f) ELSE f
    BY DEF Remember
  <1> HIDE DEF f
  <1>4. CASE Len(s) > MaxFailures
    <2>1. Remember(s, t) = Tail(f)
      BY <1>1, <1>2, <1>3, <1>4
    <2>2. /\ Tail(f) \in Seq(Time) /\ Len(Tail(f)) = Len(s)
          /\ \A i \in 1..Len(s) : Tail(f)[i] = f[i + 1]
      BY <1>1, <1>2, HeadTailProperties
    <2>3. Tail(f)[Len(s)] = t
      BY <1>1, <1>2, <1>4, <2>2
    <2>4. ASSUME NEW i \in 1..(Len(s) - 1)
          PROVE  Tail(f)[Len(s) - i] = s[Len(s) - (i - 1)]
      <3>1. Len(s) - i \in 1..Len(s) /\ Len(s) - i + 1 \in 1..Len(s)
        BY <1>1
      <3>2. Tail(f)[Len(s) - i] = s[Len(s) - i + 1]
        BY <1>2, <2>2, <3>1
      <3>3. Len(s) - i + 1 = Len(s) - (i - 1)
        BY <1>1
      <3>4. QED
        BY <3>2, <3>3
    <2>5. QED
      BY <1>4, <2>1, <2>2, <2>3, <2>4
  <1>5. CASE ~(Len(s) > MaxFailures)
    <2>1. Remember(s, t) = f
      BY <1>1, <1>2, <1>3, <1>5
    <2>2. \A i \in 1..(Len(f) - 1) : f[Len(f) - i] = s[Len(s) - (i - 1)]
      BY <1>1, <1>2
    <2>3. QED
      BY <1>2, <1>5, <2>1, <2>2
  <1>6. QED
    BY <1>4, <1>5

-----------------------------------------------------------------------------
(* The state: types, credentials, sessions and the lock *)

\* Sessions and credentials have their fields.
LEMMA AuthShape ==
    ASSUME NEW a \in Auth
    PROVE  /\ a.version \in 1..(MaxChanges + 1) /\ a.version \in Nat
           /\ a.instance \in Instances /\ a.password \in Passwords
  BY DEF Auth

LEMMA InitState == Init => StateInv
  <1> SUFFICES ASSUME Init PROVE StateInv
    OBVIOUS
  <1> USE DEF Init
  <1>1. TableOK(table)
    <2>1. Used(table) = {}
      BY DEF Used
    <2>2. Cardinality(Used(table)) = 0
      BY <2>1, FS_EmptySet
    <2>3. table \in [Ips -> Attempts \cup {None}] /\ \A ip \in Ips : table[ip] = None
      OBVIOUS
    <2>4. QED
      BY <2>2, <2>3 DEF TableOK
  <1>2. TypeOK
    <2>1. 0 \in 0..MaxClock /\ 0 \in Nat /\ <<>> \in Seq(0..MaxClock)
      OBVIOUS
    <2>2. misses \in [Ips -> Seq(0..MaxClock)]
      BY <2>1
    <2>3. /\ clock \in 0..MaxClock /\ era \in Nat
          /\ now \in [Workers -> 0..MaxClock]
      BY <2>1
    <2>4. QED
      BY <1>1, <2>2, <2>3 DEF TypeOK
  <1>3. CredentialsNeverLost
    BY NoneIsNothing DEF CredentialsNeverLost
  <1>4. SessionInv
    BY DEF SessionInv
  <1>5. Limited
    BY DEF Limited
  <1>6. QED
    BY <1>2, <1>3, <1>4, <1>5 DEF StateInv

\* Actions that neither write the table nor move a worker into an attempt keep
\* what an attempt knows.
LEMMA LimitedKept ==
    ASSUME Limited, UNCHANGED <<table, from, now, lock>>, clock' >= clock, TypeOK,
           clock' \in Nat, \A w \in Workers : pc'[w] \in {"limited", "checked"} =>
                                                 pc[w] \in {"limited", "checked"}
    PROVE  Limited'
  <1> SUFFICES ASSUME NEW w \in Workers, pc'[w] \in {"limited", "checked"}
               PROVE  /\ lock' = w
                      /\ from'[w] \in Ips
                      /\ now'[w] <= clock'
                      /\ ~Waits(Loaded(table', now'[w]), from'[w], now'[w])
    BY DEF Limited
  <1>1. /\ lock = w /\ from[w] \in Ips /\ now[w] <= clock
        /\ ~Waits(Loaded(table, now[w]), from[w], now[w])
    BY DEF Limited
  <1>2. now[w] \in Nat /\ clock \in Nat
    BY DEF TypeOK
  <1>3. now[w] <= clock'
    BY <1>1, <1>2
  <1>4. QED
    BY <1>1, <1>3

\* Ending a request forgets its locals and disturbs no other.
LEMMA FinishFacts ==
    ASSUME NEW w \in Workers, TypeOK, Forget(w)
    PROVE  /\ from' \in [Workers -> Ips \cup {None}]
           /\ now' \in [Workers -> 0..MaxClock]
           /\ given' \in [Workers -> Passwords \cup {None}]
           /\ sess' \in [Workers -> Session \cup {None}]
           /\ sess'[w] = None
           /\ \A v \in Workers : v # w => /\ from'[v] = from[v] /\ now'[v] = now[v]
                                          /\ sess'[v] = sess[v]
  BY DEF TypeOK, Forget

LEMMA GotoFacts ==
    ASSUME NEW w \in Workers, TypeOK,
           NEW label \in {"down", "boot", "idle", "limited", "checked", "admitted"},
           Goto(w, label)
    PROVE  /\ pc' \in [Workers -> {"down", "boot", "idle", "limited", "checked", "admitted"}]
           /\ pc'[w] = label
           /\ \A v \in Workers : v # w => pc'[v] = pc[v]
  BY DEF TypeOK, Goto

\* A worker that ends its request, with the table as it was.
LEMMA LimitedWhenEnded ==
    ASSUME NEW w \in Workers, TypeOK, Limited, Forget(w), clock' = clock, table' = table,
           pc'[w] \notin {"limited", "checked"}, \A v \in Workers : v # w => pc'[v] = pc[v],
           lock' = lock \/ (lock = w /\ lock' = None)
    PROVE  Limited'
  <1> SUFFICES ASSUME NEW v \in Workers, pc'[v] \in {"limited", "checked"}
               PROVE  /\ lock' = v
                      /\ from'[v] \in Ips
                      /\ now'[v] <= clock'
                      /\ ~Waits(Loaded(table', now'[v]), from'[v], now'[v])
    BY DEF Limited
  <1>1. v # w /\ pc[v] \in {"limited", "checked"}
    OBVIOUS
  <1>2. /\ lock = v /\ from[v] \in Ips /\ now[v] <= clock
        /\ ~Waits(Loaded(table, now[v]), from[v], now[v])
    BY <1>1 DEF Limited
  <1>3. from'[v] = from[v] /\ now'[v] = now[v]
    BY <1>1, FinishFacts
  <1>4. QED
    BY <1>1, <1>2, <1>3

\* The credentials a start or a migration leaves.
LEMMA InitializedFacts ==
    ASSUME auth \in Auth \cup {None}, NEW p \in Passwords \cup {None},
           NEW a \in Initialized(p)
    PROVE  /\ a \in Auth
           /\ auth # None => a = auth
           /\ auth = None => a.version = 1
  <1>1. CASE auth # None
    BY <1>1 DEF Initialized
  <1>2. CASE auth = None
    <2>1. p \in Passwords
      BY <1>2 DEF Initialized
    <2>2. \E i \in Instances : a = [version |-> 1, instance |-> i, password |-> p]
      BY <1>2, <2>1, NoneIsNothing DEF Initialized
    <2>3. QED
      BY <1>2, <2>1, <2>2 DEF Auth
  <1>3. QED
    BY <1>1, <1>2

\* Sessions stay known when the credentials stay or come into being.
LEMMA SessionsWhenInitialized ==
    ASSUME TypeOK, SessionInv, NEW a \in Auth, auth # None => a = auth,
           auth = None => a.version = 1, auth' = a,
           UNCHANGED <<backup, cookies, era, restored>>,
           \A w \in Workers : sess'[w] \in {sess[w], None},
           \A w \in Workers : pc'[w] = "admitted" => pc[w] = "admitted" /\ sess'[w] = sess[w]
    PROVE  SessionInv'
  <1>1. a # None
    BY NoneIsNothing
  <1>2. a.version <= era + 1
    <2>1. CASE auth = None
      BY <2>1 DEF TypeOK
    <2>2. CASE auth # None
      BY <2>2 DEF SessionInv
    <2>3. QED
      BY <2>1, <2>2
  <1>3. ASSUME restored = "never"
        PROVE  /\ \A c \in cookies : Known(c)'
               /\ \A w \in Workers : sess'[w] # None => Known(sess[w])'
    <2>1. \A c \in cookies : auth # None /\ Known(c)
      BY <1>3 DEF SessionInv
    <2>2. \A w \in Workers : sess'[w] # None => auth # None /\ sess'[w] = sess[w] /\ Known(sess[w])
      BY <1>3 DEF SessionInv
    <2>3. QED
      BY <1>1, <2>1, <2>2 DEF Known
  <1>4. QED
    BY <1>1, <1>2, <1>3 DEF SessionInv

\* Sessions stay known when the credentials are not touched.
LEMMA SessionsKept ==
    ASSUME SessionInv, UNCHANGED <<auth, backup, era, restored>>,
           migrating' => auth # None,
           \A c \in cookies' : c \in cookies \/ \E w \in Workers : c = sess[w] /\ sess[w] # None,
           \A w \in Workers : pc'[w] \notin {"down", "boot"} => auth # None,
           \A w \in Workers : pc'[w] = "admitted" => sess'[w] # None,
           \A w \in Workers : sess'[w] # None =>
                auth # None /\ (restored = "never" => Known(sess'[w]))
    PROVE  SessionInv'
  <1>1. \A c : Known(c)' <=> Known(c)
    BY DEF Known
  <1>2. cookies' # {} => auth # None
    BY DEF SessionInv
  <1>3. restored = "never" => \A c \in cookies' : Known(c)
    BY DEF SessionInv
  <1>4. QED
    BY <1>1, <1>2, <1>3 DEF SessionInv

\* Workers that run have credentials, and so has whoever holds a session.
LEMMA RunningHasAuth ==
    ASSUME TypeOK, SessionInv, NEW w \in Workers,
           pc[w] \notin {"down", "boot"} \/ sess[w] # None
    PROVE  auth # None /\ auth \in Auth
  BY DEF SessionInv, TypeOK

\* A worker that ends its request and nothing but its locals changes.
LEMMA EndKeeps ==
    ASSUME StateInv, NEW w \in Workers, Forget(w),
           NEW label \in {"down", "idle"}, Goto(w, label),
           label = "idle" => pc[w] \notin {"down", "boot"},
           lock' = lock \/ (lock = w /\ lock' = None),
           UNCHANGED <<env, auth, backup, clock, migrating, cookies, era, restored>>,
           table' = table, misses' = misses
    PROVE  StateInv'
  <1> USE DEF StateInv
  <1>1. TypeOK'
    BY FinishFacts, GotoFacts DEF TypeOK
  <1>2. CredentialsNeverLost'
    BY DEF CredentialsNeverLost
  <1>3. SessionInv'
    <2>1. /\ sess'[w] = None /\ pc'[w] = label
          /\ \A v \in Workers : v # w => sess'[v] = sess[v] /\ pc'[v] = pc[v]
      BY FinishFacts, GotoFacts
    <2>2. \A v \in Workers : pc'[v] \notin {"down", "boot"} => auth # None
      BY <2>1, RunningHasAuth
    <2>3. \A v \in Workers : sess'[v] # None =>
             auth # None /\ (restored = "never" => Known(sess'[v]))
      BY <2>1, RunningHasAuth DEF SessionInv
    <2>4. \A v \in Workers : pc'[v] = "admitted" => sess'[v] # None
      BY <2>1 DEF SessionInv
    <2>5. migrating' => auth # None
      BY DEF SessionInv
    <2>6. QED
      BY <2>2, <2>3, <2>4, <2>5, SessionsKept
  <1>4. Limited'
    <2>1. pc'[w] \notin {"limited", "checked"} /\ \A v \in Workers : v # w => pc'[v] = pc[v]
      BY GotoFacts
    <2>2. QED
      BY <2>1, LimitedWhenEnded
  <1>5. QED
    BY <1>1, <1>2, <1>3, <1>4

LEMMA BootKeeps ==
    ASSUME StateInv, NEW w \in Workers, Boot(w)
    PROVE  StateInv'
  <1> USE DEF StateInv
  <1>1. /\ pc' \in [Workers -> {"down", "boot", "idle", "limited", "checked", "admitted"}]
        /\ pc'[w] = "boot" /\ pc[w] = "down"
        /\ \A v \in Workers : v # w => pc'[v] = pc[v]
    BY GotoFacts DEF Boot
  <1>2. given' \in [Workers -> Passwords \cup {None}]
    BY DEF Boot, TypeOK
  <1>3. UNCHANGED <<env, auth, backup, table, lock, clock, from, now, sess, migrating,
                    cookies, era, restored, misses>>
    BY DEF Boot, history
  <1>4. TypeOK'
    BY <1>1, <1>2, <1>3 DEF TypeOK
  <1>5. CredentialsNeverLost'
    BY <1>3 DEF CredentialsNeverLost
  <1>6. SessionInv'
    <2>1. \A v \in Workers : pc'[v] \notin {"down", "boot"} => pc[v] = pc'[v] /\ auth # None
      BY <1>1, RunningHasAuth
    <2>2. \A v \in Workers : sess'[v] # None =>
             auth # None /\ (restored = "never" => Known(sess'[v]))
      BY <1>3, RunningHasAuth DEF SessionInv
    <2>3. \A v \in Workers : pc'[v] = "admitted" => sess'[v] # None
      BY <1>3, <2>1 DEF SessionInv
    <2>4. migrating' => auth # None
      BY <1>3 DEF SessionInv
    <2>5. QED
      BY <1>3, <2>1, <2>2, <2>3, <2>4, SessionsKept
  <1>7. Limited'
    <2>1. clock' >= clock /\ clock' \in Nat
      BY <1>3 DEF TypeOK
    <2>2. \A v \in Workers : pc'[v] \in {"limited", "checked"} => pc[v] \in {"limited", "checked"}
      BY <1>1
    <2>3. QED
      BY <1>3, <2>1, <2>2, LimitedKept
  <1>8. QED
    BY <1>4, <1>5, <1>6, <1>7

LEMMA StartKeeps ==
    ASSUME StateInv, NEW w \in Workers, Start(w)
    PROVE  StateInv'
  <1> USE DEF StateInv
  <1>1. /\ pc[w] = "boot" /\ Forget(w)
        /\ UNCHANGED <<env, backup, table, lock, clock, migrating, cookies, era, restored, misses>>
    BY DEF Start, history
  <1>2. CASE /\ UNCHANGED auth
             /\ Goto(w, "down")
    BY <1>1, <1>2, EndKeeps
  <1>3. ASSUME NEW a \in Initialized(given[w]), auth' = a,
               NEW label \in {"idle", "down"}, Goto(w, label)
        PROVE  StateInv'
    <2>1. given[w] \in Passwords \cup {None} /\ auth \in Auth \cup {None}
      BY DEF TypeOK
    <2>2. a \in Auth /\ (auth # None => a = auth) /\ (auth = None => a.version = 1)
      BY <2>1, InitializedFacts
    <2>3. /\ pc' \in [Workers -> {"down", "boot", "idle", "limited", "checked", "admitted"}]
          /\ pc'[w] = label
          /\ \A v \in Workers : v # w => pc'[v] = pc[v]
      BY <1>3, GotoFacts
    <2>4. TypeOK'
      BY <1>1, <1>3, <2>2, <2>3, FinishFacts DEF TypeOK
    <2>5. CredentialsNeverLost'
      BY <1>3, <2>2, NoneIsNothing DEF CredentialsNeverLost
    <2>6. SessionInv'
      <3>1. \A v \in Workers : sess'[v] \in {sess[v], None}
        BY <1>1, FinishFacts
      <3>2. \A v \in Workers : pc'[v] = "admitted" => pc[v] = "admitted" /\ sess'[v] = sess[v]
        BY <1>1, <2>3, FinishFacts
      <3>3. QED
        BY <1>1, <1>3, <2>2, <3>1, <3>2, SessionsWhenInitialized
    <2>7. Limited'
      BY <1>1, <2>3, LimitedWhenEnded
    <2>8. QED
      BY <2>4, <2>5, <2>6, <2>7
  <1>4. QED
    BY <1>2, <1>3 DEF Start

LEMMA MigrateKeeps ==
    ASSUME StateInv, Migrate
    PROVE  StateInv'
  <1> USE DEF StateInv
  <1>1. UNCHANGED <<env, backup, table, lock, clock, pc, from, now, given, sess, cookies,
                    era, restored, misses>>
    BY DEF Migrate, history, locals
  <1>2. PICK a \in Initialized(env) : auth' = a /\ migrating' \in BOOLEAN
    BY DEF Migrate
  <1>3. env \in Passwords \cup {None} /\ auth \in Auth \cup {None}
    BY DEF TypeOK
  <1>4. a \in Auth /\ (auth # None => a = auth) /\ (auth = None => a.version = 1)
    BY <1>3, InitializedFacts
  <1>5. TypeOK'
    BY <1>1, <1>2, <1>4 DEF TypeOK
  <1>6. CredentialsNeverLost'
    BY <1>2, <1>4, NoneIsNothing DEF CredentialsNeverLost
  <1>7. SessionInv'
    BY <1>1, <1>2, <1>4, SessionsWhenInitialized
  <1>8. Limited'
    <2>1. clock' >= clock /\ clock' \in Nat
      BY <1>1 DEF TypeOK
    <2>2. QED
      BY <1>1, <2>1, LimitedKept
  <1>9. QED
    BY <1>5, <1>6, <1>7, <1>8

\* Steps of the environment: no worker moves.
LEMMA QuietKeeps ==
    ASSUME StateInv, Tick \/ MigrateEnv \/ Backup \/ Restore
    PROVE  StateInv'
  <1> USE DEF StateInv
  <1>1. UNCHANGED <<table, lock, pc, from, now, given, sess, cookies, era, misses>>
    BY DEF Tick, MigrateEnv, Backup, Restore, history, locals
  <1>2. /\ clock' \in 0..MaxClock /\ clock' >= clock
        /\ env' \in Passwords \cup {None} /\ auth' \in Auth \cup {None}
        /\ backup' \in Auth \cup {None} /\ migrating' \in BOOLEAN
        /\ restored' \in {"never", "yes", "changed"}
    <2>1. CASE Tick
      BY <2>1 DEF Tick, history, TypeOK
    <2>2. CASE MigrateEnv
      <3>1. env' \in {env, None}
        BY <2>2 DEF MigrateEnv
      <3>2. env' \in Passwords \cup {None}
        BY <3>1 DEF TypeOK
      <3>3. UNCHANGED <<auth, backup, clock, restored>> /\ migrating' = FALSE
        BY <2>2 DEF MigrateEnv, history
      <3>4. clock' \in 0..MaxClock /\ clock' >= clock
        BY <3>3 DEF TypeOK
      <3>5. migrating' \in BOOLEAN
        BY <3>3
      <3>6. /\ auth' \in Auth \cup {None} /\ backup' \in Auth \cup {None}
            /\ restored' \in {"never", "yes", "changed"}
        BY <3>3 DEF TypeOK
      <3>7. QED
        BY <3>2, <3>4, <3>5, <3>6
    <2>3. CASE Backup
      BY <2>3 DEF Backup, history, TypeOK
    <2>4. CASE Restore
      BY <2>4 DEF Restore, TypeOK
    <2>5. QED
      BY <2>1, <2>2, <2>3, <2>4
  <1>3. TypeOK'
    BY <1>1, <1>2 DEF TypeOK
  <1>4. CredentialsNeverLost' /\ SessionInv'
    <2>1. CASE Tick
      BY <1>1, <2>1 DEF Tick, history, CredentialsNeverLost, SessionInv, Known
    <2>2. CASE MigrateEnv
      BY <1>1, <2>2 DEF MigrateEnv, Cleaned, history, CredentialsNeverLost, SessionInv, Known
    <2>3. CASE Backup
      BY <1>1, <2>3 DEF Backup, history, CredentialsNeverLost, SessionInv, Known
    <2>4. CASE Restore
      BY <1>1, <2>4 DEF Restore, CredentialsNeverLost, SessionInv, Known
    <2>5. QED
      BY <2>1, <2>2, <2>3, <2>4
  <1>5. Limited'
    BY <1>1, <1>2, LimitedKept
  <1>6. QED
    BY <1>3, <1>4, <1>5

LEMMA AttemptKeeps ==
    ASSUME StateInv, NEW w \in Workers, NEW ip \in Ips, Attempt(w, ip)
    PROVE  StateInv'
  <1> DEFINE ips == Loaded(table, clock)
  <1> USE DEF StateInv
  <1>1. /\ pc[w] = "idle" /\ lock = None
        /\ UNCHANGED <<env, auth, backup, clock, given, sess, migrating, cookies, era,
                       restored, misses>>
    BY DEF Attempt, history
  <1>2. TableOK(table) /\ clock \in Int /\ clock \in 0..MaxClock
    BY DEF TypeOK
  <1>3. TableOK(ips)
    BY <1>2, LoadedOK
  <1> HIDE DEF ips
  <1>4. \A v \in Workers : pc[v] \notin {"limited", "checked"}
    BY <1>1, NoneIsNothing DEF Limited
  <1>5. CASE /\ table' \in {ips, table}
             /\ UNCHANGED <<lock, pc, from, now>>
    <2>1. TypeOK'
      BY <1>1, <1>2, <1>3, <1>5 DEF TypeOK
    <2>2. Limited'
      BY <1>4, <1>5 DEF Limited
    <2>3. CredentialsNeverLost' /\ SessionInv'
      BY <1>1, <1>5 DEF CredentialsNeverLost, SessionInv, Known
    <2>4. QED
      BY <2>1, <2>2, <2>3
  <1>6. CASE /\ ~Waits(ips, ip, clock)
             /\ lock' = w /\ Goto(w, "limited") /\ UNCHANGED table
             /\ from' = [from EXCEPT ![w] = ip]
             /\ now' = [now EXCEPT ![w] = clock]
    <2>1. /\ pc' \in [Workers -> {"down", "boot", "idle", "limited", "checked", "admitted"}]
          /\ pc'[w] = "limited"
          /\ \A v \in Workers : v # w => pc'[v] = pc[v]
      BY <1>6, GotoFacts
    <2>2. /\ from' \in [Workers -> Ips \cup {None}] /\ from'[w] = ip
          /\ now' \in [Workers -> 0..MaxClock] /\ now'[w] = clock
      BY <1>2, <1>6 DEF TypeOK
    <2>3. TypeOK'
      BY <1>1, <1>6, <2>1, <2>2 DEF TypeOK
    <2>4. Limited'
      <3> SUFFICES ASSUME NEW v \in Workers, pc'[v] \in {"limited", "checked"}
                   PROVE  /\ lock' = v /\ from'[v] \in Ips /\ now'[v] <= clock'
                          /\ ~Waits(Loaded(table', now'[v]), from'[v], now'[v])
        BY DEF Limited
      <3>1. v = w
        BY <1>4, <2>1
      <3>2. ~Waits(Loaded(table, clock), ip, clock)
        BY <1>6 DEF ips
      <3>3. QED
        BY <1>1, <1>2, <1>6, <2>2, <3>1, <3>2
    <2>5. CredentialsNeverLost'
      BY <1>1 DEF CredentialsNeverLost
    <2>6. SessionInv'
      <3>1. \A v \in Workers : pc'[v] \notin {"down", "boot"} => auth # None
        BY <1>1, <2>1, RunningHasAuth
      <3>2. \A v \in Workers : pc'[v] = "admitted" => pc[v] = "admitted"
        BY <2>1
      <3>3. QED
        BY <1>1, <3>1, <3>2 DEF SessionInv, Known
    <2>7. QED
      BY <2>3, <2>4, <2>5, <2>6
  <1>7. QED
    BY <1>5, <1>6 DEF Attempt, ips, Refused

\* What the session of a worker that checks a password is.
LEMMA AuthenticateKeeps ==
    ASSUME StateInv, NEW w \in Workers, NEW p \in Passwords, Authenticate(w, p)
    PROVE  StateInv'
  <1> DEFINE c == IF auth.password = p THEN Issued(auth) ELSE None
  <1> USE DEF StateInv
  <1>1. /\ pc[w] = "limited" /\ Goto(w, "checked") /\ sess' = [sess EXCEPT ![w] = c]
        /\ UNCHANGED <<env, auth, backup, table, lock, clock, from, now, given, migrating,
                       cookies, era, restored, misses>>
    BY DEF Authenticate, history
  <1>2. auth # None /\ auth \in Auth
    BY <1>1, RunningHasAuth
  <1>3. c \in Session \cup {None} /\ (c # None => Known(c))
    <2>1. era \in Nat /\ auth.version \in 1..(MaxChanges + 1) /\ auth.instance \in Instances
      BY <1>2, AuthShape DEF TypeOK
    <2>2. Issued(auth) \in Session
      BY <2>1 DEF Issued, Session
    <2>3. Issued(auth).version = auth.version /\ Issued(auth).era = era
      BY DEF Issued
    <2>4. Known(Issued(auth))
      BY <1>2, <2>1, <2>3 DEF Known
    <2>5. QED
      BY <2>2, <2>4
  <1> HIDE DEF c
  <1>4. /\ pc' \in [Workers -> {"down", "boot", "idle", "limited", "checked", "admitted"}]
        /\ pc'[w] = "checked"
        /\ \A v \in Workers : v # w => pc'[v] = pc[v]
    BY <1>1, GotoFacts
  <1>5. /\ sess' \in [Workers -> Session \cup {None}] /\ sess'[w] = c
        /\ \A v \in Workers : v # w => sess'[v] = sess[v]
    BY <1>1, <1>3 DEF TypeOK
  <1>6. TypeOK'
    BY <1>1, <1>4, <1>5 DEF TypeOK
  <1>7. CredentialsNeverLost'
    BY <1>1 DEF CredentialsNeverLost
  <1>8. SessionInv'
    <2>1. \A v \in Workers : sess'[v] # None => (restored = "never" => Known(sess'[v]))
      BY <1>3, <1>5 DEF SessionInv
    <2>2. \A v \in Workers : pc'[v] = "admitted" => sess'[v] # None
      BY <1>4, <1>5 DEF SessionInv
    <2>3. migrating' => auth # None
      BY <1>2
    <2>4. QED
      BY <1>1, <1>2, <2>1, <2>2, <2>3, SessionsKept
  <1>9. Limited'
    <2>1. clock' >= clock /\ clock' \in Nat
      BY <1>1 DEF TypeOK
    <2>2. \A v \in Workers : pc'[v] \in {"limited", "checked"} => pc[v] \in {"limited", "checked"}
      BY <1>1, <1>4
    <2>3. QED
      BY <1>1, <2>1, <2>2, LimitedKept
  <1>10. QED
    BY <1>6, <1>7, <1>8, <1>9

\* The table an attempt writes.
LEMMA RecordedOK ==
    ASSUME StateInv, NEW w \in Workers, pc[w] = "checked"
    PROVE  TableOK(Recorded(w))
  <1> DEFINE ips == Loaded(table, now[w])
             ip == from[w]
             r == IF sess[w] # None THEN None ELSE Counted(ips[ip], now[w])
  <1>1. /\ TableOK(table) /\ now[w] \in Int /\ now[w] \in Time
        /\ ip \in Ips /\ ~Waits(ips, ip, now[w])
    BY DEF StateInv, TypeOK, Limited, Time
  <1>2. TableOK(ips)
    BY <1>1, LoadedOK
  <1>3. table \in [Ips -> Attempts \cup {None}] /\ ips \in [Ips -> Attempts \cup {None}]
    BY <1>1, <1>2 DEF TableOK
  <1>4. /\ ips[ip] # None => ips[ip].blocked = 0
        /\ ips[ip] = None => ~Full(ips)
    BY <1>1, <1>3, Unlocked
  <1>5. Recorded(w) = [ips EXCEPT ![ip] = r]
    BY DEF Recorded
  <1>6. ips[ip] # None => Len(ips[ip].failures) < MaxFailures
    <2>1. ASSUME ips[ip] # None PROVE Len(ips[ip].failures) < MaxFailures
      <3>1. Len(ips[ip].failures) < MaxFailures + (IF ips[ip].blocked = 0 THEN 0 ELSE 1)
        BY <1>1, <1>2, <2>1 DEF TableOK
      <3>2. QED
        BY <1>4, <2>1, <3>1
    <2>2. QED
      BY <2>1
  <1>7. ips[ip] \in Attempts \cup {None}
    BY <1>1, <1>3
  <1> HIDE DEF ips, ip
  <1>8. /\ Counted(ips[ip], now[w]) \in Attempts
        /\ Len(Counted(ips[ip], now[w]).failures) <
              MaxFailures + (IF Counted(ips[ip], now[w]).blocked = 0 THEN 0 ELSE 1)
    BY <1>1, <1>4, <1>6, <1>7, CountedOK
  <1>9. r \in Attempts \cup {None} /\
        (r # None => Len(r.failures) < MaxFailures + (IF r.blocked = 0 THEN 0 ELSE 1))
    BY <1>8
  <1> HIDE DEF r
  <1>10. r # None /\ ips[ip] = None => ~Full(ips)
    BY <1>4
  <1>11. ip \in Ips
    BY <1>1
  <1>12. TableOK([ips EXCEPT ![ip] = r])
    BY <1>2, <1>9, <1>10, <1>11, ReplacedOK
  <1>13. QED
    BY <1>5, <1>12

\* The history a recorded attempt leaves.
LEMMA MissesChange ==
    ASSUME TypeOK, NEW w \in Workers, Record(w)
    PROVE  \/ misses' = misses
           \/ misses' = [misses EXCEPT ![from[w]] = <<>>]
           \/ misses' = [misses EXCEPT ![from[w]] = Remember(misses[from[w]], now[w])]
  <1>1. CASE sess[w] # None
    BY <1>1 DEF Record
  <1>2. CASE sess[w] = None
    <2>1. \/ misses' = [misses EXCEPT ![from[w]] = Remember(@, now[w])]
          \/ misses' = [misses EXCEPT ![from[w]] = @]
          \/ misses' = misses
      BY <1>2 DEF Record
    <2>2. misses = [misses EXCEPT ![from[w]] = @]
      BY DEF TypeOK
    <2>3. QED
      BY <2>1, <2>2 DEF TypeOK
  <1>3. QED
    BY <1>1, <1>2

LEMMA RecordKeeps ==
    ASSUME StateInv, NEW w \in Workers, Record(w)
    PROVE  StateInv'
  <1> USE DEF StateInv
  <1>1. /\ pc[w] = "checked" /\ lock' = None /\ Goto(w, "idle") /\ Forget(w)
        /\ UNCHANGED <<env, auth, backup, clock, migrating, era, restored>>
        /\ table' \in {Recorded(w), table}
        /\ \A c \in cookies' : c \in cookies \/ (c = sess[w] /\ sess[w] # None)
    BY DEF Record, Finish
  <1>2. lock = w /\ from[w] \in Ips /\ now[w] \in 0..MaxClock /\ sess[w] \in Session \cup {None}
    BY <1>1 DEF Limited, TypeOK
  <1>3. TableOK(table')
    BY <1>1, RecordedOK DEF TypeOK
  <1>4. misses' \in [Ips -> Seq(0..MaxClock)]
    <2>1. Remember(misses[from[w]], now[w]) \in Seq(0..MaxClock)
      <3>1. misses[from[w]] \in Seq(0..MaxClock)
        BY <1>2 DEF TypeOK
      <3>2. QED
        BY <1>2, <3>1, RememberShape DEF Time
    <2>2. <<>> \in Seq(0..MaxClock)
      OBVIOUS
    <2>3. misses \in [Ips -> Seq(0..MaxClock)]
      BY DEF TypeOK
    <2> DEFINE new == Remember(misses[from[w]], now[w])
    <2>4. \/ misses' = misses
          \/ misses' = [misses EXCEPT ![from[w]] = <<>>]
          \/ misses' = [misses EXCEPT ![from[w]] = new]
      BY MissesChange
    <2> HIDE DEF new
    <2>5. new \in Seq(0..MaxClock)
      BY <2>1 DEF new
    <2>6. QED
      BY <2>2, <2>3, <2>4, <2>5
  <1>5. /\ pc' \in [Workers -> {"down", "boot", "idle", "limited", "checked", "admitted"}]
        /\ pc'[w] = "idle"
        /\ \A v \in Workers : v # w => pc'[v] = pc[v]
    BY <1>1, GotoFacts
  <1>6. TypeOK'
    <2>1. cookies' \subseteq Session
      BY <1>1, <1>2 DEF TypeOK
    <2>2. QED
      BY <1>1, <1>3, <1>4, <1>5, <2>1, FinishFacts DEF TypeOK
  <1>7. CredentialsNeverLost'
    BY <1>1 DEF CredentialsNeverLost
  <1>8. SessionInv'
    <2>1. /\ sess'[w] = None
          /\ \A v \in Workers : v # w => sess'[v] = sess[v]
      BY <1>1, FinishFacts
    <2>2. auth # None
      BY <1>1, RunningHasAuth
    <2>3. \A v \in Workers : sess'[v] # None => (restored = "never" => Known(sess'[v]))
      BY <2>1 DEF SessionInv
    <2>4. \A v \in Workers : pc'[v] = "admitted" => sess'[v] # None
      BY <1>5, <2>1 DEF SessionInv
    <2>5. \A c \in cookies' : c \in cookies \/ \E v \in Workers : c = sess[v] /\ sess[v] # None
      BY <1>1
    <2>6. migrating' => auth # None
      BY <2>2
    <2>7. QED
      BY <1>1, <2>2, <2>3, <2>4, <2>5, <2>6, SessionsKept
  <1>9. Limited'
    <2>1. \A v \in Workers : pc'[v] \notin {"limited", "checked"}
      BY <1>2, <1>5 DEF Limited
    <2>2. QED
      BY <2>1 DEF Limited
  <1>10. QED
    BY <1>6, <1>7, <1>8, <1>9

LEMMA AdmitKeeps ==
    ASSUME StateInv, NEW w \in Workers, NEW c \in cookies, Admit(w, c)
    PROVE  StateInv'
  <1> USE DEF StateInv
  <1>1. /\ pc[w] = "idle" /\ Goto(w, "admitted") /\ sess' = [sess EXCEPT ![w] = c]
        /\ UNCHANGED <<env, auth, backup, table, lock, clock, from, now, given, migrating,
                       cookies, era, restored, misses>>
    BY DEF Admit, history
  <1>2. auth # None /\ c \in Session /\ c # None
    BY <1>1, RunningHasAuth, NoneIsNothing DEF TypeOK
  <1>3. /\ pc' \in [Workers -> {"down", "boot", "idle", "limited", "checked", "admitted"}]
        /\ pc'[w] = "admitted"
        /\ \A v \in Workers : v # w => pc'[v] = pc[v]
    BY <1>1, GotoFacts
  <1>4. /\ sess' \in [Workers -> Session \cup {None}] /\ sess'[w] = c
        /\ \A v \in Workers : v # w => sess'[v] = sess[v]
    BY <1>1, <1>2 DEF TypeOK
  <1>5. TypeOK'
    BY <1>1, <1>3, <1>4 DEF TypeOK
  <1>6. CredentialsNeverLost'
    BY <1>1 DEF CredentialsNeverLost
  <1>7. SessionInv'
    <2>1. \A v \in Workers : sess'[v] # None => (restored = "never" => Known(sess'[v]))
      BY <1>4 DEF SessionInv
    <2>2. \A v \in Workers : pc'[v] = "admitted" => sess'[v] # None
      BY <1>2, <1>3, <1>4 DEF SessionInv
    <2>3. migrating' => auth # None
      BY <1>2
    <2>4. QED
      BY <1>1, <1>2, <2>1, <2>2, <2>3, SessionsKept
  <1>8. Limited'
    <2>1. clock' >= clock /\ clock' \in Nat
      BY <1>1 DEF TypeOK
    <2>2. \A v \in Workers : pc'[v] \in {"limited", "checked"} => pc[v] \in {"limited", "checked"}
      BY <1>3
    <2>3. QED
      BY <1>1, <2>1, <2>2, LimitedKept
  <1>9. QED
    BY <1>5, <1>6, <1>7, <1>8

\* A change gives the next version: every session is of an older one.
LEMMA ChangePasswordKeeps ==
    ASSUME StateInv, NEW w \in Workers, NEW current \in Passwords, NEW new \in Passwords,
           ChangePassword(w, current, new)
    PROVE  StateInv'
  <1> USE DEF StateInv
  <1>1. /\ pc[w] = "admitted" /\ Goto(w, "idle") /\ Forget(w)
        /\ auth' = Changed(new) /\ era' = era + 1 /\ era < MaxChanges
        /\ UNCHANGED <<env, backup, table, lock, clock, migrating, cookies, misses>>
    BY DEF ChangePassword, Finish
  <1>2. restored' = IF restored = "never" THEN "never" ELSE "changed"
    BY DEF ChangePassword
  <1>3. auth # None /\ auth \in Auth
    BY <1>1, RunningHasAuth
  <1>4. auth.version \in Nat /\ 1 <= auth.version /\ auth.version <= era + 1 /\ era \in Nat
    BY <1>3, AuthShape DEF SessionInv, TypeOK
  <1>5. auth' \in Auth /\ auth'.version = auth.version + 1
    <2>1. auth' = [auth EXCEPT !.password = new, !.version = auth.version + 1]
      BY <1>1 DEF Changed
    <2>2. auth.version + 1 \in 1..(MaxChanges + 1)
      BY <1>1, <1>4
    <2>3. QED
      BY <1>3, <2>1, <2>2 DEF Auth
  <1>6. auth' # None
    BY <1>5, NoneIsNothing
  <1>7. /\ pc' \in [Workers -> {"down", "boot", "idle", "limited", "checked", "admitted"}]
        /\ pc'[w] = "idle"
        /\ \A v \in Workers : v # w => pc'[v] = pc[v]
    BY <1>1, GotoFacts
  <1>8. /\ sess'[w] = None
        /\ \A v \in Workers : v # w => sess'[v] = sess[v]
    BY <1>1, FinishFacts
  <1>9. TypeOK'
    <2>1. restored' \in {"never", "yes", "changed"} /\ era' \in Nat
      BY <1>1, <1>2, <1>4
    <2>2. QED
      BY <1>1, <1>5, <1>7, <2>1, FinishFacts DEF TypeOK
  <1>10. CredentialsNeverLost'
    BY <1>6 DEF CredentialsNeverLost
  <1>11. SessionInv'
    <2>1. ASSUME restored' = "never"
          PROVE  /\ \A c \in cookies : Known(c)'
                 /\ \A v \in Workers : sess'[v] # None => Known(sess[v])'
      <3>1. restored = "never"
        BY <1>2, <2>1
      <3>2. ASSUME NEW c \in Session, Known(c) PROVE Known(c)'
        <4>1. c.version \in Nat /\ c.version <= auth.version
          BY <3>2 DEF Known, Session
        <4>2. c.version <= auth'.version /\ c.version # auth'.version
          BY <1>4, <1>5, <4>1
        <4>3. QED
          BY <1>6, <4>2 DEF Known
      <3>3. \A c \in cookies : c \in Session /\ Known(c)
        BY <3>1 DEF SessionInv, TypeOK
      <3>4. \A v \in Workers : sess'[v] # None =>
               sess'[v] = sess[v] /\ sess[v] \in Session /\ Known(sess[v])
        BY <1>8, <3>1 DEF SessionInv, TypeOK
      <3>5. \A v \in Workers : sess'[v] # None => Known(sess[v])'
        <4> SUFFICES ASSUME NEW v \in Workers, sess'[v] # None
                     PROVE  /\ auth' # None /\ sess'[v].version <= auth'.version
                            /\ (sess'[v].version = auth'.version => sess'[v].era = era')
          BY DEF Known
        <4>1. sess'[v] = sess[v] /\ sess[v] \in Session /\ Known(sess[v])
          BY <3>4
        <4>2. Known(sess[v]) => sess[v].version <= auth.version
          BY DEF Known
        <4>3. sess[v].version \in Nat
          BY <4>1 DEF Session
        <4>4. QED
          BY <1>4, <1>5, <1>6, <4>1, <4>2, <4>3
      <3>6. QED
        BY <3>2, <3>3, <3>5
    <2>2. \A v \in Workers : pc'[v] = "admitted" => sess'[v] # None
      BY <1>7, <1>8 DEF SessionInv
    <2>3. auth'.version <= era' + 1
      BY <1>1, <1>4, <1>5
    <2>4. backup' # None => backup'.version <= era' + 1
      <3>1. backup # None => backup.version \in Nat /\ backup.version <= era + 1
        BY DEF SessionInv, TypeOK, Auth
      <3>2. QED
        BY <1>1, <1>4, <3>1
    <2>5. QED
      BY <1>1, <1>6, <2>1, <2>2, <2>3, <2>4 DEF SessionInv
  <1>12. Limited'
    BY <1>1, <1>7, LimitedWhenEnded
  <1>13. QED
    BY <1>9, <1>10, <1>11, <1>12

\* Every step keeps the state.
LEMMA StateStep == StateInv /\ [Next]_vars => StateInv'
  <1> SUFFICES ASSUME StateInv, [Next]_vars PROVE StateInv'
    OBVIOUS
  <1>1. CASE Tick \/ MigrateEnv \/ Backup \/ Restore
    BY <1>1, QuietKeeps
  <1>2. CASE Migrate
    BY <1>2, MigrateKeeps
  <1>3. ASSUME NEW w \in Workers, Boot(w) PROVE StateInv'
    BY <1>3, BootKeeps
  <1>4. ASSUME NEW w \in Workers, Start(w) PROVE StateInv'
    BY <1>4, StartKeeps
  <1>5. ASSUME NEW w \in Workers, Stop(w) PROVE StateInv'
    <2>1. /\ Goto(w, "down") /\ Forget(w)
          /\ lock' = lock \/ (lock = w /\ lock' = None)
          /\ UNCHANGED <<env, auth, backup, table, clock, migrating, cookies, era, restored, misses>>
      BY <1>5 DEF Stop, history
    <2>2. QED
      BY <2>1, EndKeeps
  <1>6. ASSUME NEW w \in Workers, Record(w) PROVE StateInv'
    BY <1>6, RecordKeeps
  <1>7. ASSUME NEW w \in Workers, Leave(w) PROVE StateInv'
    <2>1. /\ pc[w] = "admitted" /\ Goto(w, "idle") /\ Forget(w)
          /\ UNCHANGED <<env, auth, backup, table, lock, clock, migrating, cookies, era,
                         restored, misses>>
      BY <1>7 DEF Leave, Finish, history
    <2>2. QED
      BY <2>1, EndKeeps
  <1>8. ASSUME NEW w \in Workers, NEW ip \in Ips, Attempt(w, ip) PROVE StateInv'
    BY <1>8, AttemptKeeps
  <1>9. ASSUME NEW w \in Workers, NEW p \in Passwords, Authenticate(w, p) PROVE StateInv'
    BY <1>9, AuthenticateKeeps
  <1>10. ASSUME NEW w \in Workers, NEW c \in cookies, Admit(w, c) PROVE StateInv'
    BY <1>10, AdmitKeeps
  <1>11. ASSUME NEW w \in Workers, NEW current \in Passwords, NEW new \in Passwords,
                ChangePassword(w, current, new)
         PROVE  StateInv'
    BY <1>11, ChangePasswordKeeps
  <1>12. CASE UNCHANGED vars
    BY <1>12 DEF vars, StateInv, TypeOK, CredentialsNeverLost, SessionInv, Known, Limited
  <1>13. QED
    BY <1>1, <1>2, <1>3, <1>4, <1>5, <1>6, <1>7, <1>8, <1>9, <1>10, <1>11, <1>12 DEF Next

THEOREM StateAlways == Spec => []StateInv
  BY InitState, StateStep, PTL DEF Spec

-----------------------------------------------------------------------------
(* What follows for credentials, sessions and lockouts *)

\* Every reachable state has its type, and the table of failed sign-ins never
\* outgrows its limits (LoginLimiter.attempt, AuthStore).
THEOREM TypeCorrect == Spec => []TypeOK
  <1>1. StateInv => TypeOK
    BY DEF StateInv
  <1>2. QED
    BY <1>1, StateAlways, PTL

\* There is a password at every moment of the migration (migrate_auth).
THEOREM CredentialsKept == Spec => []CredentialsNeverLost
  <1>1. StateInv => CredentialsNeverLost
    BY DEF StateInv
  <1>2. QED
    BY <1>1, StateAlways, PTL

\* A password change ends all older sessions (change_password,
\* invalidate_old_sessions).
THEOREM SessionsEnd == Spec => []ChangeEndsSessions
  <1>1. StateInv => ChangeEndsSessions
    <2> SUFFICES ASSUME StateInv, restored = "never", NEW c \in cookies, Accepts(c)
                 PROVE  c.era = era
      BY DEF ChangeEndsSessions, OnlyCurrentSessions
    <2>1. Known(c)
      BY DEF StateInv, SessionInv
    <2>2. QED
      BY <2>1 DEF Known, Accepts
  <1>2. QED
    BY <1>1, StateAlways, PTL

\* The credentials of an instance change only through one of its own sessions
\* or a restore (initialize, migrate_auth, change_password).
THEOREM ChangesNeedSession == Spec => ChangedOnlyBySession
  <1> DEFINE Permitted ==
        auth # None /\ auth' # auth =>
          \/ AllDown /\ auth' = backup
          \/ /\ auth'.instance = auth.instance
             /\ auth'.version = auth.version + 1
             /\ \E w \in Workers : pc[w] = "admitted" /\ pc'[w] = "idle" /\ Accepts(sess[w])
  <1>1. StateInv /\ [Next]_vars => Permitted
    <2> SUFFICES ASSUME StateInv, [Next]_vars, auth # None, auth' # auth PROVE Permitted
      OBVIOUS
    <2>1. auth \in Auth /\ TypeOK
      BY DEF StateInv, TypeOK
    <2>2. \A p \in Passwords \cup {None} : \A a \in Initialized(p) : a = auth
      BY DEF Initialized
    <2>3. CASE Restore
      BY <2>3 DEF Restore
    <2>4. ~Tick /\ ~MigrateEnv /\ ~Backup /\ ~UNCHANGED vars
      BY DEF Tick, MigrateEnv, Backup, vars
    <2>5. ~Migrate
      BY <2>1, <2>2 DEF Migrate, TypeOK
    <2>6. ASSUME NEW w \in Workers PROVE ~Start(w)
      <3>1. given[w] \in Passwords \cup {None}
        BY <2>1 DEF TypeOK
      <3>2. QED
        BY <2>2, <3>1 DEF Start
    <2>7. ASSUME NEW w \in Workers
          PROVE  /\ ~Boot(w) /\ ~Stop(w) /\ ~Record(w) /\ ~Leave(w)
                 /\ \A ip \in Ips : ~Attempt(w, ip)
                 /\ \A p \in Passwords : ~Authenticate(w, p)
                 /\ \A c \in cookies : ~Admit(w, c)
      BY DEF Boot, Stop, Record, Leave, Attempt, Authenticate, Admit
    <2>8. ASSUME NEW w \in Workers, NEW current \in Passwords, NEW new \in Passwords,
                 ChangePassword(w, current, new)
          PROVE  Permitted
      <3>1. /\ pc[w] = "admitted" /\ Accepts(sess[w])
            /\ auth' = [auth EXCEPT !.password = new, !.version = auth.version + 1]
            /\ Goto(w, "idle")
        BY <2>8 DEF ChangePassword, Finish, MayChange, Changed
      <3>2. pc'[w] = "idle"
        BY <2>1, <3>1, GotoFacts
      <3>3. auth'.instance = auth.instance /\ auth'.version = auth.version + 1
        BY <2>1, <3>1 DEF Auth
      <3>4. QED
        BY <3>1, <3>2, <3>3
    <2>9. QED
      BY <2>3, <2>4, <2>5, <2>6, <2>7, <2>8 DEF Next
  <1> HIDE DEF Permitted
  <1>2. Spec => [][Permitted]_vars
    BY <1>1, StateAlways, PTL DEF Spec
  <1>3. QED
    BY <1>2 DEF ChangedOnlyBySession, Permitted

\* _load keeps a lockout that has not ended.
LEMMA LoadedKeepsLocks ==
    ASSUME NEW tab \in [Ips -> Attempts \cup {None}], NEW t \in Time, NEW ip \in Ips,
           tab[ip] # None, tab[ip].blocked > t
    PROVE  Loaded(tab, t)[ip] # None /\ Loaded(tab, t)[ip].blocked = tab[ip].blocked
  <1> DEFINE r == tab[ip]
             kept == [failures |-> Recent(r, t), blocked |-> r.blocked]
  <1>1. r \in Attempts /\ r.blocked # 0
    BY DEF Attempts, Time
  <1>2. Loaded(tab, t)[ip] = kept
    BY <1>1 DEF Loaded, Alive
  <1>3. kept \in Attempts /\ kept.blocked = r.blocked
    BY <1>1, RecentShape DEF Attempts, Time
  <1> HIDE DEF kept
  <1>4. QED
    BY <1>2, <1>3, NoneIsNothing

\* A lockout runs its course: nothing extends, shortens or evicts it
\* (LoginLimiter._load, _retry and attempt).
THEOREM LockoutsRun == Spec => LockoutsFixed
  <1> DEFINE Kept ==
        \A ip \in Ips :
          table[ip] # None /\ table[ip].blocked > clock =>
            table'[ip] # None /\ table'[ip].blocked = table[ip].blocked
  <1>1. StateInv /\ [Next]_vars => Kept
    <2> SUFFICES ASSUME StateInv, [Next]_vars, NEW ip \in Ips,
                        table[ip] # None, table[ip].blocked > clock
                 PROVE  table'[ip] # None /\ table'[ip].blocked = table[ip].blocked
      BY DEF Kept
    <2>1. /\ TypeOK /\ table \in [Ips -> Attempts \cup {None}] /\ clock \in Time
          /\ table[ip] \in Attempts
      BY DEF StateInv, TypeOK, TableOK, Time
    <2>2. CASE table' = table
      BY <2>2
    <2>3. ASSUME NEW w \in Workers, NEW j \in Ips, Attempt(w, j)
          PROVE  table' \in {table, Loaded(table, clock)}
      BY <2>3 DEF Attempt, Refused
    <2>4. ASSUME NEW w \in Workers, Record(w), table' = Recorded(w)
          PROVE  table'[ip] # None /\ table'[ip].blocked = table[ip].blocked
      <3> DEFINE ips == Loaded(table, now[w])
      <3>1. pc[w] = "checked"
        BY <2>4 DEF Record
      <3>2. /\ now[w] \in Time /\ now[w] <= clock /\ from[w] \in Ips
            /\ ~Waits(ips, from[w], now[w])
        BY <2>1, <3>1 DEF StateInv, Limited, TypeOK, Time
      <3>3. table[ip].blocked > now[w] /\ table[ip].blocked # 0
        BY <2>1, <3>2, RecordShape DEF Time
      <3>4. ips[ip] # None /\ ips[ip].blocked = table[ip].blocked
        BY <2>1, <3>2, <3>3, LoadedKeepsLocks
      <3>5. ip # from[w]
        BY <3>3, <3>4, <3>2 DEF Waits
      <3>6. Recorded(w)[ip] = ips[ip]
        BY <3>5 DEF Recorded, Loaded
      <3>7. QED
        BY <2>4, <3>4, <3>6
    <2>5. CASE table' = Loaded(table, clock)
      BY <2>1, <2>5, LoadedKeepsLocks
    <2>6. \/ table' = table
          \/ \E w \in Workers : Record(w) /\ table' = Recorded(w)
          \/ \E w \in Workers, j \in Ips : Attempt(w, j)
      <3>1. CASE Tick \/ Migrate \/ MigrateEnv \/ Backup \/ Restore \/ UNCHANGED vars
        BY <3>1 DEF Tick, Migrate, MigrateEnv, Backup, Restore, vars
      <3>2. ASSUME NEW w \in Workers, Record(w) PROVE table' \in {table, Recorded(w)}
        BY <3>2 DEF Record
      <3>3. ASSUME NEW w \in Workers,
                   \/ Boot(w) \/ Start(w) \/ Stop(w) \/ Leave(w)
                   \/ \E p \in Passwords : Authenticate(w, p)
                   \/ \E c \in cookies : Admit(w, c)
                   \/ \E current, new \in Passwords : ChangePassword(w, current, new)
            PROVE  table' = table
        BY <3>3 DEF Boot, Start, Stop, Leave, Authenticate, Admit, ChangePassword
      <3>4. QED
        BY <3>1, <3>2, <3>3 DEF Next
    <2>7. QED
      BY <2>2, <2>3, <2>4, <2>5, <2>6
  <1> HIDE DEF Kept
  <1>2. Spec => [][Kept]_vars
    BY <1>1, StateAlways, PTL DEF Spec
  <1>3. QED
    BY <1>2 DEF LockoutsFixed, Kept

-----------------------------------------------------------------------------
(* The history: how many passwords an address may try *)

\* Later, less has to be covered.
LEMMA CoveredLater ==
    ASSUME NEW s \in Seq(Time), NEW r, NEW t \in Int, NEW u \in Int, t <= u,
           Covered(s, r, t)
    PROVE  Covered(s, r, u)
  <1>1. CASE r # None /\ r.blocked # 0
    BY <1>1 DEF Covered
  <1>2. CASE ~(r # None /\ r.blocked # 0)
    <2> DEFINE f == IF r = None THEN <<>> ELSE r.failures
    <2>1. \A i \in 0..(Len(s) - 1) :
             s[Len(s) - i] > t - Span => i < Len(f) /\ s[Len(s) - i] <= f[Len(f) - i]
      BY <1>2 DEF Covered
    <2>2. \A i \in 0..(Len(s) - 1) : s[Len(s) - i] \in Int
      BY DEF Time
    <2>3. Span \in Int
      BY SpanFacts
    <2> HIDE DEF f
    <2>4. \A i \in 0..(Len(s) - 1) :
             s[Len(s) - i] > u - Span => i < Len(f) /\ s[Len(s) - i] <= f[Len(f) - i]
      <3> SUFFICES ASSUME NEW i \in 0..(Len(s) - 1), s[Len(s) - i] > u - Span
                   PROVE  i < Len(f) /\ s[Len(s) - i] <= f[Len(f) - i]
        OBVIOUS
      <3> DEFINE x == s[Len(s) - i]
      <3>1. x \in Int /\ x > u - Span
        BY <2>2
      <3> HIDE DEF x
      <3>2. x > t - Span
        BY <2>3, <3>1
      <3>3. QED
        BY <2>1, <3>2 DEF x
    <2>5. QED
      BY <1>2, <2>4 DEF Covered, f
  <1>3. QED
    BY <1>1, <1>2

LEMMA UntilLater ==
    ASSUME NEW s \in Seq(Time), NEW t \in Int, NEW u \in Int, t <= u, Until(s, t)
    PROVE  Until(s, u)
  BY DEF Until, Time

\* A record that _load drops covers nothing that is young enough to matter, and
\* one that it keeps loses only failures that are not.
LEMMA LoadedCovers ==
    ASSUME NEW tab \in [Ips -> Attempts \cup {None}], NEW t \in Time, NEW ip \in Ips,
           NEW s \in Seq(Time), Covered(s, tab[ip], t), Until(s, t),
           tab[ip] # None => Sorted(tab[ip].failures)
    PROVE  Covered(s, Loaded(tab, t)[ip], t)
  <1> DEFINE r == tab[ip]
             new == Loaded(tab, t)[ip]
  <1>1. /\ Len(s) \in Nat /\ t \in Int
        /\ \A i \in 0..(Len(s) - 1) : Len(s) - i \in DOMAIN s /\ s[Len(s) - i] \in Int
    BY DEF Time
  <1>2. Span \in Int /\ 0 < Span /\ Span <= Window /\ Span <= Lockout
    BY SpanFacts
  <1>3. CASE r = None
    BY <1>3 DEF Loaded
  <1>4. CASE r # None /\ r.blocked # 0 /\ r.blocked > t
    <2>1. new # None /\ new.blocked = r.blocked
      BY <1>4, LoadedKeepsLocks
    <2>2. QED
      BY <1>4, <2>1 DEF Covered
  <1>5. CASE r # None /\ r.blocked # 0 /\ ~(r.blocked > t)
    <2>1. new = None
      BY <1>5 DEF Loaded, Alive
    <2>2. \A i \in DOMAIN s : s[i] + Lockout <= r.blocked
      BY <1>5 DEF Covered
    <2>3. r.blocked \in Int
      BY <1>5, RecordShape
    <2>4. \A i \in 0..(Len(s) - 1) : ~(s[Len(s) - i] > t - Span)
      <3> SUFFICES ASSUME NEW i \in 0..(Len(s) - 1) PROVE ~(s[Len(s) - i] > t - Span)
        OBVIOUS
      <3>1. s[Len(s) - i] + Lockout <= r.blocked
        BY <1>1, <2>2
      <3>2. QED
        BY <1>1, <1>2, <1>5, <2>3, <3>1
    <2>5. QED
      BY <2>1, <2>4 DEF Covered
  <1>6. CASE r # None /\ r.blocked = 0
    <2> DEFINE f == r.failures
               g == Recent(r, t)
               c == Cardinality(Expired(r, t))
    <2>1. r \in Attempts
      BY <1>6
    <2>2. /\ Len(f) \in Nat /\ c \in Nat /\ c <= Len(f) /\ Len(g) = Len(f) - c
          /\ \A n \in 1..Len(g) : g[n] = f[c + n]
          /\ \A n \in 1..Len(f) : f[n] \in Int
      <3>1. Len(f) \in Nat /\ \A n \in 1..Len(f) : f[n] \in Int
        BY <2>1, RecordShape DEF Time
      <3>2. Len(g) = Len(f) - c /\ \A n \in 1..Len(g) : g[n] = f[c + n]
        BY <1>1, <2>1, RecentShape
      <3>3. c \in Nat /\ c <= Len(f)
        BY <1>1, <2>1, ExpiredCount
      <3>4. QED
        BY <3>1, <3>2, <3>3
    <2>3. \A n \in 1..Len(f) : f[n] <= t - Window <=> n <= c
      BY <1>1, <1>6, <2>1, ExpiredFirst
    <2>4. \A i \in 0..(Len(s) - 1) :
             s[Len(s) - i] > t - Span => i < Len(f) /\ s[Len(s) - i] <= f[Len(f) - i]
      BY <1>6 DEF Covered
    <2>5. IF new = None THEN Len(g) = 0 ELSE new.failures = g /\ new.blocked = 0
      <3>1. CASE g = <<>>
        BY <1>6, <3>1 DEF Loaded, Alive
      <3>2. CASE g # <<>>
        <4>1. new = [failures |-> g, blocked |-> r.blocked]
          BY <1>6, <3>2 DEF Loaded, Alive
        <4>2. g \in Seq(Time)
          BY <1>1, <2>1, RecentShape
        <4>3. new.failures = g /\ new.blocked = 0 /\ new \in Attempts
          BY <1>6, <2>1, <4>1, <4>2 DEF Attempts, Time
        <4>4. QED
          BY <4>3, NoneIsNothing
      <3>3. QED
        BY <3>1, <3>2
    <2> HIDE DEF f, g, c, new
    <2>6. ASSUME NEW i \in 0..(Len(s) - 1), s[Len(s) - i] > t - Span
          PROVE  i < Len(g) /\ s[Len(s) - i] <= g[Len(g) - i]
      <3>1. i < Len(f) /\ s[Len(s) - i] <= f[Len(f) - i]
        BY <2>4, <2>6
      <3>2. Len(f) - i \in 1..Len(f) /\ f[Len(f) - i] > t - Window
        <4> DEFINE x == s[Len(s) - i]
                   y == f[Len(f) - i]
        <4>1. Len(f) - i \in 1..Len(f)
          BY <1>1, <2>2, <3>1
        <4>2. x \in Int /\ y \in Int /\ x > t - Span /\ x <= y
          BY <1>1, <2>2, <2>6, <3>1, <4>1
        <4> HIDE DEF x, y
        <4>3. y > t - Window
          BY <1>1, <1>2, <4>2
        <4>4. QED
          BY <4>1, <4>3 DEF y
      <3>3. ~(Len(f) - i <= c)
        <4> DEFINE n == Len(f) - i
        <4>1. n \in 1..Len(f) /\ f[n] > t - Window
          BY <3>2
        <4> HIDE DEF n
        <4>2. ~(f[n] <= t - Window)
          <5>1. f[n] \in Int /\ t - Window \in Int
            BY <1>1, <2>2, <4>1
          <5>2. QED
            BY <4>1, <5>1
        <4>3. ~(n <= c)
          BY <2>3, <4>1, <4>2
        <4>4. QED
          BY <4>3 DEF n
      <3>4. i < Len(g) /\ Len(g) - i \in 1..Len(g)
        BY <2>2, <3>3
      <3>5. g[Len(g) - i] = f[c + (Len(g) - i)] /\ c + (Len(g) - i) = Len(f) - i
        <4>1. g[Len(g) - i] = f[c + (Len(g) - i)]
          BY <2>2, <3>4
        <4>2. i \in Int
          OBVIOUS
        <4>3. c + (Len(g) - i) = Len(f) - i
          BY <2>2, <4>2
        <4>4. QED
          BY <4>1, <4>3
      <3>6. QED
        BY <3>1, <3>4, <3>5
    <2>7. CASE new = None
      <3>1. Len(g) = 0
        BY <2>5, <2>7
      <3>2. \A i \in 0..(Len(s) - 1) : ~(s[Len(s) - i] > t - Span)
        BY <2>6, <3>1
      <3>3. QED
        BY <2>7, <3>2 DEF Covered, new
    <2>8. CASE new # None
      <3>1. new.failures = g /\ new.blocked = 0
        BY <2>5, <2>8
      <3>2. Covered(s, new, t)
        BY <2>6, <2>8, <3>1 DEF Covered
      <3>3. QED
        BY <3>2 DEF new
    <2>9. QED
      BY <2>7, <2>8
  <1>7. QED
    BY <1>3, <1>4, <1>5, <1>6

\* _load keeps the order of the failures.
LEMMA LoadedSorted ==
    ASSUME NEW tab \in [Ips -> Attempts \cup {None}], NEW t \in Time, NEW ip \in Ips,
           Loaded(tab, t)[ip] # None, Sorted(tab[ip].failures), Until(tab[ip].failures, t)
    PROVE  Sorted(Loaded(tab, t)[ip].failures) /\ Until(Loaded(tab, t)[ip].failures, t)
  <1> DEFINE f == tab[ip].failures
             g == Recent(tab[ip], t)
             c == Cardinality(Expired(tab[ip], t))
  <1>1. t \in Int
    BY DEF Time
  <1>2. tab[ip] \in Attempts /\ Loaded(tab, t)[ip].failures = g
    BY <1>1, LoadedShape
  <1>3. /\ Len(f) \in Nat /\ DOMAIN f = 1..Len(f)
        /\ c \in Nat /\ c <= Len(f) /\ Len(g) = Len(f) - c
        /\ g \in Seq(Time) /\ \A n \in 1..Len(g) : g[n] = f[c + n]
    <2>1. Len(f) \in Nat /\ DOMAIN f = 1..Len(f)
      BY <1>2, RecordShape
    <2>2. /\ Len(g) = Len(f) - c /\ g \in Seq(Time)
          /\ \A n \in 1..Len(g) : g[n] = f[c + n]
      BY <1>1, <1>2, RecentShape
    <2>3. c \in Nat /\ c <= Len(f)
      BY <1>1, <1>2, ExpiredCount
    <2>4. QED
      BY <2>1, <2>2, <2>3
  <1>4. Sorted(f) /\ Until(f, t)
    OBVIOUS
  <1> HIDE DEF f, g, c
  <1>5. DOMAIN g = 1..Len(g) /\ \A n \in 1..Len(g) : c + n \in DOMAIN f
    BY <1>3
  <1>6. Sorted(g)
    <2> SUFFICES ASSUME NEW i \in 1..Len(g), NEW j \in 1..Len(g), i <= j PROVE g[i] <= g[j]
      BY <1>5 DEF Sorted
    <2>1. c + i <= c + j
      BY <1>3
    <2>2. f[c + i] <= f[c + j]
      BY <1>4, <1>5, <2>1 DEF Sorted
    <2>3. QED
      BY <1>3, <2>2
  <1>7. Until(g, t)
    BY <1>3, <1>4, <1>5 DEF Until
  <1>8. QED
    BY <1>2, <1>6, <1>7

\* Counting a failure keeps the order, the times and what has to be covered,
\* with the failure in the history or, if it was not answered, without it.
LEMMA CountedCovers ==
    ASSUME NEW r \in Attempts \cup {None}, NEW s \in Seq(Time), NEW t \in Time,
           r # None => r.blocked = 0 /\ Sorted(r.failures) /\ Until(r.failures, t),
           Covered(s, r, t), Until(s, t)
    PROVE  /\ Sorted(Counted(r, t).failures) /\ Until(Counted(r, t).failures, t)
           /\ Covered(s, Counted(r, t), t)
           /\ Covered(Remember(s, t), Counted(r, t), t)
           /\ Until(Remember(s, t), t)
  <1> DEFINE f == IF r = None THEN <<>> ELSE r.failures
             g == Append(f, t)
             b == IF Len(g) >= MaxFailures THEN t + Lockout ELSE 0
             m == Remember(s, t)
             new == Counted(r, t)
  <1>1. t \in Nat /\ Len(s) \in Nat /\ \A i \in 1..Len(s) : s[i] \in Int
    BY DEF Time
  <1>2. /\ f \in Seq(Time) /\ Len(f) \in Nat /\ Sorted(f) /\ Until(f, t)
        /\ \A i \in 1..Len(f) : f[i] \in Int
    <2>1. CASE r = None
      <3>1. f = <<>> /\ f \in Seq(Time) /\ Len(f) = 0 /\ DOMAIN f = {}
        BY <2>1
      <3>2. Sorted(f) /\ Until(f, t)
        BY <3>1 DEF Sorted, Until
      <3>3. \A i \in 1..Len(f) : f[i] \in Int
        BY <3>1
      <3>4. QED
        BY <3>1, <3>2, <3>3
    <2>2. CASE r # None
      BY <2>2, RecordShape DEF Time
    <2>3. QED
      BY <2>1, <2>2
  <1>3. \A i \in 0..(Len(s) - 1) :
           s[Len(s) - i] > t - Span => i < Len(f) /\ s[Len(s) - i] <= f[Len(f) - i]
    BY DEF Covered
  <1>4. new = [failures |-> g, blocked |-> b]
    BY DEF Counted
  <1> HIDE DEF f
  <1>5. /\ g \in Seq(Time) /\ Len(g) = Len(f) + 1 /\ g[Len(f) + 1] = t
        /\ \A i \in 1..Len(f) : g[i] = f[i]
    BY <1>2, AppendProperties
  <1>6. /\ m \in Seq(Time)
        /\ Len(m) = IF Len(s) > MaxFailures THEN Len(s) ELSE Len(s) + 1
        /\ m[Len(m)] = t
        /\ \A i \in 1..(Len(m) - 1) : m[Len(m) - i] = s[Len(s) - (i - 1)]
    BY RememberShape
  <1>7. new # None /\ new.failures = g /\ new.blocked = b
    <2>1. b \in 0..(MaxClock + Lockout)
      BY <1>1, <1>5, <1>2 DEF Time
    <2>2. new \in Attempts
      BY <1>4, <1>5, <2>1 DEF Attempts, Time
    <2>3. new.failures = g /\ new.blocked = b
      BY <1>4
    <2>4. QED
      BY <2>2, <2>3, NoneIsNothing
  <1> HIDE DEF g, m, new
  <1>8. Until(g, t)
    <2> SUFFICES ASSUME NEW i \in 1..Len(g) PROVE g[i] <= t
      BY <1>5 DEF Until
    <2>1. CASE i = Len(f) + 1
      BY <1>1, <1>5, <2>1
    <2>2. CASE i # Len(f) + 1
      <3>1. i \in 1..Len(f) /\ i \in DOMAIN f
        BY <1>2, <1>5, <2>2
      <3>2. QED
        BY <1>2, <1>5, <3>1 DEF Until
    <2>3. QED
      BY <2>1, <2>2
  <1>9. Sorted(g)
    <2> SUFFICES ASSUME NEW i \in 1..Len(g), NEW j \in 1..Len(g), i <= j PROVE g[i] <= g[j]
      BY <1>5 DEF Sorted
    <2>1. CASE j = Len(f) + 1
      <3>1. g[i] <= t
        BY <1>5, <1>8 DEF Until
      <3>2. QED
        BY <1>5, <2>1, <3>1
    <2>2. CASE j # Len(f) + 1
      <3>1. i \in 1..Len(f) /\ j \in 1..Len(f) /\ i \in DOMAIN f /\ j \in DOMAIN f
        BY <1>2, <1>5, <2>2
      <3>2. f[i] <= f[j]
        BY <1>2, <3>1 DEF Sorted
      <3>3. QED
        BY <1>5, <3>1, <3>2
    <2>3. QED
      BY <2>1, <2>2
  <1>10. Until(m, t)
    <2> SUFFICES ASSUME NEW i \in 1..Len(m) PROVE m[i] <= t
      BY <1>6 DEF Until
    <2>1. Len(m) \in Nat /\ Len(m) <= Len(s) + 1
      BY <1>1, <1>6
    <2>2. CASE i = Len(m)
      BY <1>1, <1>6, <2>2
    <2>3. CASE i # Len(m)
      <3> DEFINE d == Len(m) - i
      <3>1. d \in 1..(Len(m) - 1) /\ Len(m) - d = i /\ Len(s) - (d - 1) \in 1..Len(s)
        BY <1>1, <2>1, <2>3
      <3>2. m[Len(m) - d] = s[Len(s) - (d - 1)]
        BY <1>6, <3>1
      <3>3. s[Len(s) - (d - 1)] <= t
        BY <3>1 DEF Until
      <3>4. QED
        BY <3>1, <3>2, <3>3
    <2>4. QED
      BY <2>2, <2>3
  <1>11. CASE b # 0
    <2>1. b = t + Lockout
      BY <1>11
    <2>2. \A i \in DOMAIN s : s[i] + Lockout <= b
      <3>1. \A i \in DOMAIN s : s[i] \in Int /\ s[i] <= t
        BY <1>1 DEF Until
      <3>2. QED
        BY <1>1, <2>1, <3>1
    <2>3. \A i \in DOMAIN m : m[i] + Lockout <= b
      <3>1. \A i \in DOMAIN m : m[i] \in Int /\ m[i] <= t
        BY <1>6, <1>10 DEF Until, Time
      <3>2. QED
        BY <1>1, <2>1, <3>1
    <2>4. QED
      BY <1>7, <1>8, <1>9, <1>10, <1>11, <2>2, <2>3 DEF Covered, new, m
  <1>12. CASE b = 0
    <2>1. \A i \in 0..(Len(s) - 1) :
             s[Len(s) - i] > t - Span => i + 1 < Len(g) /\ s[Len(s) - i] <= g[Len(g) - (i + 1)]
      <3> SUFFICES ASSUME NEW i \in 0..(Len(s) - 1), s[Len(s) - i] > t - Span
                   PROVE  i + 1 < Len(g) /\ s[Len(s) - i] <= g[Len(g) - (i + 1)]
        OBVIOUS
      <3>1. i < Len(f) /\ s[Len(s) - i] <= f[Len(f) - i]
        BY <1>3
      <3>2. i + 1 < Len(g) /\ Len(g) - (i + 1) = Len(f) - i /\ Len(f) - i \in 1..Len(f)
        BY <1>1, <1>2, <1>5, <3>1
      <3>3. g[Len(f) - i] = f[Len(f) - i]
        BY <1>5, <3>2
      <3>4. QED
        BY <3>1, <3>2, <3>3
    <2>2. Covered(s, new, t)
      <3> SUFFICES ASSUME NEW i \in 0..(Len(s) - 1), s[Len(s) - i] > t - Span
                   PROVE  i < Len(g) /\ s[Len(s) - i] <= g[Len(g) - i]
        BY <1>7, <1>12 DEF Covered
      <3>1. i + 1 < Len(g) /\ s[Len(s) - i] <= g[Len(g) - (i + 1)]
        BY <2>1
      <3>2. /\ Len(g) - (i + 1) \in 1..Len(g) /\ Len(g) - i \in 1..Len(g)
            /\ Len(g) - (i + 1) <= Len(g) - i
        BY <1>1, <1>2, <1>5, <3>1
      <3>3. g[Len(g) - (i + 1)] <= g[Len(g) - i]
        <4>1. DOMAIN g = 1..Len(g)
          BY <1>5
        <4>2. QED
          BY <1>9, <3>2, <4>1 DEF Sorted
      <3>4. /\ s[Len(s) - i] \in Int /\ g[Len(g) - (i + 1)] \in Int /\ g[Len(g) - i] \in Int
        <4>1. Len(s) - i \in 1..Len(s)
          BY <1>1
        <4>2. \A n \in 1..Len(g) : g[n] \in Int
          BY SMTT(30), <1>5 DEF Time
        <4>3. QED
          BY <1>1, <3>2, <4>1, <4>2
      <3>5. i < Len(g)
        BY <1>1, <1>2, <1>5, <3>1
      <3>6. QED
        BY SMTT(30), <3>1, <3>3, <3>4, <3>5
    <2>3. Covered(m, new, t)
      <3> SUFFICES ASSUME NEW i \in 0..(Len(m) - 1), m[Len(m) - i] > t - Span
                   PROVE  i < Len(g) /\ m[Len(m) - i] <= g[Len(g) - i]
        BY <1>7, <1>12 DEF Covered
      <3>1. Len(m) \in Nat /\ Len(m) <= Len(s) + 1
        BY <1>1, <1>6
      <3>2. CASE i = 0
        <4>1. Len(m) - i = Len(m) /\ Len(g) - i = Len(g) /\ Len(g) = Len(f) + 1
          BY <1>2, <1>5, <3>1, <3>2
        <4>2. QED
          BY <1>1, <1>2, <1>5, <1>6, <3>2, <4>1
      <3>3. CASE i # 0
        <4>1. i \in 1..(Len(m) - 1) /\ i - 1 \in 0..(Len(s) - 1)
          BY <1>1, <3>1, <3>3
        <4>2. m[Len(m) - i] = s[Len(s) - (i - 1)]
          BY <1>6, <4>1
        <4>3. (i - 1) + 1 < Len(g) /\ s[Len(s) - (i - 1)] <= g[Len(g) - ((i - 1) + 1)]
          BY <2>1, <4>1, <4>2
        <4>4. (i - 1) + 1 = i
          BY <4>1
        <4>5. QED
          BY <4>2, <4>3, <4>4
      <3>4. QED
        BY <3>2, <3>3
    <2>4. QED
      BY <1>7, <1>8, <1>9, <1>10, <2>2, <2>3 DEF new, m
  <1>13. QED
    BY <1>11, <1>12

\* At most MaxFailures of the passwords that are younger than Span are in the
\* record, so the history of an unlocked address is as spread as promised.
LEMMA RateStep ==
    ASSUME NEW r \in Attempts \cup {None}, NEW s \in Seq(Time), NEW t \in Time,
           r # None => r.blocked = 0 /\ Len(r.failures) < MaxFailures,
           Covered(s, r, t), Len(s) <= MaxFailures + 1
    PROVE  /\ Len(Remember(s, t)) <= MaxFailures + 1
           /\ Len(Remember(s, t)) > MaxFailures =>
                 Remember(s, t)[MaxFailures + 1] - Remember(s, t)[1] >= Span
  <1> DEFINE m == Remember(s, t)
             f == IF r = None THEN <<>> ELSE r.failures
             i == MaxFailures - 1
  <1>1. t \in Int /\ Len(s) \in Nat /\ \A n \in 1..Len(s) : s[n] \in Int
    BY DEF Time
  <1>2. /\ Len(m) = IF Len(s) > MaxFailures THEN Len(s) ELSE Len(s) + 1
        /\ m[Len(m)] = t
        /\ \A n \in 1..(Len(m) - 1) : m[Len(m) - n] = s[Len(s) - (n - 1)]
    BY RememberShape
  <1> HIDE DEF m
  <1>3. Len(m) <= MaxFailures + 1
    BY <1>1, <1>2
  <1>4. ASSUME Len(m) > MaxFailures PROVE m[MaxFailures + 1] - m[1] >= Span
    <2>1. /\ Len(m) = MaxFailures + 1 /\ MaxFailures \in 1..(Len(m) - 1)
          /\ Len(m) - MaxFailures = 1 /\ i \in 0..(Len(s) - 1)
      BY SMTT(30), <1>1, <1>2, <1>3, <1>4
    <2>2. m[1] = s[Len(s) - i]
      BY <1>2, <2>1
    <2>3. f \in Seq(Time) /\ Len(f) \in Nat /\ Len(f) <= i
      <3>1. CASE r = None
        BY <3>1
      <3>2. CASE r # None
        BY <3>2, RecordShape
      <3>3. QED
        BY <3>1, <3>2
    <2>4. \A n \in 0..(Len(s) - 1) : s[Len(s) - n] > t - Span => n < Len(f)
      BY DEF Covered
    <2> HIDE DEF f
    <2>5. ~(s[Len(s) - i] > t - Span)
      BY <2>1, <2>3, <2>4
    <2>6. s[Len(s) - i] \in Int /\ Span \in Int
      BY <1>1, <2>1, SpanFacts
    <2>7. m[MaxFailures + 1] = t
      BY <1>2, <2>1
    <2>8. QED
      BY <1>1, <2>2, <2>5, <2>6, <2>7
  <1>5. QED
    BY <1>3, <1>4 DEF m

\* Table and history stay consistent as time passes and as records expire.
LEMMA ConsistentLater ==
    ASSUME NEW tab \in [Ips -> Attempts \cup {None}], NEW m \in [Ips -> Seq(Time)],
           NEW t \in Int, NEW u \in Int, t <= u, Consistent(tab, m, t)
    PROVE  Consistent(tab, m, u)
  <1> SUFFICES ASSUME NEW ip \in Ips
               PROVE  /\ Until(m[ip], u)
                      /\ tab[ip] # None => Sorted(tab[ip].failures) /\ Until(tab[ip].failures, u)
                      /\ Covered(m[ip], tab[ip], u)
    BY DEF Consistent
  <1>1. /\ Until(m[ip], t) /\ Covered(m[ip], tab[ip], t)
        /\ tab[ip] # None => Sorted(tab[ip].failures) /\ Until(tab[ip].failures, t)
    BY DEF Consistent
  <1>2. m[ip] \in Seq(Time)
    OBVIOUS
  <1>3. tab[ip] # None => tab[ip].failures \in Seq(Time)
    BY RecordShape
  <1>4. QED
    BY <1>1, <1>2, <1>3, UntilLater, CoveredLater

LEMMA LoadedConsistent ==
    ASSUME NEW tab \in [Ips -> Attempts \cup {None}], NEW m \in [Ips -> Seq(Time)],
           NEW t \in Time, Consistent(tab, m, t)
    PROVE  Consistent(Loaded(tab, t), m, t)
  <1> SUFFICES ASSUME NEW ip \in Ips
               PROVE  /\ Until(m[ip], t)
                      /\ Loaded(tab, t)[ip] # None =>
                            /\ Sorted(Loaded(tab, t)[ip].failures)
                            /\ Until(Loaded(tab, t)[ip].failures, t)
                      /\ Covered(m[ip], Loaded(tab, t)[ip], t)
    BY DEF Consistent
  <1>1. /\ m[ip] \in Seq(Time) /\ Until(m[ip], t) /\ Covered(m[ip], tab[ip], t)
        /\ tab[ip] # None => Sorted(tab[ip].failures) /\ Until(tab[ip].failures, t)
    BY DEF Consistent
  <1>2. Covered(m[ip], Loaded(tab, t)[ip], t)
    BY <1>1, LoadedCovers
  <1>3. ASSUME Loaded(tab, t)[ip] # None
        PROVE  /\ Sorted(Loaded(tab, t)[ip].failures)
               /\ Until(Loaded(tab, t)[ip].failures, t)
    <2>1. tab[ip] # None
      BY <1>3 DEF Loaded
    <2>2. QED
      BY <1>1, <1>3, <2>1, LoadedSorted
  <1>4. QED
    BY <1>1, <1>2, <1>3

\* An attempt that is recorded keeps them consistent, and the rate bounded.
LEMMA RecordConsistent ==
    ASSUME StateInv, HistoryInv, RateBounded, NEW w \in Workers, Record(w)
    PROVE  /\ Consistent(table', misses', now[w])
           /\ \A ip \in Ips : /\ Len(misses'[ip]) <= MaxFailures + 1
                              /\ Len(misses'[ip]) > MaxFailures =>
                                    misses'[ip][MaxFailures + 1] - misses'[ip][1] >= Span
  <1> DEFINE ips == Loaded(table, now[w])
             me == from[w]
             t == now[w]
             r == ips[me]
             s == misses[me]
  <1>1. /\ TypeOK /\ table \in [Ips -> Attempts \cup {None}] /\ misses \in [Ips -> Seq(Time)]
        /\ TableOK(table)
    BY DEF StateInv, TypeOK, TableOK, Time
  <1>2. /\ t \in Time /\ t \in Int /\ me \in Ips /\ ~Waits(ips, me, t)
        /\ Consistent(table, misses, t)
    BY <1>1 DEF Record, StateInv, Limited, HistoryInv, TypeOK, Time
  <1>3. Consistent(ips, misses, t)
    BY <1>1, <1>2, LoadedConsistent
  <1>4. TableOK(ips) /\ ips \in [Ips -> Attempts \cup {None}]
    BY <1>1, <1>2, LoadedOK DEF TableOK
  <1>5. r # None => r.blocked = 0
    BY <1>1, <1>2, Unlocked
  <1>6. r # None => Len(r.failures) < MaxFailures
    <2>1. ASSUME r # None PROVE Len(r.failures) < MaxFailures
      <3>1. Len(r.failures) < MaxFailures + (IF r.blocked = 0 THEN 0 ELSE 1)
        BY <1>2, <1>4, <2>1 DEF TableOK
      <3>2. QED
        BY <1>5, <2>1, <3>1
    <2>2. QED
      BY <2>1
  <1>7. \A ip \in Ips : /\ Len(misses[ip]) <= MaxFailures + 1
                        /\ Len(misses[ip]) > MaxFailures =>
                              misses[ip][MaxFailures + 1] - misses[ip][1] >= Span
    BY DEF HistoryInv, RateBounded
  <1>8. CASE UNCHANGED <<table, misses>>
    BY <1>2, <1>7, <1>8
  <1>9. CASE sess[w] # None /\ table' = Recorded(w) /\ misses' = [misses EXCEPT ![me] = <<>>]
    <2>1. /\ table'[me] = None /\ \A ip \in Ips : ip # me => table'[ip] = ips[ip]
      BY <1>2, <1>4, <1>9 DEF Recorded
    <2>2. /\ misses'[me] = <<>> /\ \A ip \in Ips : ip # me => misses'[ip] = misses[ip]
      BY <1>1, <1>2, <1>9
    <2>3. Len(<<>>) = 0 /\ DOMAIN <<>> = {}
      OBVIOUS
    <2>4. Consistent(table', misses', t)
      <3>1. Until(misses'[me], t) /\ Covered(misses'[me], table'[me], t)
        BY <2>1, <2>2, <2>3 DEF Until, Covered
      <3>2. QED
        BY <1>3, <2>1, <2>2, <3>1 DEF Consistent
    <2>5. \A ip \in Ips : /\ Len(misses'[ip]) <= MaxFailures + 1
                          /\ Len(misses'[ip]) > MaxFailures =>
                                misses'[ip][MaxFailures + 1] - misses'[ip][1] >= Span
      BY <1>7, <2>2, <2>3
    <2>6. QED
      BY <2>4, <2>5
  <1>10. CASE /\ sess[w] = None /\ table' = Recorded(w)
              /\ misses' \in {misses, [misses EXCEPT ![me] = Remember(s, t)]}
    <2>1. /\ r \in Attempts \cup {None} /\ s \in Seq(Time)
          /\ Covered(s, r, t) /\ Until(s, t) /\ Len(s) <= MaxFailures + 1
          /\ r # None => Sorted(r.failures) /\ Until(r.failures, t)
      BY <1>1, <1>2, <1>3, <1>4, <1>7 DEF Consistent
    <2>2. /\ Sorted(Counted(r, t).failures) /\ Until(Counted(r, t).failures, t)
          /\ Covered(s, Counted(r, t), t)
          /\ Covered(Remember(s, t), Counted(r, t), t)
          /\ Until(Remember(s, t), t)
      BY <1>2, <1>5, <2>1, CountedCovers
    <2>3. /\ Len(Remember(s, t)) <= MaxFailures + 1
          /\ Len(Remember(s, t)) > MaxFailures =>
                Remember(s, t)[MaxFailures + 1] - Remember(s, t)[1] >= Span
      BY <1>2, <1>5, <1>6, <2>1, RateStep
    <2>4. /\ table'[me] = Counted(r, t) /\ \A ip \in Ips : ip # me => table'[ip] = ips[ip]
      BY <1>2, <1>4, <1>10 DEF Recorded
    <2>5. /\ misses'[me] \in {s, Remember(s, t)}
          /\ \A ip \in Ips : ip # me => misses'[ip] = misses[ip]
      BY <1>1, <1>2, <1>10
    <2> HIDE DEF s, r, t, me, ips
    <2>6. Consistent(table', misses', t)
      <3>1. Until(misses'[me], t) /\ Covered(misses'[me], table'[me], t)
        BY <2>1, <2>2, <2>4, <2>5
      <3>2. Sorted(table'[me].failures) /\ Until(table'[me].failures, t)
        BY <2>2, <2>4
      <3>3. QED
        BY <1>3, <2>4, <2>5, <3>1, <3>2 DEF Consistent
    <2>7. \A ip \in Ips : /\ Len(misses'[ip]) <= MaxFailures + 1
                          /\ Len(misses'[ip]) > MaxFailures =>
                                misses'[ip][MaxFailures + 1] - misses'[ip][1] >= Span
      <3>1. Len(s) > MaxFailures => s[MaxFailures + 1] - s[1] >= Span
        BY <1>2, <1>7 DEF s
      <3>2. QED
        BY <1>7, <2>1, <2>3, <2>5, <3>1
    <2>8. QED
      BY <2>6, <2>7 DEF t
  <1>11. QED
    <2>1. CASE sess[w] # None
      <3>1. \/ table' = Recorded(w) /\ misses' = [misses EXCEPT ![me] = <<>>]
            \/ UNCHANGED <<table, misses>>
        BY <2>1 DEF Record
      <3>2. QED
        BY <1>8, <1>9, <2>1, <3>1
    <2>2. CASE sess[w] = None
      <3>1. misses = [misses EXCEPT ![me] = @]
        BY <1>1
      <3>2. \/ table' = Recorded(w) /\ misses' = [misses EXCEPT ![me] = Remember(@, t)]
            \/ table' = Recorded(w) /\ misses' = [misses EXCEPT ![me] = @]
            \/ UNCHANGED <<table, misses>>
        BY <2>2 DEF Record
      <3>3. QED
        BY <1>8, <1>10, <2>2, <3>1, <3>2
    <2>3. QED
      BY <2>1, <2>2

LEMMA InitHistory == Init => HistoryInv /\ RateBounded
  <1> SUFFICES ASSUME Init PROVE HistoryInv /\ RateBounded
    OBVIOUS
  <1>1. /\ \A ip \in Ips : misses[ip] = <<>> /\ table[ip] = None
        /\ \A w \in Workers : pc[w] = "down"
    BY DEF Init
  <1>2. Len(<<>>) = 0 /\ DOMAIN <<>> = {}
    OBVIOUS
  <1>3. Consistent(table, misses, clock)
    BY <1>1, <1>2 DEF Consistent, Until, Covered
  <1>4. \A ip \in Ips : Len(misses[ip]) = 0
    BY <1>1, <1>2
  <1>5. QED
    BY <1>1, <1>3, <1>4 DEF HistoryInv, RateBounded

\* A step that leaves table and history alone; whoever is in an attempt was in
\* it before or begins it now.
LEMMA UntouchedKeeps ==
    ASSUME TypeOK, HistoryInv, RateBounded, UNCHANGED <<table, misses>>,
           clock' \in Int, clock <= clock',
           \A w \in Workers : pc'[w] \in {"limited", "checked"} =>
              \/ pc[w] \in {"limited", "checked"} /\ now'[w] = now[w]
              \/ now'[w] = clock
    PROVE  HistoryInv' /\ RateBounded'
  <1>1. /\ table \in [Ips -> Attempts \cup {None}] /\ misses \in [Ips -> Seq(Time)]
        /\ clock \in Int
    BY DEF TypeOK, TableOK, Time
  <1>2. Consistent(table, misses, clock')
    BY <1>1, ConsistentLater DEF HistoryInv
  <1>3. \A w \in Workers : pc'[w] \in {"limited", "checked"} =>
           Consistent(table, misses, now'[w])
    BY DEF HistoryInv
  <1>4. QED
    BY <1>2, <1>3 DEF HistoryInv, RateBounded

\* Every step keeps the history covered and the rate bounded.
LEMMA HistoryStep ==
    StateInv /\ HistoryInv /\ RateBounded /\ [Next]_vars => HistoryInv' /\ RateBounded'
  <1> SUFFICES ASSUME StateInv, HistoryInv, RateBounded, [Next]_vars
               PROVE  HistoryInv' /\ RateBounded'
    OBVIOUS
  <1>1. /\ TypeOK /\ table \in [Ips -> Attempts \cup {None}] /\ misses \in [Ips -> Seq(Time)]
        /\ clock \in Int /\ clock \in Time
    BY DEF StateInv, TypeOK, TableOK, Time
  <1>2. CASE Tick \/ Migrate \/ MigrateEnv \/ Backup \/ Restore \/ UNCHANGED vars
    <2>1. UNCHANGED <<table, misses, pc, now>> /\ clock' \in {clock, clock + 1}
      BY <1>2 DEF Tick, Migrate, MigrateEnv, Backup, Restore, vars, history, locals
    <2>2. clock' \in Int /\ clock <= clock'
      BY <1>1, <2>1
    <2>3. QED
      BY <1>1, <2>1, <2>2, UntouchedKeeps
  <1>3. ASSUME NEW w \in Workers,
               \/ Boot(w) \/ Start(w) \/ Stop(w) \/ Leave(w)
               \/ \E c \in cookies : Admit(w, c)
               \/ \E current, new \in Passwords : ChangePassword(w, current, new)
        PROVE  HistoryInv' /\ RateBounded'
    <2>1. /\ UNCHANGED <<table, misses, clock>>
          /\ \E label \in {"boot", "idle", "down", "admitted"} : Goto(w, label)
          /\ now' = now \/ Forget(w)
      BY <1>3 DEF Boot, Start, Stop, Leave, Admit, ChangePassword, Finish, history
    <2>2. \A v \in Workers : pc'[v] \in {"limited", "checked"} => v # w /\ pc'[v] = pc[v]
      BY <1>1, <2>1, GotoFacts
    <2>3. \A v \in Workers : v # w => now'[v] = now[v]
      BY <1>1, <2>1, FinishFacts
    <2>4. QED
      BY <1>1, <2>1, <2>2, <2>3, UntouchedKeeps
  <1>4. ASSUME NEW w \in Workers, NEW p \in Passwords, Authenticate(w, p)
        PROVE  HistoryInv' /\ RateBounded'
    <2>1. /\ UNCHANGED <<table, misses, clock, now>> /\ pc[w] = "limited"
          /\ Goto(w, "checked")
      BY <1>4 DEF Authenticate, history
    <2>2. \A v \in Workers : pc'[v] \in {"limited", "checked"} => pc[v] \in {"limited", "checked"}
      BY <1>1, <2>1, GotoFacts
    <2>3. QED
      BY <1>1, <2>1, <2>2, UntouchedKeeps
  <1>5. ASSUME NEW w \in Workers, NEW ip \in Ips, Attempt(w, ip)
        PROVE  HistoryInv' /\ RateBounded'
    <2>1. lock = None /\ UNCHANGED <<misses, clock>>
      BY <1>5 DEF Attempt, history
    <2>2. \A v \in Workers : pc[v] \notin {"limited", "checked"}
      BY <2>1, NoneIsNothing DEF StateInv, Limited
    <2>3. CASE UNCHANGED <<table, pc>>
      BY <1>1, <2>1, <2>2, <2>3, UntouchedKeeps
    <2>4. CASE table' = Loaded(table, clock) /\ UNCHANGED pc
      <3>1. Consistent(table', misses', clock')
        BY <1>1, <2>1, <2>4, LoadedConsistent DEF HistoryInv
      <3>2. QED
        BY <2>1, <2>2, <2>4, <3>1 DEF HistoryInv, RateBounded
    <2>5. CASE UNCHANGED table /\ Goto(w, "limited") /\ now' = [now EXCEPT ![w] = clock]
      <3>1. now'[w] = clock /\ \A v \in Workers : v # w => pc'[v] = pc[v]
        BY <1>1, <2>5, GotoFacts DEF TypeOK
      <3>2. QED
        BY <1>1, <2>1, <2>2, <2>5, <3>1, UntouchedKeeps
    <2>6. QED
      BY <1>5, <2>3, <2>4, <2>5 DEF Attempt, Refused
  <1>6. ASSUME NEW w \in Workers, Record(w) PROVE HistoryInv' /\ RateBounded'
    <2>1. /\ Consistent(table', misses', now[w])
          /\ \A ip \in Ips : /\ Len(misses'[ip]) <= MaxFailures + 1
                             /\ Len(misses'[ip]) > MaxFailures =>
                                   misses'[ip][MaxFailures + 1] - misses'[ip][1] >= Span
      BY <1>6, RecordConsistent
    <2>2. now[w] \in Int /\ now[w] <= clock /\ clock' = clock /\ pc[w] = "checked"
      BY <1>1, <1>6 DEF Record, StateInv, Limited, Time, TypeOK
    <2>3. /\ table' \in [Ips -> Attempts \cup {None}] /\ misses' \in [Ips -> Seq(Time)]
      <3>1. TypeOK'
        BY <1>6, RecordKeeps DEF StateInv
      <3>2. QED
        BY <3>1 DEF TypeOK, TableOK, Time
    <2>4. Consistent(table', misses', clock')
      BY <1>1, <2>1, <2>2, <2>3, ConsistentLater
    <2>5. \A v \in Workers : pc'[v] \notin {"limited", "checked"}
      <3>1. lock = w
        BY <2>2 DEF StateInv, Limited
      <3>2. pc'[w] = "idle" /\ \A v \in Workers : v # w => pc'[v] = pc[v]
        BY <1>1, <1>6, GotoFacts DEF Record, Finish
      <3>3. QED
        BY <3>1, <3>2 DEF StateInv, Limited
    <2>6. QED
      BY <2>1, <2>4, <2>5 DEF HistoryInv, RateBounded
  <1>7. QED
    BY <1>2, <1>3, <1>4, <1>5, <1>6 DEF Next

\* The invariant is inductive.
THEOREM Inductive == Spec => []IInv
  <1>1. Init => IInv
    BY InitState, InitHistory DEF IInv
  <1>2. IInv /\ [Next]_vars => IInv'
    BY StateStep, HistoryStep DEF IInv
  <1>3. QED
    BY <1>1, <1>2, PTL DEF Spec

\* The rate of refused passwords is bounded for any number of workers and
\* addresses and whatever writes fail (LoginLimiter.attempt).
THEOREM RateAlwaysBounded == Spec => []RateBounded
  <1>1. IInv => RateBounded
    BY DEF IInv
  <1>2. QED
    BY <1>1, Inductive, PTL

-----------------------------------------------------------------------------
(* The waiting time an address is told *)

\* A record that will stay for a while.
Lasting(r) == r.blocked # 0 \/ Len(r.failures) > 0

\* A record that lasts goes at a time of its own, and until then _load keeps it.
LEMMA AliveUntil ==
    ASSUME NEW r \in Attempts, Sorted(r.failures), NEW t \in Nat
    PROVE  /\ Lasting(r) => Expiry(r) \in Nat
           /\ Alive(r, t) <=> Lasting(r) /\ Expiry(r) > t
  <1> DEFINE n == Len(r.failures)
             c == Cardinality(Expired(r, t))
  <1>1. n \in Nat /\ r.blocked \in Nat /\ c \in Nat /\ c <= n
    BY RecordShape, ExpiredCount
  <1>2. Window \in Nat
    OBVIOUS
  <1>3. CASE r.blocked # 0
    BY <1>1, <1>3 DEF Expiry, Alive, Lasting
  <1>4. CASE r.blocked = 0 /\ n = 0
    <2>1. Len(Recent(r, t)) = 0 /\ Recent(r, t) \in Seq(Time)
      BY <1>1, <1>4, RecentShape
    <2>2. Recent(r, t) = <<>>
      BY <2>1, EmptySeq
    <2>3. QED
      BY <1>4, <2>2 DEF Alive, Lasting
  <1>5. CASE r.blocked = 0 /\ n > 0
    <2>1. n \in 1..Len(r.failures) /\ t \in Int
      BY <1>1, <1>5
    <2>2. r.failures[n] \in Time /\ Expiry(r) = r.failures[n] + Window
      BY <1>5, <2>1, RecordShape DEF Expiry
    <2>3. r.failures[n] <= t - Window <=> n <= c
      BY ONLY <2>1, ExpiredFirst, Sorted(r.failures), r \in Attempts
    <2> DEFINE last == r.failures[n]
    <2>4. /\ last \in Nat /\ Expiry(r) = last + Window
          /\ last <= t - Window <=> n <= c
      BY <2>2, <2>3 DEF Time
    <2> HIDE DEF n, c, last
    <2>5. Expiry(r) \in Nat /\ (Expiry(r) > t <=> n > c)
      BY <1>1, <1>2, <2>4
    <2>6. Recent(r, t) \in Seq(Time) /\ Len(Recent(r, t)) = n - c
      BY <2>1, RecentShape DEF n, c
    <2>7. Recent(r, t) # <<>> <=> n > c
      BY <1>1, <2>6, EmptySeq
    <2>8. QED
      BY <1>5, <2>5, <2>7 DEF Alive, Lasting, n
  <1>6. QED
    BY <1>1, <1>3, <1>4, <1>5

\* _load does not move the time a record goes at.
LEMMA LoadedExpiry ==
    ASSUME NEW tab \in [Ips -> Attempts \cup {None}], NEW t \in Nat, NEW ip \in Ips,
           Loaded(tab, t)[ip] # None
    PROVE  /\ tab[ip] \in Attempts /\ Alive(tab[ip], t)
           /\ Loaded(tab, t)[ip].blocked = tab[ip].blocked
           /\ Expiry(Loaded(tab, t)[ip]) = Expiry(tab[ip])
  <1> DEFINE r == tab[ip]
             s == Loaded(tab, t)[ip]
             c == Cardinality(Expired(r, t))
  <1>1. /\ r \in Attempts /\ Alive(r, t) /\ s \in Attempts
        /\ s.failures = Recent(r, t) /\ s.blocked = r.blocked
    BY LoadedShape
  <1>2. CASE r.blocked # 0
    BY <1>1, <1>2 DEF Expiry
  <1>3. CASE r.blocked = 0
    <2>1. Recent(r, t) # <<>> /\ Recent(r, t) \in Seq(Time)
      BY <1>1, <1>3, RecentShape DEF Alive
    <2>2. /\ Len(Recent(r, t)) = Len(r.failures) - c /\ c \in Nat
          /\ Len(r.failures) \in Nat /\ Len(Recent(r, t)) \in Nat
          /\ \A n \in 1..Len(Recent(r, t)) : Recent(r, t)[n] = r.failures[c + n]
      <3>1. c \in Nat /\ Len(r.failures) \in Nat /\ Len(Recent(r, t)) \in Nat
        BY <1>1, <2>1, ExpiredCount, RecordShape
      <3>2. t \in Int
        OBVIOUS
      <3>3. /\ Len(Recent(r, t)) = Len(r.failures) - c
            /\ \A n \in 1..Len(Recent(r, t)) : Recent(r, t)[n] = r.failures[c + n]
        BY <1>1, <3>2, RecentShape
      <3>4. QED
        BY <3>1, <3>3
    <2>3. Len(Recent(r, t)) > 0
      BY <2>1, <2>2, EmptySeq
    <2>4. s.failures[Len(s.failures)] = r.failures[Len(r.failures)]
      <3>1. c + Len(Recent(r, t)) = Len(r.failures)
        BY <2>2
      <3>2. Len(Recent(r, t)) \in 1..Len(Recent(r, t))
        BY <2>2, <2>3
      <3>3. QED
        BY <1>1, <2>2, <3>1, <3>2
    <2> HIDE DEF r, s
    <2>5. Expiry(s) = Expiry(r)
      BY <1>1, <1>3, <2>4 DEF Expiry
    <2>6. QED
      BY <1>1, <2>5 DEF r, s
  <1>4. QED
    BY <1>2, <1>3

\* The addresses with a record at time t are those whose record goes later.
LEMMA UsedUntil ==
    ASSUME NEW tab \in [Ips -> Attempts \cup {None}], NEW t \in Nat,
           \A ip \in Ips : tab[ip] # None => Sorted(tab[ip].failures)
    PROVE  Used(Loaded(tab, t)) =
              {ip \in Ips : tab[ip] # None /\ Lasting(tab[ip]) /\ Expiry(tab[ip]) > t}
  <1>1. ASSUME NEW ip \in Ips
        PROVE  Loaded(tab, t)[ip] # None <=>
                  tab[ip] # None /\ Lasting(tab[ip]) /\ Expiry(tab[ip]) > t
    <2>1. tab[ip] # None => (Alive(tab[ip], t) <=> Lasting(tab[ip]) /\ Expiry(tab[ip]) > t)
      BY AliveUntil
    <2>2. Loaded(tab, t)[ip] # None <=> tab[ip] # None /\ Alive(tab[ip], t)
      <3>1. CASE tab[ip] # None /\ Alive(tab[ip], t)
        <4> DEFINE kept == [failures |-> Recent(tab[ip], t), blocked |-> tab[ip].blocked]
        <4>1. Loaded(tab, t)[ip] = kept
          BY <3>1 DEF Loaded
        <4>2. kept \in Attempts
          BY <3>1, RecentShape DEF Attempts, Time
        <4>3. QED
          BY <3>1, <4>1, <4>2, NoneIsNothing
      <3>2. CASE ~(tab[ip] # None /\ Alive(tab[ip], t))
        BY <3>2 DEF Loaded
      <3>3. QED
        BY <3>1, <3>2
    <2>3. QED
      BY <2>1, <2>2
  <1>2. QED
    BY <1>1 DEF Used

LEMMA LeastExpiry ==
    ASSUME NEW T \in SUBSET Nat, T # {}
    PROVE  Min(T) \in T /\ \A y \in T : Min(T) <= y
  <1>1. PICK x \in T : \A y \in T : ~(<<y, x>> \in OpToRel(<, Nat))
    BY NatLessThanWellFounded, WFMin
  <1>2. \A y \in T : ~(y < x)
    BY <1>1 DEF OpToRel
  <1>3. \A y \in T : x <= y
    BY <1>2
  <1>4. QED
    BY <1>3 DEF Min

LEMMA AtLeastOne ==
    ASSUME NEW x \in Int
    PROVE  /\ Max({1, x}) \in Int /\ Max({1, x}) >= 1
           /\ x >= 1 => Max({1, x}) = x
  <1>1. \E y \in {1, x} : \A z \in {1, x} : y >= z
    <2>1. CASE x >= 1
      BY <2>1
    <2>2. CASE ~(x >= 1)
      BY <2>2
    <2>3. QED
      BY <2>1, <2>2
  <1>2. Max({1, x}) \in {1, x} /\ \A z \in {1, x} : Max({1, x}) >= z
    BY <1>1 DEF Max
  <1>3. QED
    BY <1>2

\* A locked address is refused until its lockout ends, and then there is room.
LEMMA LockedRetry ==
    ASSUME NEW tab, TableOK(tab), \A j \in Ips : tab[j] # None => Sorted(tab[j].failures),
           NEW ip \in Ips, NEW t \in Nat, NEW now0 \in Nat, now0 <= t,
           Loaded(tab, now0)[ip] # None, tab[ip].blocked > now0
    PROVE  IF t < tab[ip].blocked THEN Retry(Loaded(tab, t), ip, t) = tab[ip].blocked - t
           ELSE t = tab[ip].blocked => Retry(Loaded(tab, t), ip, t) = 0
  <1> DEFINE b == tab[ip].blocked
             new == Loaded(tab, t)
  <1>1. tab \in [Ips -> Attempts \cup {None}]
    BY DEF TableOK
  <1>2. tab[ip] \in Attempts /\ b \in Nat /\ b # 0 /\ tab[ip] # None
    BY <1>1, LoadedExpiry, RecordShape, NoneIsNothing
  <1>3. Lasting(tab[ip]) /\ Expiry(tab[ip]) = b
    BY <1>2 DEF Lasting, Expiry
  <1>4. ip \in Used(new) <=> b > t
    BY <1>1, <1>2, <1>3, UsedUntil
  <1>5. ASSUME t < b
        PROVE  Retry(new, ip, t) = b - t
    <2>1. new[ip] # None
      BY <1>2, <1>4, <1>5 DEF Used
    <2>2. new[ip].blocked = b
      BY <1>1, <2>1, LoadedExpiry
    <2>3. Waits(new, ip, t)
      BY <1>2, <1>5, <2>1, <2>2 DEF Waits
    <2> HIDE DEF new, b
    <2>4. QED
      BY <2>1, <2>2, <2>3 DEF Retry
  <1>6. ASSUME t = b
        PROVE  Retry(new, ip, t) = 0
    <2>1. new[ip] = None
      BY <1>2, <1>4, <1>6 DEF Used
    <2>2. Used(new) \subseteq Used(tab) \ {ip}
      BY <1>1, <2>1, LoadedShape, NoneIsNothing DEF Used
    <2>3. ip \in Used(tab)
      BY <1>2 DEF Used
    <2>4. Cardinality(Used(new)) <= Cardinality(Used(tab)) - 1
      <3>1. /\ IsFiniteSet(Used(tab) \ {ip})
            /\ Cardinality(Used(tab) \ {ip}) = Cardinality(Used(tab)) - 1
        BY <2>3, UsedFinite, FS_RemoveElement
      <3>2. QED
        BY <2>2, <3>1, FS_Subset
    <2>5. Cardinality(Used(tab)) <= MaxEntries
      BY DEF TableOK
    <2>6. ~Full(new)
      BY <2>4, <2>5, UsedFinite DEF Full
    <2>7. ~Waits(new, ip, t)
      BY <2>1, <2>6 DEF Waits
    <2>8. QED
      BY <2>7 DEF Retry
  <1>7. QED
    BY <1>5, <1>6

\* A new address is refused until the first record of a full table goes.
LEMMA FullRetry ==
    ASSUME NEW tab, TableOK(tab), \A j \in Ips : tab[j] # None => Sorted(tab[j].failures),
           NEW ip \in Ips, NEW t \in Nat, NEW now0 \in Nat, now0 <= t,
           Loaded(tab, now0)[ip] = None, Full(Loaded(tab, now0))
    PROVE  LET m == Min({Expiry(Loaded(tab, now0)[j]) : j \in Used(Loaded(tab, now0))})
           IN  /\ m \in Nat /\ m > now0
               /\ t < m => /\ Retry(Loaded(tab, t), ip, t) \in Int
                           /\ Retry(Loaded(tab, t), ip, t) >= 1
               /\ t = m => Retry(Loaded(tab, t), ip, t) = 0
               /\ t = now0 => Retry(Loaded(tab, t), ip, t) = m - now0
  <1> DEFINE old == Loaded(tab, now0)
             T == {Expiry(old[j]) : j \in Used(old)}
             m == Min(T)
             new == Loaded(tab, t)
             Lasts(j, u) == tab[j] # None /\ Lasting(tab[j]) /\ Expiry(tab[j]) > u
  <1>1. tab \in [Ips -> Attempts \cup {None}]
    BY DEF TableOK
  <1>2. Used(old) = {j \in Ips : Lasts(j, now0)}
    BY <1>1, UsedUntil
  <1>3. Used(new) = {j \in Ips : Lasts(j, t)}
    BY <1>1, UsedUntil
  <1>4. \A j \in Used(old) : old[j] # None /\ Expiry(old[j]) = Expiry(tab[j])
    BY <1>1, LoadedExpiry DEF Used
  <1>5. \A j \in Ips : Lasts(j, now0) => Expiry(tab[j]) \in Nat
    BY <1>1, AliveUntil
  <1> HIDE DEF old, new
  <1>6. \A j \in Used(old) : Expiry(old[j]) \in Nat /\ Expiry(old[j]) > now0
    BY <1>2, <1>4, <1>5
  <1>7. Used(old) # {}
    <2>1. Cardinality(Used(old)) >= MaxEntries
      BY DEF Full, old
    <2>2. Cardinality(Used(old)) # 0
      BY <2>1, UsedFinite
    <2>3. QED
      BY <2>2, FS_EmptySet
  <1>8. T \in SUBSET Nat /\ T # {}
    BY <1>6, <1>7
  <1>9. m \in T /\ \A y \in T : m <= y
    BY <1>8, LeastExpiry
  <1>10. PICK first \in Used(old) : m = Expiry(old[first])
    BY <1>9
  <1>11. m \in Nat /\ m > now0 /\ \A j \in Used(old) : m <= Expiry(old[j])
    BY <1>6, <1>9, <1>10
  <1> HIDE DEF m, T
  <1>12. Used(new) \subseteq Used(old)
    <2>1. \A j \in Ips : Lasts(j, t) => Lasts(j, now0)
      <3>1. ASSUME NEW j \in Ips, tab[j] # None, Lasting(tab[j]), Expiry(tab[j]) > t
            PROVE  Expiry(tab[j]) > now0
        <4>1. Expiry(tab[j]) \in Nat
          BY <1>1, <3>1, AliveUntil
        <4>2. QED
          BY <3>1, <4>1
      <3>2. QED
        BY <3>1
    <2>2. QED
      BY <1>2, <1>3, <2>1
  <1>13. ip \notin Used(new)
    BY <1>12 DEF Used, old
  <1>14. new[ip] = None
    BY <1>13 DEF Used
  <1>15. ASSUME t < m
         PROVE  /\ Retry(new, ip, t) \in Int /\ Retry(new, ip, t) >= 1
                /\ t = now0 => Retry(new, ip, t) = m - now0
    <2>1. Used(new) = Used(old)
      <3>1. \A j \in Used(old) : Expiry(tab[j]) > t
        <4>1. \A j \in Used(old) : m <= Expiry(tab[j]) /\ Expiry(tab[j]) \in Nat
          BY <1>4, <1>6, <1>11
        <4>2. QED
          BY <1>11, <1>15, <4>1
      <3>2. Used(old) \subseteq Used(new)
        BY <1>2, <1>3, <3>1
      <3>3. QED
        BY <1>12, <3>2
    <2>2. Full(new)
      BY <2>1 DEF Full, old
    <2>3. Waits(new, ip, t)
      BY <1>14, <2>2 DEF Waits
    <2> DEFINE U == {Expiry(new[j]) : j \in Used(new)}
    <2>4. \A j \in Used(new) : Expiry(new[j]) = Expiry(old[j])
      <3>1. \A j \in Used(new) : Expiry(new[j]) = Expiry(tab[j])
        BY <1>1, LoadedExpiry DEF Used, new
      <3>2. QED
        BY <1>4, <2>1, <3>1
    <2>5. U = T
      BY <2>1, <2>4 DEF T
    <2>6. Min(U) = m
      BY <2>5 DEF m
    <2>7. Retry(new, ip, t) = Max({1, Min(U) - t})
      BY <1>14, <2>3 DEF Retry
    <2> HIDE DEF U
    <2>8. m - t \in Int /\ m - t >= 1
      BY <1>11, <1>15
    <2>9. Retry(new, ip, t) = m - t
      BY <2>6, <2>7, <2>8, AtLeastOne
    <2>10. QED
      BY <2>8, <2>9
  <1>16. ASSUME t = m
         PROVE  Retry(new, ip, t) = 0
    <2>1. Expiry(tab[first]) = m
      BY <1>4, <1>10
    <2>2. first \notin Used(new)
      BY <1>3, <1>11, <1>16, <2>1
    <2>3. Used(new) \subseteq Used(old) \ {first}
      BY <1>12, <2>2
    <2>4. Cardinality(Used(new)) <= Cardinality(Used(old)) - 1
      BY <2>3, <1>10, UsedFinite, FS_RemoveElement, FS_Subset
    <2>5. Cardinality(Used(old)) <= MaxEntries
      BY LoadedOK DEF TableOK, old
    <2>6. ~Full(new)
      BY <2>4, <2>5, UsedFinite DEF Full
    <2>7. ~Waits(new, ip, t)
      BY <1>14, <2>6 DEF Waits
    <2>8. QED
      BY <2>7 DEF Retry
  <1>17. QED
    BY <1>11, <1>15, <1>16 DEF old, new, m, T

LEMMA RetryIsExact ==
    ASSUME IInv
    PROVE  RetryExact
  <1>1. /\ TableOK(table) /\ clock \in Nat
        /\ \A j \in Ips : table[j] # None => Sorted(table[j].failures)
    BY DEF IInv, StateInv, TypeOK, HistoryInv, Consistent
  <1>2. table \in [Ips -> Attempts \cup {None}]
    BY <1>1 DEF TableOK
  <1>3. SUFFICES ASSUME NEW ip \in Ips, Retry(Loaded(table, clock), ip, clock) > 0
                 PROVE  LET r == Retry(Loaded(table, clock), ip, clock)
                        IN  /\ Retry(Loaded(table, clock + r), ip, clock + r) = 0
                            /\ \A d \in 0..(r - 1) :
                                 Retry(Loaded(table, clock + d), ip, clock + d) > 0
    BY DEF RetryExact
  <1> DEFINE at(t) == Retry(Loaded(table, t), ip, t)
             r == at(clock)
  <1>4. Waits(Loaded(table, clock), ip, clock)
    BY <1>3 DEF Retry
  <1>5. CASE Loaded(table, clock)[ip] # None
    <2> DEFINE b == table[ip].blocked
    <2>1. b > clock /\ b \in Nat
      BY <1>1, <1>2, <1>4, <1>5, LoadedExpiry, RecordShape DEF Waits
    <2>2. \A t \in Nat : clock <= t /\ t < b => at(t) = b - t
      BY <1>1, <1>5, <2>1, LockedRetry
    <2>3. at(b) = 0
      BY <1>1, <1>5, <2>1, LockedRetry
    <2> HIDE DEF at, b
    <2>4. at(clock) = b - clock
      BY <1>1, <2>1, <2>2
    <2>5. ASSUME NEW d \in 0..(b - clock - 1)
          PROVE  at(clock + d) > 0
      <3>1. clock + d \in Nat /\ clock <= clock + d /\ clock + d < b
        BY <1>1, <2>1
      <3>2. at(clock + d) = b - (clock + d)
        BY <2>2, <3>1
      <3>3. QED
        BY <1>1, <2>1, <3>1, <3>2
    <2>6. clock + (b - clock) = b
      BY <1>1, <2>1
    <2>7. at(clock + at(clock)) = 0 /\ \A d \in 0..(at(clock) - 1) : at(clock + d) > 0
      BY <2>3, <2>4, <2>5, <2>6
    <2>8. QED
      BY <2>7 DEF at
  <1>6. CASE Loaded(table, clock)[ip] = None
    <2> DEFINE m == Min({Expiry(Loaded(table, clock)[j]) : j \in Used(Loaded(table, clock))})
    <2>1. Full(Loaded(table, clock))
      BY <1>4, <1>6 DEF Waits
    <2>2. /\ m \in Nat /\ m > clock /\ at(clock) = m - clock
      BY <1>1, <1>6, <2>1, FullRetry
    <2>3. \A t \in Nat : clock <= t /\ t < m => at(t) \in Int /\ at(t) >= 1
      BY <1>1, <1>6, <2>1, FullRetry
    <2>4. at(m) = 0
      BY <1>1, <1>6, <2>1, <2>2, FullRetry
    <2> HIDE DEF at, m
    <2>5. ASSUME NEW d \in 0..(m - clock - 1)
          PROVE  at(clock + d) > 0
      <3>1. clock + d \in Nat /\ clock <= clock + d /\ clock + d < m
        BY <1>1, <2>2
      <3>2. QED
        BY <2>3, <3>1
    <2>6. clock + (m - clock) = m
      BY <1>1, <2>2
    <2>7. at(clock + at(clock)) = 0 /\ \A d \in 0..(at(clock) - 1) : at(clock + d) > 0
      BY <2>2, <2>4, <2>5, <2>6
    <2>8. QED
      BY <2>7 DEF at
  <1>7. QED
    BY <1>5, <1>6

\* The time a refused address is told is exact: as long as nobody writes the
\* table it is refused until then and no longer (LoginLimiter._retry).
THEOREM RetryAlwaysExact == Spec => []RetryExact
  <1>1. IInv => RetryExact
    BY RetryIsExact
  <1>2. QED
    BY <1>1, Inductive, PTL

=============================================================================
