------------------------- MODULE AutoRefreshProofs -------------------------
(***************************************************************************)
(* Proofs about the scheduled refresh: the invariant IInv is inductive, for *)
(* every number of subscriptions, rows, configurations and intervals, with  *)
(* administrators, kills and failing fetches in every order.                *)
(***************************************************************************)
EXTENDS AutoRefreshProperties, FiniteSetTheorems, WellFoundedInduction, TLAPS

USE TimeAssumption, OrderAssumption, NoneAssumption
    DEF TimeAssumption, OrderAssumption, NoneAssumption

-----------------------------------------------------------------------------
(* Least elements: the order of the scan *)

\* A set of naturals that is not empty has a least element.
LEMMA LeastExists ==
    ASSUME NEW T \in SUBSET Nat, T # {}
    PROVE  \E x \in T : \A y \in T : x <= y
  <1>1. PICK x \in T : \A y \in T : ~(<<y, x>> \in OpToRel(<, Nat))
    BY NatLessThanWellFounded, WFMin
  <1>2. \A y \in T : ~(y < x)
    BY <1>1 DEF OpToRel
  <1>3. QED
    BY <1>2

LEMMA MinOfNaturals ==
    ASSUME NEW T \in SUBSET Nat, T # {}
    PROVE  Min(T) \in T /\ \A y \in T : Min(T) <= y
  BY LeastExists DEF Min

-----------------------------------------------------------------------------
(* Schedules: what an attempt makes of a row *)

\* None is no row, no entry, no list of rows, no request and no number.
LEMMA NoneIsNothing ==
    /\ \A s \in Source : s # None
    /\ \A e \in Entry : e # None
    /\ \A a \in Ask : a # None
    /\ \A l \in SourceList : l # None
    /\ \A v \in Versions : v # None
    /\ \A t \in 0..MaxEpoch : t # None
    /\ \A t \in 0..MaxClock : t # None
    /\ \A c \in Configs : c # None
  <1>1. 0..MaxClock \subseteq 0..MaxEpoch
    OBVIOUS
  <1>2. QED
    BY <1>1

LEMMA SourceFields ==
    ASSUME NEW s \in Source
    PROVE  /\ s.cfg \in Configs /\ s.enabled \in BOOLEAN
           /\ s.interval \in Intervals \cup {None} /\ s.next \in (0..MaxEpoch) \cup {None}
           /\ s.fails \in 0..Len(Backoff) /\ s.cached \in BOOLEAN
           /\ s.attempt \in (0..MaxClock) \cup {None} /\ s.payload \in Configs \cup {None}
  BY DEF Source

\* The next time is a time again.
LEMMA DelayIsTime ==
    ASSUME NEW s \in Source, s.interval # None, NEW now \in 0..MaxClock
    PROVE  Earliest(now + Delay(s), MaxEpoch) \in 0..MaxEpoch
  <1>1. s.interval \in 1..MaxEpoch /\ s.fails \in 0..Len(Backoff)
    BY SourceFields
  <1>2. \A n \in 1..Len(Backoff) : Backoff[n] \in 1..MaxEpoch
    OBVIOUS
  <1>3. Delay(s) \in 1..MaxEpoch
    BY <1>1, <1>2 DEF Delay
  <1>4. QED
    BY <1>3 DEF Earliest

\* The schedule after an attempt, the failures being counted already.
LEMMA RescheduledRow ==
    ASSUME NEW s \in Source, NEW now \in 0..MaxClock
    PROVE  LET r == Rescheduled(s, now)
           IN  /\ r \in Source
               /\ r.cfg = s.cfg /\ r.enabled = s.enabled /\ r.interval = s.interval
               /\ r.fails = s.fails /\ r.cached = s.cached /\ r.payload = s.payload
               /\ r.attempt = now
               /\ s.interval = None => r.next = None
               /\ s.interval # None => r.next = Earliest(r.attempt + Delay(r), MaxEpoch)
  <1> DEFINE n == IF s.interval = None THEN None ELSE Earliest(now + Delay(s), MaxEpoch)
             r == Rescheduled(s, now)
  <1>1. n \in (0..MaxEpoch) \cup {None}
    BY DelayIsTime
  <1>2. r = [s EXCEPT !.attempt = now, !.next = n]
    BY DEF Rescheduled
  <1> HIDE DEF n, r
  <1>3. r \in Source
    BY <1>1, <1>2 DEF Source
  <1>4. /\ r.cfg = s.cfg /\ r.enabled = s.enabled /\ r.interval = s.interval
        /\ r.fails = s.fails /\ r.cached = s.cached /\ r.payload = s.payload
        /\ r.attempt = now /\ r.next = n
    BY <1>2 DEF Source
  <1>5. Delay(r) = Delay(s)
    BY <1>4 DEF Delay
  <1>6. QED
    BY <1>3, <1>4, <1>5 DEF n, r

\* A success serves the bytes of the row's own configuration.
LEMMA SuccessRow ==
    ASSUME NEW s \in Source, NEW now \in 0..MaxClock
    PROVE  LET r == RecordSuccess([s EXCEPT !.payload = s.cfg], now)
           IN  r \in Source /\ Sound(r) /\ r.attempt = now /\ Settings(r) = Settings(s)
  <1> DEFINE t == [s EXCEPT !.payload = s.cfg]
             u == [t EXCEPT !.cached = FALSE, !.fails = 0]
             r == Rescheduled(u, now)
  <1>1. Len(Backoff) \in Nat /\ 0 \in 0..Len(Backoff)
    OBVIOUS
  <1>2. t \in Source
    BY DEF Source
  <1>3. /\ t.cfg = s.cfg /\ t.enabled = s.enabled /\ t.interval = s.interval
        /\ t.payload = s.cfg
    BY DEF Source
  <1> HIDE DEF t
  <1>4. u \in Source
    BY <1>1, <1>2 DEF Source
  <1>5. /\ u.cfg = s.cfg /\ u.enabled = s.enabled /\ u.interval = s.interval
        /\ u.payload = s.cfg /\ u.fails = 0 /\ u.cached = FALSE
    BY <1>2, <1>3 DEF Source
  <1> HIDE DEF u
  <1>6. /\ r \in Source
        /\ r.cfg = u.cfg /\ r.enabled = u.enabled /\ r.interval = u.interval
        /\ r.fails = u.fails /\ r.cached = u.cached /\ r.payload = u.payload
        /\ r.attempt = now
        /\ u.interval = None => r.next = None
        /\ u.interval # None => r.next = Earliest(r.attempt + Delay(r), MaxEpoch)
    BY <1>4, RescheduledRow
  <1> HIDE DEF r
  <1>7. r.payload # None /\ r.attempt # None
    BY <1>5, <1>6, NoneIsNothing, SourceFields
  <1>8. Sound(r)
    BY <1>5, <1>6, <1>7 DEF Sound
  <1>9. Settings(r) = Settings(s)
    BY <1>5, <1>6 DEF Settings
  <1>10. QED
    BY <1>6, <1>8, <1>9 DEF r, u, t, RecordSuccess

\* A failure keeps serving the bytes there are, and counts if it is scheduled.
LEMMA FailureRow ==
    ASSUME NEW s \in Source, NEW now \in 0..MaxClock, s.payload # None, s.payload = s.cfg
    PROVE  LET r == RecordFailure([s EXCEPT !.cached = TRUE], now)
           IN  r \in Source /\ Sound(r) /\ r.attempt = now /\ Settings(r) = Settings(s)
  <1> DEFINE t == [s EXCEPT !.cached = TRUE]
             n == IF t.interval = None THEN 0 ELSE Counted(t)
             u == [t EXCEPT !.fails = n]
             r == Rescheduled(u, now)
  <1>1. t \in Source
    BY DEF Source
  <1>2. /\ t.cfg = s.cfg /\ t.enabled = s.enabled /\ t.interval = s.interval
        /\ t.payload = s.payload /\ t.cached = TRUE /\ t.fails = s.fails
    BY DEF Source
  <1> HIDE DEF t
  <1>3. n \in 0..Len(Backoff)
    <2>1. t.fails \in 0..Len(Backoff) /\ Len(Backoff) \in Nat
      BY <1>1, SourceFields
    <2>2. QED
      BY <2>1 DEF Counted, Earliest
  <1>4. t.interval = None => n = 0
    OBVIOUS
  <1> HIDE DEF n
  <1>5. u \in Source
    BY <1>1, <1>3 DEF Source
  <1>6. /\ u.cfg = s.cfg /\ u.enabled = s.enabled /\ u.interval = s.interval
        /\ u.payload = s.payload /\ u.cached = TRUE /\ u.fails = n
    BY <1>1, <1>2 DEF Source
  <1> HIDE DEF u
  <1>7. /\ r \in Source
        /\ r.cfg = u.cfg /\ r.enabled = u.enabled /\ r.interval = u.interval
        /\ r.fails = u.fails /\ r.cached = u.cached /\ r.payload = u.payload
        /\ r.attempt = now
        /\ u.interval = None => r.next = None
        /\ u.interval # None => r.next = Earliest(r.attempt + Delay(r), MaxEpoch)
    BY <1>5, RescheduledRow
  <1> HIDE DEF r
  <1>8. r.attempt # None
    BY <1>7, NoneIsNothing
  <1>9. Sound(r)
    BY <1>2, <1>4, <1>6, <1>7, <1>8 DEF Sound
  <1>10. Settings(r) = Settings(s)
    BY <1>6, <1>7 DEF Settings
  <1>11. QED
    BY <1>7, <1>9, <1>10 DEF r, u, n, t, RecordFailure

-----------------------------------------------------------------------------
(* Rows of a candidate *)

\* What configure makes of a stored row, or of none.
LEMMA RequestedRow ==
    ASSUME NEW s \in Source \cup {None}, NEW a \in Ask
    PROVE  LET r == Requested(s, a)
           IN  /\ r \in Source
               /\ r.cfg = a.cfg /\ r.enabled = a.enabled /\ r.interval = a.interval
               /\ a.interval = None => r.next = None /\ r.fails = 0
               /\ s = None => /\ r.payload = None /\ r.attempt = None /\ r.cached = FALSE
                              /\ r.fails = 0
               /\ s # None => /\ r.payload = s.payload /\ r.attempt = s.attempt
                              /\ r.cached = s.cached
                              /\ a.interval # None => r.next = s.next /\ r.fails = s.fails
  <1> DEFINE b == IF s = None THEN NewRow(a) ELSE [s EXCEPT !.cfg = a.cfg, !.enabled = a.enabled]
             r == Configure(b, a.interval)
  <1>1. a.cfg \in Configs /\ a.enabled \in BOOLEAN /\ a.interval \in Intervals \cup {None}
    BY DEF Ask
  <1>2. Len(Backoff) \in Nat /\ 0 \in 0..Len(Backoff)
    OBVIOUS
  <1>3. NewRow(a) \in Source
    BY <1>1, <1>2 DEF NewRow, Source
  <1>4. /\ b \in Source /\ b.cfg = a.cfg /\ b.enabled = a.enabled
        /\ s = None => b.payload = None /\ b.attempt = None /\ b.cached = FALSE /\ b.fails = 0
        /\ s # None => /\ b.payload = s.payload /\ b.attempt = s.attempt /\ b.cached = s.cached
                       /\ b.next = s.next /\ b.fails = s.fails
    <2>1. CASE s = None
      BY <1>3, <2>1 DEF NewRow
    <2>2. CASE s # None
      <3>1. s \in Source
        BY <2>2
      <3>2. b = [s EXCEPT !.cfg = a.cfg, !.enabled = a.enabled]
        BY <2>2
      <3>3. QED
        BY <1>1, <2>2, <3>1, <3>2 DEF Source
    <2>3. QED
      BY <2>1, <2>2
  <1> HIDE DEF b
  <1>5. CASE a.interval = None
    <2>1. r = [b EXCEPT !.interval = None, !.next = None, !.fails = 0]
      BY <1>5 DEF Configure
    <2>2. r \in Source
      BY <1>2, <1>4, <2>1 DEF Source
    <2>3. /\ r.cfg = b.cfg /\ r.enabled = b.enabled /\ r.interval = None
          /\ r.next = None /\ r.fails = 0
          /\ r.payload = b.payload /\ r.attempt = b.attempt /\ r.cached = b.cached
      BY <1>4, <2>1 DEF Source
    <2>4. r = Requested(s, a)
      BY DEF Requested, b
    <2> HIDE DEF r
    <2>5. QED
      BY <1>4, <1>5, <2>2, <2>3, <2>4
  <1>6. CASE a.interval # None
    <2>1. r = [b EXCEPT !.interval = a.interval]
      BY <1>6 DEF Configure
    <2>2. QED
      BY <1>1, <1>4, <1>6, <2>1 DEF Source, Requested, b
  <1>7. QED
    BY <1>5, <1>6

\* A row that is asked for as it is stays as it is.
LEMMA SameRow ==
    ASSUME NEW s \in Source, Sound(s), NEW a \in Ask,
           a.cfg = s.cfg, a.enabled = s.enabled, a.interval = s.interval
    PROVE  Requested(s, a) = s
  <1> DEFINE r == Requested(s, a)
  <1>1. /\ r \in Source
        /\ r.cfg = a.cfg /\ r.enabled = a.enabled /\ r.interval = a.interval
        /\ a.interval = None => r.next = None /\ r.fails = 0
        /\ r.payload = s.payload /\ r.attempt = s.attempt /\ r.cached = s.cached
        /\ a.interval # None => r.next = s.next /\ r.fails = s.fails
    BY RequestedRow, NoneIsNothing
  <1> HIDE DEF r
  <1>2. /\ r.cfg = s.cfg /\ r.enabled = s.enabled /\ r.interval = s.interval
        /\ r.next = s.next /\ r.fails = s.fails
        /\ r.payload = s.payload /\ r.attempt = s.attempt /\ r.cached = s.cached
    BY <1>1 DEF Sound
  <1>3. r = s
    BY <1>1, <1>2 DEF Source
  <1>4. QED
    BY <1>3 DEF r

\* The row prepare makes: a fetch, a fall-back, or the requested row.  An
\* enabled row that is not fetched must be the stored one.
LEMMA PreparedRow ==
    ASSUME NEW s \in Source \cup {None}, NEW a \in Ask, NEW fetch \in BOOLEAN, NEW ok \in BOOLEAN,
           NEW now \in 0..MaxClock,
           s # None => Sound(s) /\ (s.attempt # None => s.attempt <= now),
           ~Refuses(Requested(s, a), s, fetch, ok),
           a.enabled /\ ~fetch => s # None /\ Requested(s, a) = s
    PROVE  LET p == Prepared(Requested(s, a), s, fetch, ok, now)
           IN  /\ p \in Source /\ Sound(p)
               /\ p.attempt # None => p.attempt <= now
               /\ s # None /\ s.attempt # None => p.attempt # None /\ p.attempt >= s.attempt
               /\ Settings(p) = <<a.cfg, a.enabled, a.interval>>
               /\ ~fetch /\ s # None /\ Requested(s, a) = s => p = s
  <1> DEFINE t == Requested(s, a)
             p == Prepared(t, s, fetch, ok, now)
  <1>1. /\ t \in Source
        /\ t.cfg = a.cfg /\ t.enabled = a.enabled /\ t.interval = a.interval
        /\ a.interval = None => t.next = None /\ t.fails = 0
        /\ s = None => /\ t.payload = None /\ t.attempt = None /\ t.cached = FALSE
                       /\ t.fails = 0
        /\ s # None => /\ t.payload = s.payload /\ t.attempt = s.attempt
                       /\ t.cached = s.cached
                       /\ a.interval # None => t.next = s.next /\ t.fails = s.fails
    BY RequestedRow
  <1>2. /\ ~Refuses(t, s, fetch, ok)
        /\ a.enabled /\ ~fetch => s # None /\ t = s
    OBVIOUS
  <1> HIDE DEF t
  <1>3. /\ now # None
        /\ s # None /\ s.attempt # None => s.attempt \in 0..MaxClock /\ now >= s.attempt
    BY NoneIsNothing, SourceFields
  <1>4. Settings(t) = <<a.cfg, a.enabled, a.interval>>
    BY <1>1 DEF Settings
  <1>5. CASE Fetches(t, s, fetch) /\ ok
    <2>1. p = RecordSuccess([t EXCEPT !.payload = t.cfg], now)
      BY <1>5 DEF Prepared
    <2>2. p \in Source /\ Sound(p) /\ p.attempt = now /\ Settings(p) = Settings(t)
      BY <1>1, <2>1, SuccessRow
    <2>3. ~(~fetch /\ s # None /\ t = s)
      BY <1>5 DEF Fetches, Changed
    <2> HIDE DEF p
    <2>4. QED
      BY <1>3, <1>4, <2>2, <2>3 DEF p, t
  <1>6. CASE Fetches(t, s, fetch) /\ ~ok
    <2>1. p = RecordFailure([t EXCEPT !.cached = TRUE], now)
      BY <1>6 DEF Prepared
    <2>2. t.payload # None /\ ~Changed(t, s)
      BY <1>2, <1>6 DEF Refuses, FallsBack
    <2>3. t.payload = t.cfg
      BY <1>1, <2>2 DEF Changed, Sound
    <2>4. p \in Source /\ Sound(p) /\ p.attempt = now /\ Settings(p) = Settings(t)
      BY <1>1, <2>1, <2>2, <2>3, FailureRow
    <2>5. ~(~fetch /\ s # None /\ t = s)
      BY <1>6 DEF Fetches, Changed
    <2> HIDE DEF p
    <2>6. QED
      BY <1>3, <1>4, <2>4, <2>5 DEF p, t
  <1>7. CASE ~Fetches(t, s, fetch)
    <2>1. p = t
      BY <1>7 DEF Prepared
    <2>2. Sound(t)
      <3>1. CASE t.enabled
        <4>1. ~fetch
          BY <1>7, <3>1 DEF Fetches
        <4>2. QED
          BY <1>1, <1>2, <3>1, <4>1
      <3>2. CASE ~t.enabled
        <4>1. s = None \/ t.cfg = s.cfg
          BY <1>2, <3>2 DEF Refuses, RefusesChange, Changed
        <4>2. t.payload # None => t.payload = t.cfg
          BY <1>1, <4>1 DEF Sound
        <4>3. t.fails > 0 => t.cached
          BY <1>1 DEF Sound
        <4>4. t.cached => t.payload # None
          BY <1>1 DEF Sound
        <4>5. QED
          BY <1>1, <3>2, <4>2, <4>3, <4>4 DEF Sound
      <3>3. QED
        BY <3>1, <3>2
    <2>3. /\ t.attempt # None => t.attempt <= now
          /\ s # None /\ s.attempt # None => t.attempt # None /\ t.attempt >= s.attempt
      BY <1>1, <1>3
    <2> HIDE DEF p
    <2>4. QED
      BY <1>1, <1>4, <2>1, <2>2, <2>3 DEF p, t
  <1>8. QED
    BY <1>5, <1>6, <1>7

\* A request that leaves a row as it is asks for the settings it has.
LEMMA UnaskedRows ==
    ASSUME NEW src \in SourceList
    PROVE  /\ Unasked(src) \in [Sources -> Ask \cup {None}]
           /\ \A i \in Sources : src[i] = None => Unasked(src)[i] = None
           /\ \A i \in Sources : src[i] # None =>
                /\ src[i] \in Source /\ Unasked(src)[i] \in Ask
                /\ Unasked(src)[i].cfg = src[i].cfg /\ Unasked(src)[i].enabled = src[i].enabled
                /\ Unasked(src)[i].interval = src[i].interval
  <1>1. \A i \in Sources : src[i] \in Source \cup {None}
    BY DEF SourceList
  <1>2. ASSUME NEW i \in Sources, src[i] # None
        PROVE  /\ Unasked(src)[i] = [cfg |-> src[i].cfg, enabled |-> src[i].enabled,
                                     interval |-> src[i].interval]
               /\ Unasked(src)[i] \in Ask
    BY <1>1, <1>2, SourceFields DEF Unasked, Ask
  <1>3. \A i \in Sources : src[i] = None => Unasked(src)[i] = None
    BY DEF Unasked
  <1>4. Unasked(src) \in [Sources -> Ask \cup {None}]
    BY <1>2, <1>3 DEF Unasked
  <1>5. QED
    BY <1>1, <1>2, <1>3, <1>4

\* A request that fetches every enabled row it changes, and names no other.
Certified(src, asked, fetch) ==
    /\ asked \in [Sources -> Ask \cup {None}] /\ fetch \in SUBSET Sources
    /\ \A i \in Sources \ fetch : asked[i] # None /\ asked[i].enabled =>
          src[i] # None /\ asked[i] = Unasked(src)[i]

\* What becomes of the rows src when c is prepared for such a request.
Remade(src, asked, fetch, c) ==
    /\ c \in SourceList /\ Orderly(c, clock) /\ Supersedes(c, src)
    /\ \A i \in Sources : asked[i] = None <=> c[i] = None
    /\ \A i \in Rows(c) :
         Settings(c[i]) = <<asked[i].cfg, asked[i].enabled, asked[i].interval>>
    /\ \A i \in Rows(src) \ fetch : asked[i] = Unasked(src)[i] => c[i] = src[i]

\* A candidate nobody refused keeps every row in order.
LEMMA CandidateRows ==
    ASSUME NEW src \in SourceList, clock \in 0..MaxClock, Orderly(src, clock),
           NEW asked, NEW fetch, Certified(src, asked, fetch),
           NEW ok \in SUBSET Sources, Refusing(src, asked, fetch, ok) = {}
    PROVE  Remade(src, asked, fetch, Candidate(src, asked, fetch, ok))
  <1> USE DEF Certified
  <1> DEFINE c == Candidate(src, asked, fetch, ok)
  <1>1. \A i \in Sources : asked[i] = None => c[i] = None
    BY DEF Candidate
  <1>2. ASSUME NEW i \in Sources, asked[i] # None
        PROVE  /\ c[i] \in Source /\ Sound(c[i])
               /\ c[i].attempt # None => c[i].attempt <= clock
               /\ src[i] # None /\ src[i].attempt # None =>
                    c[i].attempt # None /\ c[i].attempt >= src[i].attempt
               /\ Settings(c[i]) = <<asked[i].cfg, asked[i].enabled, asked[i].interval>>
               /\ i \notin fetch /\ src[i] # None /\ asked[i] = Unasked(src)[i] => c[i] = src[i]
    <2> DEFINE s == src[i]
               a == asked[i]
               f == i \in fetch
               o == i \in ok
               t == Requested(s, a)
    <2>1. s \in Source \cup {None} /\ a \in Ask /\ f \in BOOLEAN /\ o \in BOOLEAN
      BY <1>2 DEF SourceList
    <2>2. s # None => Sound(s) /\ (s.attempt # None => s.attempt <= clock)
      BY DEF Orderly, Rows
    <2>3. Target(src, asked)[i] = t /\ c[i] = Prepared(t, s, f, o, clock)
      BY <1>2 DEF Target, Candidate
    <2>4. ~Refuses(t, s, f, o)
      BY <1>2, <2>3 DEF Refusing
    <2>5. s # None /\ a = Unasked(src)[i] => t = s
      BY <2>1, <2>2, UnaskedRows, SameRow
    <2>6. a.enabled /\ ~f => s # None /\ t = s
      BY <1>2, <2>5
    <2> HIDE DEF s, a, f, o, c
    <2>7. /\ c[i] \in Source /\ Sound(c[i])
          /\ c[i].attempt # None => c[i].attempt <= clock
          /\ s # None /\ s.attempt # None => c[i].attempt # None /\ c[i].attempt >= s.attempt
          /\ Settings(c[i]) = <<a.cfg, a.enabled, a.interval>>
          /\ ~f /\ s # None /\ t = s => c[i] = s
      BY <2>1, <2>2, <2>3, <2>4, <2>6, PreparedRow
    <2>8. QED
      BY <2>5, <2>7 DEF s, a, f
  <1>3. c = [i \in Sources |-> c[i]]
    BY DEF Candidate
  <1> HIDE DEF c
  <1>4. \A i \in Sources : asked[i] = None <=> c[i] = None
    BY <1>1, <1>2, NoneIsNothing
  <1>5. c \in SourceList
    BY <1>1, <1>2, <1>3 DEF SourceList
  <1>6. Orderly(c, clock)
    BY <1>2, <1>4 DEF Orderly, Rows
  <1>7. Supersedes(c, src)
    BY <1>2, <1>4 DEF Supersedes, Rows
  <1>8. \A i \in Rows(c) : Settings(c[i]) = <<asked[i].cfg, asked[i].enabled, asked[i].interval>>
    BY <1>2, <1>4 DEF Rows
  <1>9. \A i \in Rows(src) \ fetch : asked[i] = Unasked(src)[i] => c[i] = src[i]
    BY <1>2, UnaskedRows, NoneIsNothing DEF Rows
  <1>10. QED
    BY <1>4, <1>5, <1>6, <1>7, <1>8, <1>9 DEF c, Remade

\* The requests of forms and source actions are of that kind.
LEMMA RequestRows ==
    ASSUME NEW src \in SourceList, NEW q \in Requests(src)
    PROVE  Certified(src, q[1], q[2])
  <1> USE DEF Certified
  <1> DEFINE same == Unasked(src)
             on == {i \in Rows(src) : src[i].enabled}
  <1>1. /\ same \in [Sources -> Ask \cup {None}]
        /\ \A i \in Rows(src) : same[i] \in Ask /\ same[i].enabled = src[i].enabled
        /\ \A i \in Sources : same[i] # None => src[i] # None
        /\ on \subseteq Sources
    BY UnaskedRows DEF Rows
  <1>2. CASE q \in {<<asked, FormFetch>> : asked \in [Sources -> Ask \cup {None}]}
    BY <1>2 DEF FormFetch
  <1> HIDE DEF same
  <1>3. CASE q \in {<<same, {i}>> : i \in on} \cup {<<same, on>>}
    BY <1>1, <1>3 DEF same
  <1>4. CASE q \in {<<[same EXCEPT ![i] = None], {}>> : i \in Rows(src)}
    <2>1. PICK i \in Rows(src) : q = <<[same EXCEPT ![i] = None], {}>>
      BY <1>4
    <2>2. q[1] = [same EXCEPT ![i] = None] /\ q[2] = {}
      BY <2>1
    <2>3. QED
      BY <1>1, <2>2 DEF same
  <1>5. ASSUME NEW b \in BOOLEAN, NEW i \in Rows(src), q[1] = [same EXCEPT ![i].enabled = b],
               b => q[2] = {i}, ~b => q[2] = {}
        PROVE  /\ q[1] \in [Sources -> Ask \cup {None}] /\ q[2] \in SUBSET Sources
               /\ \A j \in Sources \ q[2] : q[1][j] # None /\ q[1][j].enabled =>
                     src[j] # None /\ q[1][j] = Unasked(src)[j]
    <2>1. i \in Sources /\ same[i] \in Ask
      BY <1>1 DEF Rows
    <2>2. [same[i] EXCEPT !.enabled = b] \in Ask /\ [same[i] EXCEPT !.enabled = b].enabled = b
      BY <2>1 DEF Ask
    <2>3. /\ q[1][i] = [same[i] EXCEPT !.enabled = b]
          /\ \A j \in Sources : j # i => q[1][j] = same[j]
          /\ q[1] \in [Sources -> Ask \cup {None}]
      BY <1>1, <1>5, <2>1, <2>2
    <2>4. q[2] \in SUBSET Sources
      BY <1>5, <2>1
    <2>5. ASSUME NEW j \in Sources \ q[2], q[1][j] # None, q[1][j].enabled
          PROVE  src[j] # None /\ q[1][j] = Unasked(src)[j]
      <3>1. j # i
        BY <1>5, <2>2, <2>3, <2>5
      <3>2. QED
        BY <1>1, <2>3, <2>5, <3>1 DEF same
    <2>6. QED
      BY <2>3, <2>4, <2>5
  <1>6. CASE q \in {<<[same EXCEPT ![i].enabled = TRUE], {i}>> : i \in Rows(src)}
    <2>1. PICK i \in Rows(src) : q = <<[same EXCEPT ![i].enabled = TRUE], {i}>>
      BY <1>6
    <2>2. q[1] = [same EXCEPT ![i].enabled = TRUE] /\ q[2] = {i}
      BY <2>1
    <2>3. QED
      BY <1>5, <2>2
  <1>7. CASE q \in {<<[same EXCEPT ![i].enabled = FALSE], {}>> : i \in Rows(src)}
    <2>1. PICK i \in Rows(src) : q = <<[same EXCEPT ![i].enabled = FALSE], {}>>
      BY <1>7
    <2>2. q[1] = [same EXCEPT ![i].enabled = FALSE] /\ q[2] = {}
      BY <2>1
    <2>3. QED
      BY <1>5, <2>2
  <1>8. QED
    BY <1>2, <1>3, <1>4, <1>6, <1>7 DEF Requests, same

-----------------------------------------------------------------------------
(* The order of the scan *)

\* The longest due time of an entry with due rows.
LEMMA OldestIsTime ==
    ASSUME NEW e \in Entry, NEW now \in 0..MaxClock, DueRows(e, now) # {}
    PROVE  Oldest(e, now) \in Nat
  <1> DEFINE T == {IF e.src[i].next = None THEN 0 ELSE e.src[i].next : i \in DueRows(e, now)}
  <1>1. \A i \in DueRows(e, now) : e.src[i] \in Source
    BY DEF DueRows, Due, Rows, Entry, SourceList
  <1>2. T \subseteq Nat
    BY <1>1, SourceFields
  <1>3. T # {}
    OBVIOUS
  <1> HIDE DEF T
  <1>4. Min(T) \in Nat
    BY <1>2, <1>3, MinOfNaturals
  <1>5. QED
    BY <1>4 DEF T, Oldest

\* Among subscriptions with due rows one comes before all the others.
LEMMA FirstExists ==
    ASSUME NEW es \in [Subs -> Entry \cup {None}], NEW now \in 0..MaxClock,
           NEW K \in SUBSET Subs, K # {},
           \A k \in K : es[k] # None /\ DueRows(es[k], now) # {}
    PROVE  \E k \in K : \A j \in K \ {k} : Precedes(es, k, j, now)
  <1> DEFINE f == [k \in K |-> Oldest(es[k], now)]
             T == {f[k] : k \in K}
  <1>1. \A k \in K : f[k] \in Nat
    BY OldestIsTime
  <1> HIDE DEF f
  <1>2. T \in SUBSET Nat /\ T # {}
    <2>1. PICK k \in K : TRUE
      OBVIOUS
    <2>2. f[k] \in T
      OBVIOUS
    <2>3. T \subseteq Nat
      BY ONLY <1>1
    <2>4. QED
      BY ONLY <2>2, <2>3
  <1>3. PICK x \in T : \A y \in T : x <= y
    BY <1>2, LeastExists
  <1> DEFINE L == {k \in K : f[k] = x}
  <1>4. L \in SUBSET Nat /\ L # {}
    BY <1>3
  <1>5. PICK k \in L : \A j \in L : k <= j
    BY <1>4, LeastExists
  <1>6. ASSUME NEW j \in K \ {k}
        PROVE  f[k] < f[j] \/ (f[k] = f[j] /\ k < j)
    <2>1. f[k] = x /\ k \in K /\ j \in K /\ k # j /\ f[j] \in T
      OBVIOUS
    <2>2. k \in Nat /\ j \in Nat
      BY <2>1
    <2>3. f[j] \in Nat /\ f[k] \in Nat
      BY ONLY <1>1, <2>1
    <2>4. x <= f[j]
      BY ONLY <1>3, <2>1
    <2>5. f[j] = x => k <= j
      BY <1>5, <2>1
    <2>6. QED
      BY <2>1, <2>2, <2>3, <2>4, <2>5
  <1>7. QED
    BY <1>5, <1>6 DEF Precedes, f

\* A scan that finds due rows takes a subscription.
LEMMA SelectedSome ==
    ASSUME TypeOK, Groups(clock) # {}
    PROVE  Selected(clock) # {}
  <1>1. \A k \in Groups(clock) : k \in Subs /\ reg[k] \in Entry /\ DueRows(reg[k], clock) # {}
    BY DEF Groups, DueRows, Due, TypeOK
  <1>2. \A k \in Groups(clock) : Oldest(reg[k], clock) \in Nat
    BY <1>1, OldestIsTime DEF TypeOK
  <1>3. reg \in [Subs -> Entry \cup {None}] /\ clock \in 0..MaxClock
    BY DEF TypeOK
  <1>4. PICK k \in Groups(clock) : \A j \in Groups(clock) \ {k} : Precedes(reg, k, j, clock)
    BY <1>1, <1>3, NoneIsNothing, FirstExists
  <1>5. ASSUME NEW j \in Groups(clock)
        PROVE  ~Precedes(reg, j, k, clock)
    <2>1. /\ Oldest(reg[k], clock) \in Nat /\ Oldest(reg[j], clock) \in Nat
          /\ j \in Nat /\ k \in Nat
      BY <1>1, <1>2
    <2>2. CASE j = k
      BY <2>1, <2>2 DEF Precedes
    <2>3. CASE j # k
      BY <1>4, <2>1, <2>3 DEF Precedes
    <2>4. QED
      BY <2>2, <2>3
  <1>6. Ahead(k, clock) = {}
    BY <1>5 DEF Ahead
  <1>7. QED
    BY <1>6 DEF Selected

\* The group the loop is at is one of those the scan took.
LEMMA CurrentIsPending ==
    ASSUME TypeOK, Working, pc # "idle"
    PROVE  /\ Current \in Pending /\ Current \in Subs /\ work[Current] \in Entry
           /\ DueRows(work[Current], at) # {}
  <1>1. \A k \in Pending : k \in Subs /\ work[k] \in Entry /\ work[k] # None
                           /\ DueRows(work[k], at) # {}
    BY DEF Pending, TypeOK, Working
  <1>2. Pending \in SUBSET Subs /\ Pending # {}
    BY DEF Pending, Working
  <1>3. work \in [Subs -> Entry \cup {None}] /\ at \in 0..MaxClock
    BY DEF TypeOK
  <1>4. \E k \in Pending : \A j \in Pending \ {k} : Precedes(work, k, j, at)
    BY <1>1, <1>2, <1>3, FirstExists
  <1>5. Current \in Pending
    BY <1>4 DEF Current
  <1>6. QED
    BY <1>1, <1>5

LEMMA CurrentStays ==
    ASSUME work' = work, at' = at
    PROVE  Current' = Current /\ Pending' = Pending
  BY DEF Current, Pending

-----------------------------------------------------------------------------
(* Versions: what a commit leaves of the candidates *)

LEMMA NewVersionIsNew ==
    ASSUME TypeOK, NEW k \in Subs
    PROVE  /\ NewVersion(k) \in Versions /\ NewVersion(k) # VersionOf(work[k])
           /\ web # None => NewVersion(k) # web.old
  <1> DEFINE u == VersionOf(work[k])
             v == IF web = None THEN None ELSE web.old
  <1>1. u \in Versions \cup {None} /\ v \in Versions \cup {None}
    BY DEF TypeOK, VersionOf, Entry
  <1>2. \E x \in Versions : x # u /\ x # v
    BY <1>1, VersionAssumption DEF VersionAssumption
  <1>3. \E x \in Versions : x # VersionOf(work[k]) /\ (web # None => x # web.old)
    BY <1>2
  <1>4. QED
    BY <1>3 DEF NewVersion

\* A commit gives its entry a version that no candidate was made from.
LEMMA HeldKept ==
    ASSUME TypeOK, Held,
           \A k \in Subs : \/ reg'[k] = reg[k] \/ reg'[k] = None
                           \/ reg'[k] # None /\ reg'[k].version = NewVersion(k),
           \A k \in Subs : work'[k] = None \/ work'[k] = work[k],
           web' = None \/ web' = web
    PROVE  Held'
  <1>1. ASSUME NEW k \in Subs, work'[k] # None, VersionOf(reg'[k]) = work'[k].version
        PROVE  reg'[k] = work'[k]
    <2>1. work'[k] = work[k] /\ work[k] \in Entry /\ work[k].version # None
      BY <1>1, NoneIsNothing DEF TypeOK, Entry
    <2>2. reg'[k] = reg[k]
      BY <1>1, <2>1, NewVersionIsNew DEF VersionOf
    <2>3. QED
      BY <1>1, <2>1, <2>2 DEF Held
  <1>2. ASSUME web' # None, reg'[web'.key] # None, reg'[web'.key].version = web'.old
        PROVE  Supersedes(web'.src, reg'[web'.key].src)
    <2>1. web' = web /\ web.key \in Subs
      BY <1>2 DEF TypeOK
    <2>2. reg'[web.key] = reg[web.key]
      BY <1>2, <2>1, NewVersionIsNew
    <2>3. QED
      BY <1>2, <2>1, <2>2 DEF Held
  <1>3. QED
    BY <1>1, <1>2 DEF Held, VersionOf, Supersedes, Rows

\* The job moves on: what remains is what it had.
LEMMA Advancing ==
    ASSUME TypeOK, Working, NEW left \in [Subs -> Entry \cup {None}],
           \A k \in Subs : left[k] = None \/ left[k] = work[k],
           Advance(left), clock' = clock
    PROVE  /\ Working' /\ work' = left /\ pc' \in {"idle", "run"} /\ at' \in 0..MaxClock
           /\ cand' = None /\ blame' = {}
  <1>1. /\ work' = left /\ cand' = None /\ blame' = {}
        /\ left = NoWork(Subs) => pc' = "idle" /\ at' = 0
        /\ left # NoWork(Subs) => pc' = "run" /\ at' = at
    BY DEF Advance
  <1>2. at \in 0..MaxClock /\ clock \in 0..MaxClock
    BY DEF TypeOK
  <1>3. CASE left = NoWork(Subs)
    <2>1. Pending' = {}
      BY <1>1, <1>3 DEF Pending, NoWork
    <2>2. QED
      BY <1>1, <1>2, <1>3, <2>1 DEF Working
  <1>4. CASE left # NoWork(Subs)
    <2>1. left = [k \in Subs |-> left[k]]
      OBVIOUS
    <2>2. \E k \in Subs : left[k] # None
      BY <1>4, <2>1 DEF NoWork
    <2>3. Pending' # {} /\ \A k \in Pending' : k \in Pending /\ work'[k] = work[k]
      BY <1>1, <2>2 DEF Pending
    <2>4. QED
      BY <1>1, <1>2, <1>4, <2>3 DEF Working
  <1>5. QED
    BY <1>3, <1>4

-----------------------------------------------------------------------------
(* The writes of the job *)

\* One commit: the entry the scan saw is still there, and gets the rows src.
Replaces(src) ==
    /\ Same /\ reg[Current] = work[Current] /\ reg[Current] \in Entry
    /\ reg' = [reg EXCEPT ![Current] = reg'[Current]]
    /\ reg'[Current] \in Entry /\ reg'[Current].src = src
    /\ reg'[Current].status = reg[Current].status
    /\ reg'[Current].version = NewVersion(Current)
    /\ Orderly(src, clock) /\ Refreshed(work[Current], src, at)

LEMMA SameIsHeld ==
    ASSUME IInv, pc # "idle", Same
    PROVE  reg[Current] = work[Current] /\ reg[Current] \in Entry
  <1>1. Current \in Subs /\ work[Current] \in Entry
    BY CurrentIsPending DEF IInv
  <1>2. work[Current] # None /\ work[Current].version # None
    BY <1>1, NoneIsNothing DEF Entry
  <1>3. VersionOf(reg[Current]) = work[Current].version
    BY DEF Same, Unmoved
  <1>4. QED
    BY <1>1, <1>2, <1>3 DEF IInv, Held

\* A new entry, field by field.
LEMMA EditedEntry ==
    ASSUME TypeOK, NEW k \in Subs, reg[k] \in Entry, NEW src \in SourceList,
           NEW version \in Versions,
           reg' = [reg EXCEPT ![k].src = src, ![k].version = version]
    PROVE  /\ reg' = [reg EXCEPT ![k] = reg'[k]] /\ reg'[k] \in Entry
           /\ reg'[k].src = src /\ reg'[k].version = version
           /\ reg'[k].status = reg[k].status
  <1>1. reg \in [Subs -> Entry \cup {None}]
    BY DEF TypeOK
  <1>2. reg'[k] = [reg[k] EXCEPT !.src = src, !.version = version]
    BY <1>1
  <1>3. reg' = [reg EXCEPT ![k] = reg'[k]]
    BY <1>1
  <1> DEFINE old == reg[k]
             new == reg'[k]
  <1>4. new = [old EXCEPT !.src = src, !.version = version] /\ old \in Entry
    BY <1>2
  <1> HIDE DEF old, new
  <1>5. new \in Entry /\ new.src = src /\ new.version = version /\ new.status = old.status
    BY <1>4 DEF Entry
  <1>6. QED
    BY <1>3, <1>5 DEF old, new

LEMMA CommitWrites ==
    ASSUME IInv, Commit, reg' # reg
    PROVE  \E src \in SourceList : Replaces(src)
  <1>1. /\ pc = "ready" /\ Same
        /\ reg' = [reg EXCEPT ![Current].src = cand, ![Current].version = NewVersion(Current)]
    BY DEF Commit
  <1>2. /\ reg[Current] = work[Current] /\ reg[Current] \in Entry /\ Current \in Subs
        /\ TypeOK
    BY <1>1, SameIsHeld, CurrentIsPending DEF IInv
  <1>3. cand \in SourceList /\ Orderly(cand, clock) /\ Refreshed(work[Current], cand, at)
    BY <1>1 DEF IInv, Working
  <1>4. NewVersion(Current) \in Versions
    BY <1>2, NewVersionIsNew
  <1>5. /\ reg' = [reg EXCEPT ![Current] = reg'[Current]] /\ reg'[Current] \in Entry
        /\ reg'[Current].src = cand /\ reg'[Current].version = NewVersion(Current)
        /\ reg'[Current].status = reg[Current].status
    BY <1>1, <1>2, <1>3, <1>4, EditedEntry
  <1>6. QED
    BY <1>1, <1>2, <1>3, <1>5 DEF Replaces

\* A due row has bytes, so its failure is one that falls back to them.
LEMMA BlamedRow ==
    ASSUME NEW s \in Source, Sound(s), s.enabled, clock \in 0..MaxClock
    PROVE  /\ Blamed(s) \in Source /\ Sound(Blamed(s)) /\ Blamed(s).attempt = clock
           /\ Settings(Blamed(s)) = Settings(s)
  <1>1. s.payload # None /\ s.payload = s.cfg
    BY DEF Sound
  <1>2. Blamed(s) = RecordFailure([s EXCEPT !.cached = TRUE], clock)
    BY <1>1 DEF Blamed
  <1>3. QED
    BY <1>1, <1>2, FailureRow

LEMMA ErrorWrites ==
    ASSUME IInv, RecordError, reg' # reg
    PROVE  \E src \in SourceList : Replaces(src)
  <1> DEFINE e == reg[Current]
             src == [i \in Sources |-> IF i \in blame \cap Rows(e.src) THEN Blamed(e.src[i])
                                       ELSE e.src[i]]
  <1>1. /\ pc = "failed" /\ Same
        /\ reg' = [reg EXCEPT ![Current].src = src, ![Current].version = NewVersion(Current)]
    BY DEF RecordError
  <1>2. /\ e = work[Current] /\ e \in Entry /\ Current \in Subs
        /\ TypeOK /\ clock \in 0..MaxClock
    BY <1>1, SameIsHeld, CurrentIsPending DEF IInv, TypeOK
  <1>3. e.src \in SourceList /\ Orderly(e.src, clock)
    BY <1>2, NoneIsNothing DEF Entry, IInv, RowsInOrder
  <1>4. blame \subseteq DueRows(e, at)
    BY <1>1, <1>2 DEF IInv, Working
  <1> HIDE DEF e
  <1>5. ASSUME NEW i \in Sources, i \in blame \cap Rows(e.src)
        PROVE  /\ Due(e, i, at) /\ src[i] \in Source /\ Sound(src[i]) /\ src[i].attempt = clock
               /\ Settings(src[i]) = Settings(e.src[i])
    <2>1. e.src[i] \in Source /\ Sound(e.src[i]) /\ Due(e, i, at) /\ e.src[i].enabled
      BY <1>3, <1>4, <1>5 DEF SourceList, Rows, Orderly, DueRows, Due
    <2>2. src[i] = Blamed(e.src[i])
      BY <1>5
    <2> HIDE DEF src
    <2>3. QED
      BY <1>2, <2>1, <2>2, BlamedRow
  <1>6. \A i \in Sources : i \notin blame \cap Rows(e.src) => src[i] = e.src[i]
    OBVIOUS
  <1>7. src = [i \in Sources |-> src[i]]
    OBVIOUS
  <1> HIDE DEF src
  <1>8. src \in SourceList
    BY <1>3, <1>5, <1>6, <1>7 DEF SourceList
  <1>9. Rows(src) = Rows(e.src)
    BY <1>5, <1>6, NoneIsNothing DEF Rows
  <1>10. Orderly(src, clock)
    BY <1>2, <1>3, <1>5, <1>6, <1>9 DEF Orderly, Rows
  <1>11. Supersedes(src, e.src)
    <2>1. ASSUME NEW i \in Rows(e.src), e.src[i].attempt # None
          PROVE  src[i].attempt # None /\ src[i].attempt >= e.src[i].attempt
      <3>1. i \in Sources /\ e.src[i] \in Source /\ e.src[i].attempt <= clock
        BY <1>3, <2>1 DEF Rows, SourceList, Orderly
      <3>2. e.src[i].attempt \in 0..MaxClock
        BY <2>1, <3>1, SourceFields
      <3>3. CASE i \in blame
        BY <1>2, <1>5, <2>1, <3>1, <3>2, <3>3, NoneIsNothing
      <3>4. CASE i \notin blame
        BY <1>6, <2>1, <3>1, <3>2, <3>4
      <3>5. QED
        BY <3>3, <3>4
    <2>2. QED
      BY <2>1 DEF Supersedes
  <1>12. Refreshed(e, src, at)
    <2>1. ASSUME NEW i \in Rows(e.src)
          PROVE  IF Due(e, i, at) THEN Settings(src[i]) = Settings(e.src[i])
                 ELSE src[i] = e.src[i]
      BY <1>5, <1>6, <2>1 DEF Rows
    <2>2. QED
      BY <1>9, <1>11, <2>1 DEF Refreshed
  <1>13. NewVersion(Current) \in Versions
    BY <1>2, NewVersionIsNew
  <1>14. /\ reg' = [reg EXCEPT ![Current] = reg'[Current]] /\ reg'[Current] \in Entry
         /\ reg'[Current].src = src /\ reg'[Current].version = NewVersion(Current)
         /\ reg'[Current].status = reg[Current].status
    BY <1>1, <1>2, <1>8, <1>13, EditedEntry DEF e
  <1>15. QED
    BY <1>1, <1>2, <1>8, <1>10, <1>12, <1>14 DEF Replaces, e

-----------------------------------------------------------------------------
(* Inductiveness, step by step *)

\* A commit or none, and on to the next group or to the end.
LEMMA MovingOn ==
    ASSUME IInv, NEW left \in [Subs -> Entry \cup {None}],
           \A k \in Subs : left[k] = None \/ left[k] = work[k],
           Advance(left), UNCHANGED <<clock, web>>,
           reg' = reg \/ (pc # "idle" /\ \E src \in SourceList : Replaces(src))
    PROVE  IInv'
  <1>1. TypeOK /\ RowsInOrder /\ Held /\ Working
    BY DEF IInv
  <1>2. /\ Working' /\ work' = left /\ pc' \in {"idle", "run"} /\ at' \in 0..MaxClock
        /\ cand' = None /\ blame' = {} /\ clock' = clock /\ web' = web
    BY <1>1, Advancing
  <1>3. /\ reg' \in [Subs -> Entry \cup {None}]
        /\ \A k \in Subs : reg'[k] = reg[k]
              \/ (/\ reg'[k] # None /\ reg'[k].version = NewVersion(k)
                  /\ Orderly(reg'[k].src, clock))
    <2>1. CASE reg' = reg
      BY <1>1, <2>1 DEF TypeOK
    <2>2. CASE pc # "idle" /\ \E src \in SourceList : Replaces(src)
      <3>1. PICK src \in SourceList : Replaces(src)
        BY <2>2
      <3>2. Current \in Subs
        BY <1>1, <2>2, CurrentIsPending
      <3>3. /\ reg' = [reg EXCEPT ![Current] = reg'[Current]] /\ reg'[Current] \in Entry
            /\ reg'[Current].version = NewVersion(Current)
            /\ Orderly(reg'[Current].src, clock)
        BY <3>1 DEF Replaces
      <3>4. reg \in [Subs -> Entry \cup {None}]
        BY <1>1 DEF TypeOK
      <3>5. \A k \in Subs : k # Current => reg'[k] = reg[k]
        BY <3>2, <3>3, <3>4
      <3>6. reg' \in [Subs -> Entry \cup {None}]
        BY <3>2, <3>3, <3>4
      <3>7. QED
        BY <3>3, <3>5, <3>6, NoneIsNothing
    <2>3. QED
      BY <2>1, <2>2
  <1>4. TypeOK'
    BY <1>1, <1>2, <1>3 DEF TypeOK
  <1>5. RowsInOrder'
    BY <1>1, <1>2, <1>3 DEF RowsInOrder, Orderly, Rows
  <1>6. Held'
    BY <1>1, <1>2, <1>3, HeldKept
  <1>7. QED
    BY <1>2, <1>4, <1>5, <1>6 DEF IInv

LEMMA DropLeft ==
    ASSUME TypeOK
    PROVE  LET left == [work EXCEPT ![Current] = None]
           IN  left \in [Subs -> Entry \cup {None}] /\ \A k \in Subs : left[k] \in {None, work[k]}
  BY DEF TypeOK

\* The registry is read in one piece.
LEMMA ScanStep ==
    ASSUME IInv, Scan
    PROVE  IInv'
  <1>1. TypeOK /\ RowsInOrder /\ Held /\ Working
    BY DEF IInv
  <1>2. /\ pc' = "run" /\ at' = clock /\ UNCHANGED <<reg, clock, cand, blame, web>>
        /\ work' = [k \in Subs |-> IF k \in Selected(clock) THEN reg[k] ELSE None]
        /\ Groups(clock) # {}
    BY DEF Scan
  <1>3. Selected(clock) # {} /\ Selected(clock) \subseteq Groups(clock)
    BY <1>1, <1>2, SelectedSome DEF Selected
  <1>4. \A k \in Groups(clock) : k \in Subs /\ reg[k] \in Entry /\ DueRows(reg[k], clock) # {}
    BY <1>1 DEF Groups, DueRows, Due, TypeOK
  <1>5. \A k \in Subs : work'[k] = None \/ (k \in Groups(clock) /\ work'[k] = reg[k])
    BY <1>2, <1>3
  <1>6. \E k \in Subs : work'[k] # None
    BY <1>2, <1>3, <1>4, NoneIsNothing
  <1>7. TypeOK'
    BY <1>1, <1>2 DEF TypeOK
  <1>8. RowsInOrder'
    BY <1>1, <1>2, <1>5 DEF RowsInOrder, Orderly, Rows
  <1>9. Held'
    BY <1>1, <1>2, <1>5 DEF Held, VersionOf, Supersedes, Rows
  <1>10. Working'
    <2>1. Pending' # {} /\ \A k \in Pending' : DueRows(work'[k], at') # {}
      BY <1>2, <1>4, <1>5, <1>6 DEF Pending
    <2>2. clock \in 0..MaxClock
      BY <1>1 DEF TypeOK
    <2>3. at' <= clock' /\ pc' # "ready" /\ pc' # "failed"
      BY <1>2, <2>2
    <2>4. QED
      BY <2>1, <2>3 DEF Working
  <1>11. QED
    BY <1>7, <1>8, <1>9, <1>10 DEF IInv

\* A fetch that nothing refuses: the due rows of the entry are made again.
LEMMA FetchedRows ==
    ASSUME IInv, pc = "run",
           NEW ok \in SUBSET DueRows(work[Current], at),
           Refusing(work[Current].src, Unasked(work[Current].src),
                    DueRows(work[Current], at), ok) = {}
    PROVE  LET e == work[Current]
               c == Candidate(e.src, Unasked(e.src), DueRows(e, at), ok)
           IN  c \in SourceList /\ Orderly(c, clock) /\ Refreshed(e, c, at)
  <1> DEFINE e == work[Current]
             due == DueRows(e, at)
             asked == Unasked(e.src)
             c == Candidate(e.src, asked, due, ok)
  <1>1. e \in Entry /\ e \in {work[k] : k \in Pending} /\ clock \in 0..MaxClock
    BY CurrentIsPending DEF IInv, TypeOK
  <1>2. e.src \in SourceList /\ Orderly(e.src, clock)
    BY <1>1 DEF Entry, Pending, IInv, RowsInOrder
  <1>3. due \in SUBSET Sources /\ ok \in SUBSET Sources
    BY DEF DueRows
  <1>4. Refusing(e.src, asked, due, ok) = {}
    OBVIOUS
  <1>5. \A i \in Sources : i \in due <=> Due(e, i, at)
    BY DEF DueRows
  <1> HIDE DEF e, due
  <1>6. asked \in [Sources -> Ask \cup {None}]
    BY <1>2, UnaskedRows
  <1>7. \A i \in Sources : asked[i] # None => e.src[i] # None
    BY <1>2, UnaskedRows
  <1>8. \A i \in Sources : asked[i] = None <=> e.src[i] = None
    BY <1>2, UnaskedRows, NoneIsNothing
  <1>9. \A i \in Rows(e.src) : <<asked[i].cfg, asked[i].enabled, asked[i].interval>>
                                 = Settings(e.src[i])
    BY <1>2, UnaskedRows DEF Rows, Settings
  <1>10. Certified(e.src, asked, due)
    BY <1>3, <1>6, <1>7 DEF Certified
  <1>11. Remade(e.src, asked, due, c)
    BY <1>1, <1>2, <1>3, <1>4, <1>10, CandidateRows
  <1> DEFINE src == e.src
  <1>12. asked = Unasked(src)
    OBVIOUS
  <1> HIDE DEF c, asked, src
  <1>13. /\ c \in SourceList /\ Orderly(c, clock) /\ Supersedes(c, src)
         /\ \A i \in Sources : asked[i] = None <=> c[i] = None
         /\ \A i \in Rows(c) :
              Settings(c[i]) = <<asked[i].cfg, asked[i].enabled, asked[i].interval>>
         /\ \A i \in Rows(src) \ due : c[i] = src[i]
    BY <1>11, <1>12 DEF Remade, src
  <1>14. Rows(c) = Rows(src)
    BY <1>8, <1>13 DEF Rows, src
  <1>15. Refreshed(e, c, at)
    <2>1. ASSUME NEW i \in Rows(src)
          PROVE  IF Due(e, i, at) THEN Settings(c[i]) = Settings(src[i]) ELSE c[i] = src[i]
      <3>1. i \in Sources
        BY DEF Rows
      <3>2. QED
        BY <1>5, <1>9, <1>13, <1>14, <3>1 DEF src
    <2>2. QED
      BY <1>13, <1>14, <2>1 DEF Refreshed, src
  <1>16. QED
    BY <1>13, <1>15 DEF c, asked, e, due, src

\* Only a due row refuses an automatic refresh.
LEMMA BlamedAreDue ==
    ASSUME NEW src \in SourceList, NEW due \in SUBSET Sources, NEW ok \in SUBSET due,
           NEW i \in Refusing(src, Unasked(src), due, ok), Fetches(src[i], src[i], i \in due)
    PROVE  i \in due
  <1>1. i \in Sources /\ Unasked(src)[i] # None
    BY DEF Refusing
  <1>2. src[i] # None
    BY <1>1, UnaskedRows
  <1>3. QED
    BY <1>2 DEF Fetches, Changed

\* The first lock and the fetch.
LEMMA FetchStep ==
    ASSUME IInv, Fetch
    PROVE  IInv'
  <1> DEFINE e == work[Current]
             due == DueRows(e, at)
  <1>1. TypeOK /\ RowsInOrder /\ Held /\ Working /\ pc = "run" /\ UNCHANGED <<reg, clock, web>>
    BY DEF IInv, Fetch
  <1>2. CASE ~Same /\ Drop
    BY <1>1, <1>2, DropLeft, MovingOn DEF Drop
  <1>3. ASSUME UNCHANGED <<at, work>>,
               \/ /\ pc' = "ready" /\ blame' = blame
                  /\ cand' \in SourceList /\ Orderly(cand', clock) /\ Refreshed(e, cand', at)
               \/ pc' = "failed" /\ cand' = cand /\ blame' \subseteq due
        PROVE  IInv'
    <2>1. TypeOK'
      BY <1>1, <1>3 DEF TypeOK, DueRows
    <2>2. RowsInOrder' /\ Held'
      BY <1>1, <1>3 DEF RowsInOrder, Held, Orderly, Rows, VersionOf, Supersedes
    <2>3. Current' = Current /\ Pending' = Pending
      BY <1>3, CurrentStays
    <2>4. Orderly(cand', clock) => Orderly(cand', clock')
      BY <1>1
    <2>5. work'[Current'] = e /\ at' = at /\ clock' = clock /\ work' = work
      BY <1>1, <1>3, <2>3
    <2> HIDE DEF e
    <2>6. Working'
      <3>1. at' <= clock' /\ Pending' # {} /\ \A k \in Pending' : DueRows(work'[k], at') # {}
        BY <1>1, <2>3, <2>5 DEF Working
      <3>2. pc' = "ready" => cand' \in SourceList /\ Orderly(cand', clock')
                             /\ Refreshed(work'[Current'], cand', at')
        BY <1>3, <2>4, <2>5
      <3>3. pc' = "failed" => blame' \subseteq DueRows(work'[Current'], at')
        BY <1>3, <2>5
      <3>4. QED
        BY <3>1, <3>2, <3>3 DEF Working
    <2>7. QED
      BY <2>1, <2>2, <2>6 DEF IInv
  <1>4. ASSUME Same,
               NEW ok \in SUBSET due,
               LET no == Refusing(e.src, Unasked(e.src), due, ok)
               IN  IF no = {}
                   THEN \/ /\ cand' = Candidate(e.src, Unasked(e.src), due, ok)
                           /\ pc' = "ready"
                           /\ UNCHANGED <<at, work, blame>>
                        \/ /\ blame' = due
                           /\ pc' = "failed"
                           /\ UNCHANGED <<at, work, cand>>
                   ELSE /\ \E i \in no : blame' = IF Fetches(e.src[i], e.src[i], i \in due)
                                                  THEN {i} ELSE due
                        /\ pc' = "failed"
                        /\ UNCHANGED <<at, work, cand>>
        PROVE  IInv'
    <2> DEFINE no == Refusing(e.src, Unasked(e.src), due, ok)
    <2>1. ASSUME no = {}, cand' = Candidate(e.src, Unasked(e.src), due, ok), pc' = "ready",
                 UNCHANGED <<at, work, blame>>
          PROVE  IInv'
      BY <1>1, <1>3, <2>1, FetchedRows
    <2>2. ASSUME blame' = due, pc' = "failed", UNCHANGED <<at, work, cand>>
          PROVE  IInv'
      BY <1>3, <2>2
    <2>3. ASSUME NEW i \in no, blame' = IF Fetches(e.src[i], e.src[i], i \in due) THEN {i} ELSE due,
                 pc' = "failed", UNCHANGED <<at, work, cand>>
          PROVE  IInv'
      <3>1. e.src \in SourceList
        BY <1>1, CurrentIsPending DEF Entry
      <3>2. due \in SUBSET Sources
        BY DEF DueRows
      <3>3. Fetches(e.src[i], e.src[i], i \in due) => i \in due
        BY <3>1, <3>2, BlamedAreDue
      <3>4. blame' \subseteq due
        BY <2>3, <3>3
      <3>5. QED
        BY <1>3, <2>3, <3>4
    <2>4. QED
      BY <1>4, <2>1, <2>2, <2>3
  <1>5. QED
    BY <1>2, <1>4 DEF Fetch

\* The second lock, and the record of a failure.
LEMMA CommitStep ==
    ASSUME IInv, Commit
    PROVE  IInv'
  <1>1. /\ pc # "idle" /\ Advance([work EXCEPT ![Current] = None]) /\ UNCHANGED <<clock, web>>
        /\ TypeOK
    BY DEF Commit, Drop, IInv
  <1>2. reg' = reg \/ \E src \in SourceList : Replaces(src)
    BY CommitWrites
  <1>3. QED
    BY <1>1, <1>2, DropLeft, MovingOn

LEMMA ErrorStep ==
    ASSUME IInv, RecordError
    PROVE  IInv'
  <1>1. /\ pc # "idle" /\ Advance([work EXCEPT ![Current] = None]) /\ UNCHANGED <<clock, web>>
        /\ TypeOK
    BY DEF RecordError, Drop, IInv
  <1>2. reg' = reg \/ \E src \in SourceList : Replaces(src)
    BY ErrorWrites
  <1>3. QED
    BY <1>1, <1>2, DropLeft, MovingOn

\* A kill or a disk error.
LEMMA StopStep ==
    ASSUME IInv, Stop
    PROVE  IInv'
  <1>1. Advance(NoWork(Subs)) /\ UNCHANGED <<clock, web>> /\ reg' = reg
    BY DEF Stop, Exit
  <1>2. /\ NoWork(Subs) \in [Subs -> Entry \cup {None}]
        /\ \A k \in Subs : NoWork(Subs)[k] = None
    BY DEF NoWork
  <1>3. QED
    BY <1>1, <1>2, MovingOn

\* A form or a source action makes its candidate.
LEMMA BuildStep ==
    ASSUME IInv, NEW k \in Subs, Build(k)
    PROVE  IInv'
  <1> DEFINE src == IF reg[k] = None THEN [i \in Sources |-> None] ELSE reg[k].src
  <1>1. TypeOK /\ RowsInOrder /\ Held /\ Working
    BY DEF IInv
  <1>2. PICK q \in Requests(src), ok \in SUBSET Sources :
          /\ Refusing(src, q[1], q[2], ok) = {}
          /\ web' = [key |-> k, old |-> VersionOf(reg[k]),
                     status |-> IF reg[k] = None THEN "active" ELSE reg[k].status,
                     src |-> Candidate(src, q[1], q[2], ok)]
    BY DEF Build
  <1>3. UNCHANGED <<reg, clock, pc, at, work, cand, blame>>
    BY DEF Build, jobvars
  <1>4. src \in SourceList /\ Orderly(src, clock)
    <2>1. CASE reg[k] = None
      BY <2>1 DEF SourceList, Orderly, Rows
    <2>2. CASE reg[k] # None
      BY <1>1, <2>2 DEF TypeOK, RowsInOrder, Entry
    <2>3. QED
      BY <2>1, <2>2
  <1>5. reg[k] # None => src = reg[k].src
    OBVIOUS
  <1> DEFINE c == Candidate(src, q[1], q[2], ok)
             status == IF reg[k] = None THEN "active" ELSE reg[k].status
  <1>6. VersionOf(reg[k]) \in Versions \cup {None} /\ status \in {"active", "disabled"}
    BY <1>1 DEF TypeOK, VersionOf, Entry
  <1> HIDE DEF src
  <1>7. Certified(src, q[1], q[2])
    BY <1>4, RequestRows
  <1>8. Remade(src, q[1], q[2], c)
    BY <1>1, <1>2, <1>4, <1>7, CandidateRows DEF TypeOK
  <1>9. c \in SourceList /\ Orderly(c, clock) /\ Supersedes(c, src)
    BY <1>8 DEF Remade
  <1>10. web' = [key |-> k, old |-> VersionOf(reg[k]), status |-> status, src |-> c]
    BY <1>2
  <1> HIDE DEF c, status
  <1>11. TypeOK'
    BY <1>1, <1>3, <1>6, <1>9, <1>10 DEF TypeOK
  <1>12. RowsInOrder'
    <2>1. Orderly(web'.src, clock)
      BY <1>9, <1>10
    <2>2. QED
      BY <1>1, <1>3, <2>1 DEF RowsInOrder, Orderly, Rows
  <1>13. Held'
    <2>1. reg[k] # None => Supersedes(web'.src, reg[k].src)
      BY <1>5, <1>9, <1>10
    <2>2. QED
      BY <1>1, <1>3, <1>10, <2>1 DEF Held, VersionOf, Supersedes, Rows
  <1>14. Working'
    <2>1. Current' = Current /\ Pending' = Pending
      BY <1>3, CurrentStays
    <2>2. work'[Current'] = work[Current] /\ at' = at /\ cand' = cand /\ clock' = clock
      BY <1>3, <2>1
    <2>3. QED
      BY <1>1, <1>3, <2>1, <2>2 DEF Working, Orderly, Refreshed, Supersedes
  <1>15. QED
    BY <1>11, <1>12, <1>13, <1>14 DEF IInv

\* The job is where it was.
LEMMA WorkingKept ==
    ASSUME TypeOK, Working, UNCHANGED jobvars, clock' \in Int, clock' >= clock
    PROVE  Working'
  <1>1. UNCHANGED <<pc, at, work, cand, blame>>
    BY DEF jobvars
  <1>2. Current' = Current /\ Pending' = Pending
    BY <1>1, CurrentStays
  <1>3. at \in Int /\ clock \in Int
    BY DEF TypeOK
  <1>4. work'[Current'] = work[Current]
    BY <1>1, <1>2
  <1>5. ASSUME pc = "ready"
        PROVE  Orderly(cand, clock')
    <2>1. cand \in SourceList /\ Orderly(cand, clock)
      BY <1>5 DEF Working
    <2>2. \A i \in Rows(cand) : cand[i].attempt \in (0..MaxClock) \cup {None}
      BY <2>1, SourceFields DEF SourceList, Rows
    <2>3. \A i \in Rows(cand) : cand[i].attempt # None => cand[i].attempt <= clock'
      BY <1>3, <2>1, <2>2 DEF Orderly
    <2>4. QED
      BY <2>1, <2>3 DEF Orderly
  <1>6. QED
    BY <1>1, <1>2, <1>3, <1>4, <1>5 DEF Working

\* An administrator's commit: the entry k is gone, or has the rows src.
LEMMA AdminWrites ==
    ASSUME IInv, NEW k \in Subs, NEW new \in Entry \cup {None},
           reg' = [reg EXCEPT ![k] = new],
           new # None => new.version = NewVersion(k) /\ Orderly(new.src, clock),
           UNCHANGED <<clock, jobvars>>, web' = web \/ web' = None
    PROVE  IInv'
  <1>1. TypeOK /\ RowsInOrder /\ Held /\ Working /\ UNCHANGED <<pc, at, work, cand, blame>>
    BY DEF IInv, jobvars
  <1>2. /\ reg' \in [Subs -> Entry \cup {None}]
        /\ \A j \in Subs : reg'[j] = IF j = k THEN new ELSE reg[j]
    BY <1>1 DEF TypeOK
  <1>3. TypeOK'
    BY <1>1, <1>2 DEF TypeOK
  <1>4. RowsInOrder'
    BY <1>1, <1>2 DEF RowsInOrder, Orderly, Rows
  <1>5. Held'
    BY <1>1, <1>2, HeldKept
  <1>6. Working'
    BY <1>1, WorkingKept DEF TypeOK
  <1>7. QED
    BY <1>3, <1>4, <1>5, <1>6 DEF IInv

\* The second lock of an administrator's save.
LEMMA SaveStep ==
    ASSUME IInv, Save
    PROVE  IInv'
  <1>1. web # None /\ web' = None /\ UNCHANGED <<clock, jobvars>>
    BY DEF Save
  <1>2. /\ web.key \in Subs /\ web.status \in {"active", "disabled"} /\ web.src \in SourceList
        /\ Orderly(web.src, clock) /\ reg \in [Subs -> Entry \cup {None}] /\ TypeOK
    BY <1>1 DEF IInv, TypeOK, RowsInOrder
  <1>3. CASE reg' = reg
    <2>1. TypeOK /\ RowsInOrder /\ Held /\ Working /\ UNCHANGED <<pc, at, work, cand, blame>>
      BY <1>1 DEF IInv, jobvars
    <2>2. TypeOK'
      BY <1>1, <1>3, <2>1 DEF TypeOK
    <2>3. RowsInOrder'
      BY <1>1, <1>3, <2>1 DEF RowsInOrder, Orderly, Rows
    <2>4. Held'
      BY <1>1, <1>3, <2>1, HeldKept
    <2>5. Working'
      BY <1>1, <2>1, WorkingKept DEF TypeOK
    <2>6. QED
      BY <2>2, <2>3, <2>4, <2>5 DEF IInv
  <1>4. CASE reg' = [reg EXCEPT ![web.key] =
                [version |-> NewVersion(web.key), status |-> web.status, src |-> web.src]]
    <2> DEFINE new == [version |-> NewVersion(web.key), status |-> web.status, src |-> web.src]
    <2>1. NewVersion(web.key) \in Versions
      BY <1>2, NewVersionIsNew
    <2>2. new \in Entry /\ new.version = NewVersion(web.key) /\ new.src = web.src
      BY <1>2, <2>1 DEF Entry
    <2> HIDE DEF new
    <2>3. reg' = [reg EXCEPT ![web.key] = new]
      BY <1>4 DEF new
    <2>4. QED
      BY <1>1, <1>2, <2>2, <2>3, AdminWrites
  <1>5. QED
    BY <1>3, <1>4 DEF Save

\* Managing an entry moves its version and its status.
LEMMA ManageStep ==
    ASSUME IInv, NEW k \in Subs, NEW act \in {"delete", "active", "disabled", "touch"},
           Manage(k, act)
    PROVE  IInv'
  <1>1. /\ reg[k] # None /\ reg' = [reg EXCEPT ![k] = Managed(k, act)]
        /\ UNCHANGED <<clock, jobvars>> /\ web' = web
    BY DEF Manage
  <1>2. reg[k] \in Entry /\ Orderly(reg[k].src, clock) /\ NewVersion(k) \in Versions
    BY <1>1, NewVersionIsNew DEF IInv, TypeOK, RowsInOrder
  <1> DEFINE old == reg[k]
             new == Managed(k, act)
  <1>3. new = None \/ (new \in Entry /\ new.version = NewVersion(k) /\ new.src = old.src)
    <2>1. CASE act = "delete"
      BY <2>1 DEF Managed
    <2>2. CASE act \in {"active", "disabled"}
      <3>1. new = [old EXCEPT !.version = NewVersion(k), !.status = act] /\ old \in Entry
        BY <1>2, <2>2 DEF Managed
      <3> HIDE DEF old, new
      <3>2. QED
        BY <1>2, <2>2, <3>1 DEF Entry
    <2>3. CASE act = "touch"
      <3>1. new = [old EXCEPT !.version = NewVersion(k)] /\ old \in Entry
        BY <1>2, <2>3 DEF Managed
      <3> HIDE DEF old, new
      <3>2. QED
        BY <1>2, <3>1 DEF Entry
    <2>4. QED
      BY <2>1, <2>2, <2>3
  <1> HIDE DEF new
  <1>4. new \in Entry \cup {None}
        /\ (new # None => new.version = NewVersion(k) /\ Orderly(new.src, clock))
    BY <1>2, <1>3
  <1>5. reg' = [reg EXCEPT ![k] = new]
    BY <1>1 DEF new
  <1>6. QED
    BY <1>1, <1>4, <1>5, AdminWrites

\* Time passes, and no attempt gets younger.
LEMMA TickStep ==
    ASSUME IInv, Tick
    PROVE  IInv'
  <1>1. /\ TypeOK /\ RowsInOrder /\ Held /\ Working
        /\ clock' = clock + 1 /\ clock < MaxClock /\ UNCHANGED <<reg, jobvars, web>>
        /\ UNCHANGED <<pc, at, work, cand, blame>>
    BY DEF IInv, Tick, jobvars
  <1>2. clock \in 0..MaxClock /\ clock' \in 0..MaxClock /\ clock' >= clock
    BY <1>1 DEF TypeOK
  <1>3. ASSUME NEW src \in SourceList, Orderly(src, clock)
        PROVE  Orderly(src, clock')
    <2>1. \A i \in Rows(src) : src[i].attempt \in (0..MaxClock) \cup {None}
      BY SourceFields DEF SourceList, Rows
    <2>2. \A i \in Rows(src) : src[i].attempt # None => src[i].attempt <= clock'
      BY <1>1, <1>2, <1>3, <2>1 DEF Orderly
    <2>3. QED
      BY <1>3, <2>2 DEF Orderly
  <1>4. TypeOK'
    BY <1>1, <1>2 DEF TypeOK
  <1>5. RowsInOrder'
    <2>1. \A k \in Subs : reg[k] # None => reg[k].src \in SourceList /\ Orderly(reg[k].src, clock)
      BY <1>1 DEF TypeOK, Entry, RowsInOrder
    <2>2. \A k \in Subs :
            work[k] # None => work[k].src \in SourceList /\ Orderly(work[k].src, clock)
      BY <1>1 DEF TypeOK, Entry, RowsInOrder
    <2>3. web # None => web.src \in SourceList /\ Orderly(web.src, clock)
      BY <1>1 DEF TypeOK, RowsInOrder
    <2>4. /\ \A k \in Subs : reg[k] # None => Orderly(reg[k].src, clock')
          /\ \A k \in Subs : work[k] # None => Orderly(work[k].src, clock')
          /\ web # None => Orderly(web.src, clock')
      BY <1>3, <2>1, <2>2, <2>3
    <2>5. QED
      BY <1>1, <2>4 DEF RowsInOrder
  <1>6. Held'
    BY <1>1, HeldKept
  <1>7. Working'
    BY <1>1, <1>2, WorkingKept
  <1>8. QED
    BY <1>4, <1>5, <1>6, <1>7 DEF IInv

LEMMA StutterStep ==
    ASSUME IInv, UNCHANGED vars
    PROVE  IInv'
  <1>1. /\ TypeOK /\ RowsInOrder /\ Held /\ Working
        /\ UNCHANGED <<reg, clock, web, jobvars>> /\ UNCHANGED <<pc, at, work, cand, blame>>
    BY DEF IInv, vars, jobvars
  <1>2. TypeOK'
    BY <1>1 DEF TypeOK
  <1>3. RowsInOrder'
    BY <1>1 DEF RowsInOrder, Orderly, Rows
  <1>4. Held'
    BY <1>1, HeldKept
  <1>5. Working'
    BY <1>1, WorkingKept DEF TypeOK
  <1>6. QED
    BY <1>2, <1>3, <1>4, <1>5 DEF IInv

LEMMA InitIInv == Init => IInv
  <1> SUFFICES ASSUME Init
               PROVE  IInv
    OBVIOUS
  <1>1. /\ reg \in [Subs -> Entry \cup {None}] /\ clock = 0 /\ pc = "idle" /\ at = 0
        /\ work = NoWork(Subs) /\ cand = None /\ blame = {} /\ web = None
        /\ \A k \in Subs : reg[k] # None => Orderly(reg[k].src, clock)
    BY StartAssumption DEF Init, StartAssumption
  <1>2. work \in [Subs -> Entry \cup {None}] /\ \A k \in Subs : work[k] = None
    BY <1>1 DEF NoWork
  <1>3. TypeOK
    BY <1>1, <1>2 DEF TypeOK
  <1>4. RowsInOrder /\ Held
    BY <1>1, <1>2 DEF RowsInOrder, Held
  <1>5. Working
    BY <1>1, <1>2 DEF Working, Pending
  <1>6. QED
    BY <1>3, <1>4, <1>5 DEF IInv

LEMMA StepIInv == IInv /\ [Next]_vars => IInv'
  <1> SUFFICES ASSUME IInv, [Next]_vars
               PROVE  IInv'
    OBVIOUS
  <1>1. CASE Scan
    BY <1>1, ScanStep
  <1>2. CASE Fetch
    BY <1>2, FetchStep
  <1>3. CASE Commit
    BY <1>3, CommitStep
  <1>4. CASE RecordError
    BY <1>4, ErrorStep
  <1>5. CASE Stop
    BY <1>5, StopStep
  <1>6. ASSUME NEW k \in Subs, Build(k)
        PROVE  IInv'
    BY <1>6, BuildStep
  <1>7. ASSUME NEW k \in Subs, NEW act \in {"delete", "active", "disabled", "touch"},
               Manage(k, act)
        PROVE  IInv'
    BY <1>7, ManageStep
  <1>8. CASE Save
    BY <1>8, SaveStep
  <1>9. CASE Tick
    BY <1>9, TickStep
  <1>10. CASE UNCHANGED vars
    BY <1>10, StutterStep
  <1>11. QED
    BY <1>1, <1>2, <1>3, <1>4, <1>5, <1>6, <1>7, <1>8, <1>9, <1>10 DEF Next, Job, Admin

\* The invariant of the scheduled refresh holds whatever is interleaved.
THEOREM Inductive == Spec => []IInv
  <1>1. QED
    BY InitIInv, StepIInv, PTL DEF Spec

LEMMA SoundRows ==
    ASSUME IInv
    PROVE  ServedAsConfigured /\ NextIsEarned /\ ValidSchedule
  <1>1. \A k \in Subs : reg[k] # None => \A i \in Rows(reg[k].src) : Sound(reg[k].src[i])
    BY DEF IInv, RowsInOrder, Orderly
  <1>2. ServedAsConfigured
    BY <1>1 DEF ServedAsConfigured, AllRows, Sound
  <1>3. NextIsEarned
    BY <1>1 DEF NextIsEarned, AllRows, Sound
  <1>4. ValidSchedule
    BY <1>1 DEF ValidSchedule, AllRows, Sound, IInv
  <1>5. QED
    BY <1>2, <1>3, <1>4

\* An enabled row always has bytes, fetched under its own URL and format, through
\* any sequence of edits, failed fetches, disables, kills and concurrent scans.
THEOREM RowsServeTheirConfiguration == Spec => []ServedAsConfigured
  <1>1. IInv => ServedAsConfigured
    BY SoundRows
  <1>2. QED
    BY <1>1, Inductive, PTL

\* The next attempt of an enabled, scheduled row is always the last one plus the
\* delay that its interval and its failures call for.
THEOREM NextAttemptIsEarned == Spec => []NextIsEarned
  <1>1. IInv => NextIsEarned
    BY SoundRows
  <1>2. QED
    BY <1>1, Inductive, PTL

\* Every stored schedule passes refresh_schedule.valid, and a failure is counted
\* only for a row that still serves its last good bytes.
THEOREM SchedulesStayValid == Spec => []ValidSchedule
  <1>1. IInv => ValidSchedule
    BY SoundRows
  <1>2. QED
    BY <1>1, Inductive, PTL

-----------------------------------------------------------------------------
(* What a step may do to the rows *)

\* The job's part of a step: a commit of due rows, or nothing.
LEMMA JobTouches ==
    ASSUME IInv, Commit \/ RecordError, NEW k \in Subs, reg'[k] # reg[k]
    PROVE  /\ reg[k] # None /\ reg'[k] # None /\ reg'[k].status = reg[k].status
           /\ Refreshed(reg[k], reg'[k].src, at)
  <1>1. \E src \in SourceList : Replaces(src)
    BY CommitWrites, ErrorWrites
  <1>2. PICK src \in SourceList : Replaces(src)
    BY <1>1
  <1>3. reg \in [Subs -> Entry \cup {None}]
    BY DEF IInv, TypeOK
  <1>4. k = Current
    BY <1>2, <1>3 DEF Replaces
  <1>5. QED
    BY <1>2, <1>4, NoneIsNothing DEF Replaces

\* Only the two writes of the job change an entry and its own place at once.
LEMMA OthersLeave ==
    ASSUME Next, pc \in {"ready", "failed"}, pc' # pc
    PROVE  Commit \/ RecordError \/ reg' = reg
  <1>1. Scan \/ Fetch => FALSE
    BY DEF Scan, Fetch
  <1>2. Stop => reg' = reg
    BY DEF Stop
  <1>3. Tick => reg' = reg
    BY DEF Tick
  <1>4. Save \/ (\E k \in Subs : Build(k)) => pc' = pc
    BY DEF Save, Build, jobvars
  <1>5. (\E k \in Subs, act \in {"delete", "active", "disabled", "touch"} : Manage(k, act))
           => pc' = pc
    BY DEF Manage, jobvars
  <1>6. QED
    BY <1>1, <1>2, <1>3, <1>4, <1>5 DEF Next, Job, Admin

\* However long a scan takes, what it writes is about rows due in the registry
\* as it is when it writes: no setting, no other row, no status, nothing of a
\* disabled or deleted subscription.
THEOREM RefreshTouchesOnlyDue == Spec => AutoTouchesOnlyDue
  <1> DEFINE A == \A k \in Subs : JobWrites(k) =>
                     /\ reg[k] # None /\ reg'[k] # None
                     /\ reg'[k].status = reg[k].status
                     /\ Rows(reg'[k].src) = Rows(reg[k].src)
                     /\ \A i \in Rows(reg[k].src) :
                          IF Due(reg[k], i, at)
                          THEN Settings(reg'[k].src[i]) = Settings(reg[k].src[i])
                          ELSE reg'[k].src[i] = reg[k].src[i]
  <1>1. ASSUME IInv, [Next]_vars
        PROVE  A
    <2> SUFFICES ASSUME NEW k \in Subs, JobWrites(k)
                 PROVE  /\ reg[k] # None /\ reg'[k] # None
                        /\ reg'[k].status = reg[k].status
                        /\ Refreshed(reg[k], reg'[k].src, at)
      BY DEF Refreshed
    <2>1. pc \in {"ready", "failed"} /\ pc' # pc /\ reg'[k] # reg[k]
      BY DEF JobWrites
    <2>2. Next
      BY <1>1, <2>1 DEF vars
    <2>3. Commit \/ RecordError
      BY <2>1, <2>2, OthersLeave
    <2>4. QED
      BY <1>1, <2>1, <2>3, JobTouches
  <1>2. QED
    BY <1>1, Inductive, PTL DEF Spec, AutoTouchesOnlyDue

\* A candidate fetched before another attempt was recorded never overwrites it:
\* the last attempt of a row never goes back.
THEOREM AttemptsNeverGoBack == Spec => AttemptsAdvance
  <1> DEFINE A == \A k \in Subs : reg[k] # None /\ reg'[k] # None =>
                     \A i \in Rows(reg[k].src) \cap Rows(reg'[k].src) :
                        reg[k].src[i].attempt # None =>
                           /\ reg'[k].src[i].attempt # None
                           /\ reg'[k].src[i].attempt >= reg[k].src[i].attempt
  <1>1. ASSUME IInv, [Next]_vars
        PROVE  A
    <2> SUFFICES ASSUME NEW k \in Subs, reg[k] # None, reg'[k] # None
                 PROVE  Supersedes(reg'[k].src, reg[k].src)
      BY DEF Supersedes
    <2>1. reg[k].src \in SourceList /\ reg[k] \in Entry
      BY <1>1 DEF IInv, TypeOK, Entry
    <2>2. ASSUME reg'[k].src = reg[k].src
          PROVE  Supersedes(reg'[k].src, reg[k].src)
      <3>1. \A i \in Rows(reg[k].src) : reg[k].src[i].attempt \in (0..MaxClock) \cup {None}
        BY <2>1, SourceFields DEF SourceList, Rows
      <3>2. QED
        BY <2>2, <3>1 DEF Supersedes
    <2>3. CASE reg' = reg
      BY <2>2, <2>3
    <2>4. CASE (Commit \/ RecordError) /\ reg'[k] # reg[k]
      BY <1>1, <2>4, JobTouches DEF Refreshed
    <2>5. CASE Save
      <3>1. CASE /\ Unmoved(web.key, web.old)
                 /\ reg' = [reg EXCEPT ![web.key] = [version |-> NewVersion(web.key),
                              status |-> web.status, src |-> web.src]]
        <4>1. web # None /\ reg \in [Subs -> Entry \cup {None}]
          BY <1>1, <2>5 DEF Save, IInv, TypeOK
        <4>2. k # web.key => reg'[k] = reg[k]
          BY <3>1, <4>1
        <4>3. k = web.key => reg'[k].src = web.src /\ reg[k].version = web.old
          BY <3>1, <4>1 DEF Unmoved, VersionOf
        <4>4. k = web.key => Supersedes(web.src, reg[k].src)
          BY <1>1, <4>1, <4>3 DEF IInv, Held
        <4>5. QED
          BY <2>2, <4>2, <4>3, <4>4
      <3>2. QED
        BY <2>3, <2>5, <3>1 DEF Save
    <2>6. ASSUME NEW j \in Subs, NEW act \in {"delete", "active", "disabled", "touch"},
                 Manage(j, act)
          PROVE  Supersedes(reg'[k].src, reg[k].src)
      <3>1. reg' = [reg EXCEPT ![j] = Managed(j, act)] /\ reg \in [Subs -> Entry \cup {None}]
        BY <1>1, <2>6 DEF Manage, IInv, TypeOK
      <3>2. CASE j # k
        BY <2>2, <3>1, <3>2
      <3>3. CASE j = k
        <4>1. Managed(k, act) # None /\ reg'[k] = Managed(k, act)
          BY <3>1, <3>3
        <4>2. Managed(k, act).src = reg[k].src
          BY <2>1, <4>1 DEF Managed, Entry
        <4>3. QED
          BY <2>2, <4>1, <4>2
      <3>4. QED
        BY <3>2, <3>3
    <2>7. reg' = reg \/ Commit \/ RecordError \/ Save
             \/ \E j \in Subs, act \in {"delete", "active", "disabled", "touch"} : Manage(j, act)
      BY <1>1 DEF Next, Job, Admin, Scan, Fetch, Stop, Build, Tick, vars
    <2>8. CASE Commit \/ RecordError
      BY <2>2, <2>4, <2>8
    <2>9. QED
      BY <2>3, <2>5, <2>6, <2>7, <2>8
  <1>2. QED
    BY <1>1, Inductive, PTL DEF Spec, AttemptsAdvance

-----------------------------------------------------------------------------
(* Sums over finite sets, one element after the other *)

\* From here on the assumptions are opened where they are needed.
HIDE DEF TimeAssumption, OrderAssumption, NoneAssumption

\* The order is the one of the library's folds.
First(s) == CHOOSE x \in s : TRUE

\* g is the sum of w over every part of S.
Adds(g, w, S) ==
    \A s \in SUBSET S : g[s] = IF s = {} THEN 0 ELSE w[First(s)] + g[s \ {First(s)}]

\* Any element may be added first.
AnyFirst(g, w, S) == \A s \in SUBSET S : \A x \in s : g[s] = w[x] + g[s \ {x}]

\* Parts of a finite set, and what is left of one when an element is taken.
LEMMA Smaller ==
    ASSUME NEW S, IsFiniteSet(S)
    PROVE  \A s \in SUBSET S :
             /\ Cardinality(s) \in Nat /\ (Cardinality(s) = 0 <=> s = {})
             /\ \A x \in s : s \ {x} \in SUBSET S /\ Cardinality(s \ {x}) = Cardinality(s) - 1
             /\ s # {} => First(s) \in s
  <1>1. ASSUME NEW s \in SUBSET S
        PROVE  /\ IsFiniteSet(s) /\ Cardinality(s) \in Nat /\ (Cardinality(s) = 0 <=> s = {})
               /\ \A x \in s : Cardinality(s \ {x}) = Cardinality(s) - 1
    <2>1. IsFiniteSet(s)
      BY FS_Subset
    <2>2. QED
      BY <2>1, FS_CardinalityType, FS_EmptySet, FS_RemoveElement
  <1>2. ASSUME NEW s \in SUBSET S, s # {}
        PROVE  First(s) \in s
    BY <1>2 DEF First
  <1>3. QED
    BY <1>1, <1>2

\* There is a sum: the least size for which there is none would have one.
LEMMA SumExists ==
    ASSUME NEW S, IsFiniteSet(S), NEW w \in [S -> Nat]
    PROVE  \E g \in [SUBSET S -> Nat] : Adds(g, w, S)
  <1> DEFINE UpTo(g, n) ==
               \A s \in SUBSET S : Cardinality(s) <= n =>
                 g[s] = IF s = {} THEN 0 ELSE w[First(s)] + g[s \ {First(s)}]
             Bad == {n \in Nat : ~\E g \in [SUBSET S -> Nat] : UpTo(g, n)}
  <1>1. Bad = {}
    <2>1. SUFFICES ASSUME Bad # {} PROVE FALSE
      OBVIOUS
    <2>2. PICK n \in Bad : \A m \in Bad : n <= m
      <3>1. Bad \in SUBSET Nat
        OBVIOUS
      <3>2. QED
        BY <2>1, <3>1, LeastExists
    <2>3. n # 0
      <3>1. [s \in SUBSET S |-> 0] \in [SUBSET S -> Nat]
        OBVIOUS
      <3>2. UpTo([s \in SUBSET S |-> 0], 0)
        BY Smaller
      <3>3. \E g \in [SUBSET S -> Nat] : UpTo(g, 0)
        BY <3>1, <3>2
      <3> HIDE DEF UpTo
      <3>4. 0 \notin Bad
        BY <3>3
      <3>5. QED
        BY <2>2, <3>4
    <2>4. n \in Nat /\ n - 1 \in Nat /\ n - 1 \notin Bad
      <3>1. n \in Nat /\ n - 1 \in Nat /\ ~(n <= n - 1)
        BY <2>3
      <3>2. QED
        BY <2>2, <3>1
    <2>5. PICK g \in [SUBSET S -> Nat] : UpTo(g, n - 1)
      BY <2>4
    <2> DEFINE h == [s \in SUBSET S |->
                       IF Cardinality(s) = n THEN w[First(s)] + g[s \ {First(s)}] ELSE g[s]]
    <2>6. h \in [SUBSET S -> Nat]
      <3>1. ASSUME NEW s \in SUBSET S, Cardinality(s) = n
            PROVE  w[First(s)] + g[s \ {First(s)}] \in Nat
        BY <2>3, <3>1, Smaller
      <3>2. QED
        BY <3>1
    <2>7. ASSUME NEW s \in SUBSET S, Cardinality(s) <= n
          PROVE  h[s] = IF s = {} THEN 0 ELSE w[First(s)] + h[s \ {First(s)}]
      <3>1. /\ Cardinality(s) \in Nat /\ (Cardinality(s) = 0 <=> s = {})
            /\ s # {} => /\ s \ {First(s)} \in SUBSET S
                         /\ Cardinality(s \ {First(s)}) = Cardinality(s) - 1
        BY Smaller
      <3>2. s # {} => h[s \ {First(s)}] = g[s \ {First(s)}]
        BY <2>4, <2>7, <3>1
      <3>3. Cardinality(s) # n =>
              h[s] = g[s] /\ g[s] = IF s = {} THEN 0 ELSE w[First(s)] + g[s \ {First(s)}]
        BY <2>4, <2>5, <2>7, <3>1
      <3>4. Cardinality(s) = n => s # {} /\ h[s] = w[First(s)] + g[s \ {First(s)}]
        BY <2>3, <3>1
      <3>5. QED
        BY <3>2, <3>3, <3>4
    <2>8. UpTo(h, n)
      BY <2>7
    <2>9. QED
      BY <2>2, <2>6, <2>8
  <1>2. Cardinality(S) \in Nat
    BY Smaller
  <1>3. PICK g \in [SUBSET S -> Nat] : UpTo(g, Cardinality(S))
    BY <1>1, <1>2
  <1>4. \A s \in SUBSET S : Cardinality(s) <= Cardinality(S)
    BY FS_Subset
  <1>5. QED
    BY <1>3, <1>4 DEF Adds

\* The element that is added first does not matter.
LEMMA SumTakesAny ==
    ASSUME NEW S, IsFiniteSet(S), NEW w \in [S -> Nat], NEW g \in [SUBSET S -> Nat],
           Adds(g, w, S)
    PROVE  AnyFirst(g, w, S)
  <1> USE DEF AnyFirst
  <1> DEFINE Bad == {n \in Nat : \E s \in SUBSET S : \E x \in s :
                                   Cardinality(s) = n /\ g[s] # w[x] + g[s \ {x}]}
  <1>1. SUFFICES ASSUME Bad # {} PROVE FALSE
    <2>1. ASSUME NEW s \in SUBSET S, NEW x \in s, g[s] # w[x] + g[s \ {x}]
          PROVE  Cardinality(s) \in Bad
      <3>1. Cardinality(s) \in Nat
        BY Smaller
      <3>2. QED
        BY <2>1, <3>1
    <2>2. QED
      BY <2>1
  <1>2. PICK n \in Bad : \A m \in Bad : n <= m
    <2>1. Bad \in SUBSET Nat
      OBVIOUS
    <2>2. QED
      BY <1>1, <2>1, LeastExists
  <1>3. PICK s \in SUBSET S : \E x \in s : Cardinality(s) = n /\ g[s] # w[x] + g[s \ {x}]
    BY <1>2
  <1>4. PICK x \in s : Cardinality(s) = n /\ g[s] # w[x] + g[s \ {x}]
    BY <1>3
  <1> DEFINE y == First(s)
  <1>5. y \in s /\ g[s] = w[y] + g[s \ {y}]
    BY Smaller DEF Adds
  <1> HIDE DEF y
  <1>6. x # y
    BY <1>4, <1>5
  <1>7. /\ s \ {x} \in SUBSET S /\ Cardinality(s \ {x}) = n - 1 /\ y \in s \ {x}
        /\ s \ {y} \in SUBSET S /\ Cardinality(s \ {y}) = n - 1 /\ x \in s \ {y}
        /\ n - 1 \in Nat
    <2>1. n # 0 /\ n \in Nat
      BY <1>4, Smaller
    <2>2. QED
      BY <1>4, <1>5, <1>6, <2>1, Smaller
  <1>8. n - 1 \notin Bad
    <2>1. ~(n <= n - 1)
      BY <1>7
    <2>2. QED
      BY <1>2, <2>1
  <1>9. g[s \ {x}] = w[y] + g[(s \ {x}) \ {y}] /\ g[s \ {y}] = w[x] + g[(s \ {y}) \ {x}]
    BY <1>7, <1>8
  <1>10. (s \ {x}) \ {y} = (s \ {y}) \ {x} /\ (s \ {x}) \ {y} \in SUBSET S
    OBVIOUS
  <1> DEFINE rest == g[(s \ {x}) \ {y}]
  <1>11. w[x] \in Nat /\ w[y] \in Nat /\ rest \in Nat
    BY <1>5, <1>10
  <1>12. g[s] = w[y] + (w[x] + rest) /\ w[x] + g[s \ {x}] = w[x] + (w[y] + rest)
    BY <1>5, <1>9, <1>10
  <1> HIDE DEF rest
  <1>13. w[y] + (w[x] + rest) = w[x] + (w[y] + rest)
    BY <1>11
  <1>14. QED
    BY <1>4, <1>12, <1>13

\* A part sums up to no more than the whole.
LEMMA SumGrows ==
    ASSUME NEW S, IsFiniteSet(S), NEW w \in [S -> Nat], NEW g \in [SUBSET S -> Nat],
           Adds(g, w, S), NEW A \in SUBSET S
    PROVE  \A s \in SUBSET S : A \subseteq s => g[A] <= g[s]
  <1>0. \A s \in SUBSET S : \A x \in s : g[s] = w[x] + g[s \ {x}]
    <2>1. AnyFirst(g, w, S)
      BY SumTakesAny
    <2>2. QED
      BY <2>1 DEF AnyFirst
  <1> DEFINE Bad == {n \in Nat : \E s \in SUBSET S :
                                   Cardinality(s) = n /\ A \subseteq s /\ ~(g[A] <= g[s])}
  <1>1. SUFFICES ASSUME Bad # {} PROVE FALSE
    BY Smaller
  <1>2. PICK n \in Bad : \A m \in Bad : n <= m
    <2>1. Bad \in SUBSET Nat
      OBVIOUS
    <2>2. QED
      BY <1>1, <2>1, LeastExists
  <1>3. PICK s \in SUBSET S : Cardinality(s) = n /\ A \subseteq s /\ ~(g[A] <= g[s])
    BY <1>2
  <1>4. PICK x \in s : x \notin A
    <2>1. A # s
      BY <1>3
    <2>2. QED
      BY <1>3, <2>1
  <1>5. /\ s \ {x} \in SUBSET S /\ Cardinality(s \ {x}) = n - 1 /\ n - 1 \in Nat
        /\ A \subseteq s \ {x}
    <2>1. n # 0 /\ n \in Nat
      BY <1>3, <1>4, Smaller
    <2>2. QED
      BY <1>3, <1>4, <2>1, Smaller
  <1>6. g[A] <= g[s \ {x}]
    <2>1. n - 1 \notin Bad
      BY <1>2, <1>5
    <2>2. QED
      BY <1>5, <2>1
  <1>7. g[s] = w[x] + g[s \ {x}]
    BY <1>0
  <1>8. w[x] \in Nat /\ g[s \ {x}] \in Nat /\ g[A] \in Nat
    BY <1>5
  <1>9. QED
    BY <1>3, <1>6, <1>7, <1>8

\* A sum is the same as part of a larger set.
LEMMA SumAgrees ==
    ASSUME NEW S, IsFiniteSet(S), NEW w, NEW g, Adds(g, w, S),
           NEW T \in SUBSET S, NEW h, Adds(h, w, T)
    PROVE  \A s \in SUBSET T : h[s] = g[s]
  <1> DEFINE Bad == {n \in Nat : \E s \in SUBSET T : Cardinality(s) = n /\ h[s] # g[s]}
  <1>1. SUFFICES ASSUME Bad # {} PROVE FALSE
    BY Smaller
  <1>2. PICK n \in Bad : \A m \in Bad : n <= m
    <2>1. Bad \in SUBSET Nat
      OBVIOUS
    <2>2. QED
      BY <1>1, <2>1, LeastExists
  <1>3. PICK s \in SUBSET T : Cardinality(s) = n /\ h[s] # g[s]
    BY <1>2
  <1>4. /\ h[s] = IF s = {} THEN 0 ELSE w[First(s)] + h[s \ {First(s)}]
        /\ g[s] = IF s = {} THEN 0 ELSE w[First(s)] + g[s \ {First(s)}]
    BY DEF Adds
  <1>5. s # {} /\ h[s \ {First(s)}] # g[s \ {First(s)}]
    BY <1>3, <1>4
  <1>6. s \ {First(s)} \in SUBSET T /\ Cardinality(s \ {First(s)}) = n - 1 /\ n - 1 \in Nat
    <2>1. n # 0 /\ n \in Nat /\ First(s) \in s
      BY <1>3, <1>5, Smaller
    <2>2. QED
      BY <1>3, <2>1, Smaller
  <1>7. n - 1 \in Bad
    BY <1>5, <1>6
  <1>8. QED
    BY <1>2, <1>6, <1>7

-----------------------------------------------------------------------------
(* What a scan takes *)

\* The due rows of every subscription.
DueCounts(now) == [j \in Subs |-> Cardinality(DueRows(reg[j], now))]

\* Finitely many rows can be due.
LEMMA DueCountsType ==
    ASSUME NEW now
    PROVE  DueCounts(now) \in [Subs -> Nat]
  <1>1. ASSUME NEW j \in Subs
        PROVE  Cardinality(DueRows(reg[j], now)) \in Nat
    <2>1. DueRows(reg[j], now) \in SUBSET Sources
      BY DEF DueRows
    <2>2. IsFiniteSet(DueRows(reg[j], now))
      BY <2>1, FiniteAssumption, FS_Subset DEF FiniteAssumption
    <2>3. QED
      BY <2>2, FS_CardinalityType
  <1>2. QED
    BY <1>1 DEF DueCounts

\* The fold of Fits is such a sum.
LEMMA FitsIsSum ==
    ASSUME NEW now, NEW g, Adds(g, DueCounts(now), Subs), NEW ks \in SUBSET Subs
    PROVE  Fits(ks, now) <=> g[ks] <= Limit
  <1> DEFINE w == DueCounts(now)
             ok(h) == h = [s \in SUBSET ks |->
                             IF s = {} THEN 0
                             ELSE Cardinality(DueRows(reg[First(s)], now)) + h[s \ {First(s)}]]
             iter == CHOOSE h : ok(h)
  <1>1. IsFiniteSet(ks) /\ IsFiniteSet(Subs)
    BY FiniteAssumption, FS_Subset DEF FiniteAssumption
  <1>2. [j \in ks |-> w[j]] \in [ks -> Nat]
    BY DueCountsType
  <1>3. PICK h \in [SUBSET ks -> Nat] : Adds(h, [j \in ks |-> w[j]], ks)
    BY <1>1, <1>2, SumExists
  <1>4. \A s \in SUBSET ks : s # {} => First(s) \in s
    BY DEF First
  <1>5. \A s \in SUBSET ks :
          s # {} => /\ w[First(s)] = Cardinality(DueRows(reg[First(s)], now))
                    /\ [j \in ks |-> w[j]][First(s)] = w[First(s)]
    BY <1>4 DEF DueCounts
  <1>6. ok(h)
    BY <1>3, <1>5 DEF Adds
  <1>7. ok(iter)
    BY <1>6
  <1>8. MapThenSumSet(LAMBDA j : Cardinality(DueRows(reg[j], now)), ks) = iter[ks]
    BY DEF MapThenSumSet, MapThenFoldSet, First
  <1> HIDE DEF iter
  <1>9. Adds(iter, w, ks)
    BY <1>5, <1>7 DEF Adds
  <1> HIDE DEF w
  <1>10. \A s \in SUBSET ks : iter[s] = g[s]
    BY <1>1, <1>9, SumAgrees DEF w
  <1>11. QED
    BY <1>8, <1>10 DEF Fits

\* What fits, fits in part.
LEMMA FitsShrinks ==
    ASSUME NEW now, NEW B \in SUBSET Subs, NEW A \in SUBSET B, Fits(B, now), Limit \in Nat
    PROVE  Fits(A, now)
  <1>1. IsFiniteSet(Subs) /\ DueCounts(now) \in [Subs -> Nat]
    BY FiniteAssumption, DueCountsType DEF FiniteAssumption
  <1>2. PICK g \in [SUBSET Subs -> Nat] : Adds(g, DueCounts(now), Subs)
    BY <1>1, SumExists
  <1>3. A \in SUBSET Subs
    OBVIOUS
  <1>4. g[B] <= Limit
    BY <1>2, FitsIsSum
  <1>5. g[A] <= g[B]
    BY <1>1, <1>2, <1>3, SumGrows
  <1>6. g[A] \in Nat /\ g[B] \in Nat
    BY <1>2, <1>3
  <1>7. g[A] <= Limit
    BY <1>4, <1>5, <1>6
  <1>8. QED
    BY <1>2, <1>3, <1>7, FitsIsSum

\* Two subscriptions with due rows are in one order, and the order is strict.
LEMMA OneOrder ==
    ASSUME TypeOK
    PROVE  /\ Groups(clock) \in SUBSET Subs
           /\ \A k \in Groups(clock) : reg[k] # None /\ Oldest(reg[k], clock) \in Nat
           /\ \A k \in Groups(clock) : ~Precedes(reg, k, k, clock)
           /\ \A j, k \in Groups(clock) :
                j # k => Precedes(reg, j, k, clock) \/ Precedes(reg, k, j, clock)
           /\ \A i, j, k \in Groups(clock) :
                Precedes(reg, i, j, clock) /\ Precedes(reg, j, k, clock)
                  => Precedes(reg, i, k, clock)
  <1>1. \A k \in Groups(clock) : k \in Subs /\ reg[k] \in Entry /\ DueRows(reg[k], clock) # {}
                                 /\ reg[k] # None
    BY DEF Groups, DueRows, Due, TypeOK
  <1>2. \A k \in Groups(clock) : Oldest(reg[k], clock) \in Nat
    BY <1>1, OldestIsTime DEF TypeOK
  <1>3. \A k \in Groups(clock) : k \in Nat
    BY <1>1, OrderAssumption DEF OrderAssumption
  <1>4. QED
    BY <1>1, <1>2, <1>3 DEF Precedes

\* What is before a subscription is before every later one.
LEMMA AheadGrows ==
    ASSUME TypeOK, NEW j \in Groups(clock), NEW k \in Groups(clock),
           Precedes(reg, j, k, clock)
    PROVE  Ahead(j, clock) \cup {j} \subseteq Ahead(k, clock)
  <1>1. \A i \in Ahead(j, clock) : Precedes(reg, i, k, clock)
    BY OneOrder DEF Ahead
  <1>2. QED
    BY <1>1 DEF Ahead

\* Nothing that is taken leaves something before it.
LEMMA TakenInOrder ==
    ASSUME TypeOK, NEW k \in Selected(clock), NEW j \in Groups(clock),
           Precedes(reg, j, k, clock)
    PROVE  j \in Selected(clock)
  <1>1. k \in Groups(clock) /\ j \in Ahead(k, clock)
    BY DEF Selected, Ahead
  <1>2. Fits(Ahead(k, clock) \cup {k}, clock)
    BY <1>1 DEF Selected
  <1>3. /\ Ahead(j, clock) \cup {j} \in SUBSET (Ahead(k, clock) \cup {k})
        /\ Ahead(k, clock) \cup {k} \in SUBSET Subs
    BY <1>1, AheadGrows, OneOrder DEF Ahead
  <1>4. Fits(Ahead(j, clock) \cup {j}, clock)
    BY <1>2, <1>3, LimitAssumption, FitsShrinks DEF LimitAssumption
  <1>5. QED
    BY <1>4 DEF Selected

\* The last subscription that is taken: the one with most before it.
LEMMA LastExists ==
    ASSUME TypeOK, Selected(clock) # {}
    PROVE  \E m \in Selected(clock) : \A j \in Selected(clock) \ {m} : j \in Ahead(m, clock)
  <1> DEFINE before == [k \in Subs |-> Cardinality(Ahead(k, clock))]
             n == Cardinality(Subs)
             T == {n - before[k] : k \in Selected(clock)}
  <1>1. IsFiniteSet(Subs) /\ Selected(clock) \subseteq Groups(clock)
        /\ Groups(clock) \in SUBSET Subs
    BY FiniteAssumption, OneOrder DEF FiniteAssumption, Selected
  <1>2. ASSUME NEW k \in Subs
        PROVE  /\ IsFiniteSet(Ahead(k, clock)) /\ before[k] = Cardinality(Ahead(k, clock))
               /\ before[k] \in Nat /\ n \in Nat /\ before[k] <= n
    <2>1. Ahead(k, clock) \in SUBSET Subs
      BY <1>1 DEF Ahead
    <2>2. QED
      BY <1>1, <2>1, FS_Subset, FS_CardinalityType
  <1> HIDE DEF before, n
  <1>3. T \in SUBSET Nat /\ T # {}
    BY <1>1, <1>2
  <1>4. PICK x \in T : \A y \in T : x <= y
    BY <1>3, LeastExists
  <1>5. PICK m \in Selected(clock) : x = n - before[m]
    BY <1>4
  <1>6. ASSUME NEW j \in Selected(clock) \ {m}
        PROVE  j \in Ahead(m, clock)
    <2>1. before[j] <= before[m]
      <3>1. n - before[m] <= n - before[j]
        BY <1>4, <1>5
      <3>2. QED
        BY <1>1, <1>2, <3>1
    <2>2. ~Precedes(reg, m, j, clock)
      <3>1. SUFFICES ASSUME Precedes(reg, m, j, clock) PROVE FALSE
        OBVIOUS
      <3>2. Ahead(m, clock) \cup {m} \in SUBSET Ahead(j, clock)
        BY <1>1, <3>1, AheadGrows
      <3>3. m \notin Ahead(m, clock)
        BY <1>1, OneOrder DEF Ahead
      <3>4. Cardinality(Ahead(m, clock) \cup {m}) = before[m] + 1
        BY <1>1, <1>2, <3>3, FS_AddElement
      <3>5. Cardinality(Ahead(m, clock) \cup {m}) <= before[j]
        BY <1>1, <1>2, <3>2, FS_Subset
      <3>6. QED
        BY <1>1, <1>2, <2>1, <3>4, <3>5
    <2>3. QED
      BY <1>1, <2>2, OneOrder DEF Ahead
  <1>7. QED
    BY <1>6

\* What a scan takes.
LEMMA ScanTakes ==
    ASSUME TypeOK, Groups(clock) # {}
    PROVE  /\ Selected(clock) # {}
           /\ Cardinality(Selected(clock)) = 1 \/ Fits(Selected(clock), clock)
           /\ \A k \in Selected(clock), j \in Groups(clock) \ Selected(clock) :
                 Oldest(reg[k], clock) <= Oldest(reg[j], clock)
  <1>1. Selected(clock) # {}
    BY SelectedSome
  <1>2. PICK m \in Selected(clock) : \A j \in Selected(clock) \ {m} : j \in Ahead(m, clock)
    BY <1>1, LastExists
  <1>3. Selected(clock) = Ahead(m, clock) \cup {m}
    BY <1>2, TakenInOrder DEF Ahead
  <1>4. Ahead(m, clock) = {} => Cardinality(Selected(clock)) = 1
    BY <1>3, FS_Singleton
  <1>5. Ahead(m, clock) # {} => Fits(Selected(clock), clock)
    <2>1. m \in Selected(clock) /\ Ahead(m, clock) # {} => Fits(Ahead(m, clock) \cup {m}, clock)
      BY DEF Selected
    <2>2. QED
      BY <1>3, <2>1
  <1>6. ASSUME NEW k \in Selected(clock), NEW j \in Groups(clock) \ Selected(clock)
        PROVE  Oldest(reg[k], clock) <= Oldest(reg[j], clock)
    <2>1. k \in Groups(clock) /\ ~Precedes(reg, j, k, clock)
      BY TakenInOrder DEF Selected
    <2>2. Oldest(reg[k], clock) \in Nat /\ Oldest(reg[j], clock) \in Nat
      BY <2>1, OneOrder
    <2>3. QED
      BY <2>1, <2>2 DEF Precedes
  <1>7. QED
    BY <1>1, <1>4, <1>5, <1>6

\* A scan takes work whenever there is some, never more than its limit unless
\* one subscription alone exceeds it, and nothing younger than what it leaves.
THEOREM ScansTakeOldestFirst == Spec => OldestFirst
  <1> DEFINE A == pc = "idle" /\ pc' = "run" =>
                    LET taken == {k \in Subs : work'[k] # None}
                    IN  /\ taken # {}
                        /\ \/ Cardinality(taken) = 1
                           \/ MapThenSumSet(LAMBDA k : Cardinality(DueRows(reg[k], clock)), taken)
                                <= Limit
                        /\ \A k \in taken, j \in Groups(clock) \ taken :
                              Oldest(reg[k], clock) <= Oldest(reg[j], clock)
  <1>1. ASSUME IInv, [Next]_vars
        PROVE  A
    <2> DEFINE taken == {k \in Subs : work'[k] # None}
    <2>1. SUFFICES ASSUME pc = "idle", pc' = "run"
                   PROVE  /\ taken # {}
                          /\ Cardinality(taken) = 1 \/ Fits(taken, clock)
                          /\ \A k \in taken, j \in Groups(clock) \ taken :
                                Oldest(reg[k], clock) <= Oldest(reg[j], clock)
      BY DEF Fits
    <2>2. Scan
      BY <1>1, <2>1 DEF Next, Job, Admin, Fetch, Commit, RecordError, Stop, Build, Save, Manage,
                        Tick, vars, jobvars
    <2>3. TypeOK
      BY <1>1 DEF IInv
    <2>4. \A k \in Selected(clock) : k \in Subs /\ reg[k] # None
      BY <2>3, OneOrder DEF Selected
    <2>5. taken = Selected(clock)
      BY <2>2, <2>4 DEF Scan
    <2>6. Groups(clock) # {}
      BY <2>2 DEF Scan
    <2> HIDE DEF taken
    <2>7. QED
      BY <2>3, <2>5, <2>6, ScanTakes
  <1>2. QED
    BY <1>1, Inductive, PTL DEF Spec, OldestFirst

=============================================================================
