-------------------------- MODULE FixedStoreProofs --------------------------
(***************************************************************************)
(* Proofs about the fixed-subscription store: the invariant IInv is         *)
(* inductive, for every number of processes, subscriptions, revisions and   *)
(* tokens and with every crash and failing write.                           *)
(***************************************************************************)
EXTENDS FixedStoreRefines, TLAPS

USE NoneAssumption, BoundAssumption DEF NoneAssumption, BoundAssumption

\* None is no entry, no draft, no process and no subscription.
LEMMA NoneIsNothing ==
    /\ \A e \in Entry : e # None
    /\ \A d \in Draft : d # None
    /\ \A k \in Subs : k # None
    /\ \A w \in Workers : w # None
  BY DEF Entry, Draft

\* The identity of an entry is an entry again, and keeps what a save copies.
LEMMA IdentityKeeps ==
    ASSUME NEW e \in Entry \cup {None}, NEW f \in Entry, Identity(e) = Identity(f)
    PROVE  /\ e \in Entry
           /\ e.rev = f.rev /\ e.token = f.token /\ e.status = f.status
           /\ e.updated = f.updated /\ e.fails = f.fails
  <1>1. f # None
    BY NoneIsNothing
  <1>2. Identity(f) = [f EXCEPT !.access = 0, !.audit = f.rev]
    BY <1>1 DEF Identity
  <1>3. Identity(f) \in Entry
    <2>1. 0 \in 0..MaxClock
      OBVIOUS
    <2>2. f.rev \in Revs
      BY DEF Entry
    <2>3. [f EXCEPT !.access = 0, !.audit = f.rev] \in Entry
      BY <2>1, <2>2 DEF Entry
    <2>4. QED
      BY <1>2, <2>3
  <1>4. e # None
    BY <1>3, NoneIsNothing DEF Identity
  <1>5. Identity(e) = [e EXCEPT !.access = 0, !.audit = e.rev]
    BY <1>4 DEF Identity
  <1>6. e \in Entry
    BY <1>4
  <1>7. /\ Identity(e).rev = e.rev /\ Identity(e).token = e.token
        /\ Identity(e).status = e.status /\ Identity(e).updated = e.updated
        /\ Identity(e).fails = e.fails
    BY <1>5, <1>6 DEF Entry
  <1>8. /\ Identity(f).rev = f.rev /\ Identity(f).token = f.token
        /\ Identity(f).status = f.status /\ Identity(f).updated = f.updated
        /\ Identity(f).fails = f.fails
    BY <1>2 DEF Entry
  <1>9. QED
    BY <1>6, <1>7, <1>8

\* Put replaces one entry and nothing else; Retire adds one token.
LEMMA PutFacts ==
    ASSUME NEW f \in File, NEW k \in Subs, NEW e \in Entry \cup {None}
    PROVE  /\ Put(f, k, e) \in File
           /\ Put(f, k, e).subs = [f.subs EXCEPT ![k] = e]
           /\ Put(f, k, e).subs[k] = e
           /\ \A j \in Subs : j # k => Put(f, k, e).subs[j] = f.subs[j]
           /\ Put(f, k, e).retired = f.retired
  BY DEF Put, File

LEMMA PutReads ==
    ASSUME NEW f \in File, NEW k \in Subs, NEW e
    PROVE  /\ Put(f, k, e).subs[k] = e
           /\ \A j \in Subs : j # k => Put(f, k, e).subs[j] = f.subs[j]
           /\ Put(f, k, e).retired = f.retired
  BY DEF Put, File

LEMMA RetireFacts ==
    ASSUME NEW f \in File, NEW t \in Tokens
    PROVE  /\ Retire(f, t) \in File
           /\ Retire(f, t).subs = f.subs
           /\ Retire(f, t).retired = f.retired \cup {t}
  BY DEF Retire, File

LEMMA FileShape ==
    ASSUME NEW f \in File
    PROVE  /\ f.subs \in [Subs -> Entry \cup {None}]
           /\ f.retired \in SUBSET Tokens
  BY DEF File

\* A management action writes a registry.
LEMMA ManagedType ==
    ASSUME file \in File, clock \in 1..MaxClock, NEW k \in Subs, file.subs[k] \in Entry,
           NEW act \in {"enable", "disable", "regenerate", "delete"}
    PROVE  Managed(k, act) \subseteq File
  <1> DEFINE e == file.subs[k]
             gone == Retire(file, e.token)
  <1>1. e.token \in Tokens /\ clock \in 0..MaxClock
    BY DEF Entry
  <1>2. gone \in File
    BY <1>1, RetireFacts
  <1>3. \A s \in {"active", "disabled"} :
           [e EXCEPT !.status = s, !.updated = clock] \in Entry
    BY <1>1 DEF Entry
  <1>4. \A t \in Tokens : [e EXCEPT !.token = t, !.updated = clock] \in Entry
    BY <1>1 DEF Entry
  <1>5. FreshTokens(gone) \subseteq Tokens
    BY DEF FreshTokens
  <1>6. CASE act \in {"enable", "disable"}
    <2> DEFINE s == IF act = "enable" THEN "active" ELSE "disabled"
               new == [e EXCEPT !.status = s, !.updated = clock]
    <2>1. Managed(k, act) = {Put(file, k, new)}
      BY <1>6 DEF Managed
    <2>2. new \in Entry
      BY <1>3
    <2> HIDE DEF new
    <2>3. Put(file, k, new) \in File
      BY <2>2, PutFacts
    <2>4. QED
      BY <2>1, <2>3
  <1>7. CASE act = "regenerate"
    <2> DEFINE new(t) == [e EXCEPT !.token = t, !.updated = clock]
    <2>1. Managed(k, act) = {Put(gone, k, new(t)) : t \in FreshTokens(gone)}
      BY <1>7 DEF Managed
    <2>2. \A t \in FreshTokens(gone) : new(t) \in Entry
      BY <1>4, <1>5
    <2> HIDE DEF new, gone
    <2>3. \A t \in FreshTokens(gone) : Put(gone, k, new(t)) \in File
      BY <1>2, <2>2, PutFacts
    <2>4. QED
      BY <2>1, <2>3
  <1>8. CASE act = "delete"
    <2>1. Managed(k, act) = {Put(gone, k, None)}
      BY <1>8 DEF Managed
    <2> HIDE DEF gone
    <2>2. Put(gone, k, None) \in File
      BY <1>2, PutFacts
    <2>3. QED
      BY <2>1, <2>2
  <1>9. QED
    BY <1>6, <1>7, <1>8

-----------------------------------------------------------------------------
(* The type invariant *)

FileOK == file \in File /\ previous \in File
DiskOK ==
    /\ homes \in SUBSET Subs
    /\ dir \in [Subs -> [Revs -> {"absent", "whole", "partial"}]]
LocalsOK ==
    /\ pc \in [Workers -> Labels]
    /\ op \in [Workers -> SaveOps \cup {"none"}]
    /\ key \in [Workers -> Subs \cup {None}]
    /\ old \in [Workers -> Entry \cup {None}]
    /\ draft \in [Workers -> Draft \cup {None}]
RestOK == lock \in Workers \cup {None} /\ clock \in 1..MaxClock

LEMMA TypeParts ==
    /\ TypeOK <=> FileOK /\ DiskOK /\ LocalsOK /\ RestOK
    /\ TypeOK' <=> FileOK' /\ DiskOK' /\ LocalsOK' /\ RestOK'
  BY DEF TypeOK, FileOK, DiskOK, LocalsOK, RestOK

\* The ends of a request leave well-typed locals.
LEMMA EndTypes ==
    ASSUME LocalsOK, NEW w \in Workers
    PROVE  /\ Finish(w) => LocalsOK'
           /\ GiveUp(w) => LocalsOK'
           /\ \A l \in Labels : Goto(w, l) /\ UNCHANGED locals => LocalsOK'
  <1>1. \A l \in Labels : Goto(w, l) /\ UNCHANGED locals => LocalsOK'
    BY DEF LocalsOK, Goto, locals
  <1>2. Finish(w) => LocalsOK'
    BY DEF LocalsOK, Finish, Labels
  <1>3. "note" \in Labels
    BY DEF Labels
  <1>4. QED
    BY <1>1, <1>2, <1>3 DEF GiveUp

\* Every step keeps the types.
LEMMA TypeStep ==
    ASSUME TypeOK, Prepared, [Next]_vars
    PROVE  TypeOK'
  <1>1. ASSUME NEW w \in Workers, Snapshot(w)
        PROVE  TypeOK'
    <2>1. file.subs[key[w]] \in Entry \cup {None}
      BY <1>1, FileShape DEF Snapshot, Prepared, TypeOK, SaveOps
    <2>2. CASE Same(w) /\ Readable(key[w], file.subs[key[w]]) /\ Goto(w, "work")
               /\ old' = [old EXCEPT ![w] = file.subs[key[w]]] /\ UNCHANGED <<op, key, draft>>
      BY <1>1, <2>1, <2>2, TypeParts DEF Snapshot, TypeOK, Goto, Labels
    <2>3. CASE Finish(w) \/ GiveUp(w)
      <3>1. LocalsOK'
        BY <2>3, EndTypes, TypeParts
      <3>2. QED
        BY <1>1, <3>1, TypeParts DEF Snapshot, FileOK, DiskOK, RestOK
    <2>4. QED
      BY <1>1, <2>2, <2>3 DEF Snapshot
  <1>2. ASSUME NEW w \in Workers, Build(w)
        PROVE  TypeOK'
    <2>0. /\ op[w] = "cached" => old[w].fails \in 0..MaxFails
          /\ 0 \in 0..MaxFails
      BY <1>2 DEF Build, Prepared, Entry
    <2>1. PICK r \in Revs, same \in BOOLEAN, n \in 0..MaxFails :
               /\ draft' = [draft EXCEPT ![w] = [rev |-> r, fails |-> n]]
               /\ Goto(w, IF same THEN "same" ELSE "ready")
      BY <1>2, <2>0 DEF Build
    <2>2. [rev |-> r, fails |-> n] \in Draft
      BY DEF Draft
    <2>3. QED
      BY <1>2, <2>1, <2>2 DEF Build, TypeOK, Goto, Labels
  <1>3. ASSUME NEW w \in Workers, BuildFails(w)
        PROVE  TypeOK'
    BY <1>3 DEF BuildFails, TypeOK, Labels, Restoring, SaveOps, locals, Goto, Finish, GiveUp
  <1>4. ASSUME NEW w \in Workers, Conflict(w)
        PROVE  TypeOK'
    BY <1>4 DEF Conflict, TypeOK, Labels, Restoring, SaveOps, locals, Goto, Finish, GiveUp
  <1>5. ASSUME NEW w \in Workers, Enter(w)
        PROVE  TypeOK'
    BY <1>5 DEF Enter, TypeOK, Labels, Restoring, SaveOps, locals, Goto, Finish, GiveUp
  <1>6. ASSUME NEW w \in Workers, AllocateHome(w)
        PROVE  TypeOK'
    BY <1>6 DEF AllocateHome, TypeOK, Labels, Restoring, SaveOps, locals, Goto, Finish, GiveUp
  <1>7. ASSUME NEW w \in Workers, PlaceFails(w)
        PROVE  TypeOK'
    BY <1>7 DEF PlaceFails, TypeOK, Labels, Restoring, SaveOps, locals, Goto, Finish, GiveUp
  <1>8. ASSUME NEW w \in Workers, Place(w)
        PROVE  TypeOK'
    BY <1>8 DEF Place, TypeOK, Labels, Restoring, SaveOps, locals, Goto, Finish, GiveUp
  <1>9. ASSUME NEW w \in Workers, Publish(w)
        PROVE  TypeOK'
    <2>1. UNCHANGED <<homes, dir, lock, clock>> /\ LocalsOK'
      BY <1>9, EndTypes, TypeParts DEF Publish, Labels, Restoring
    <2>2. ASSUME NEW t \in Tokens
          PROVE  Put(file, key[w], NewEntry(w, t)) \in File
      <3>1. key[w] \in Subs /\ draft[w] \in Draft
        BY <1>9 DEF Publish, Prepared
      <3>2. file.subs[key[w]] \in Entry \cup {None} /\ old[w] \in Entry \cup {None}
        BY <3>1, FileShape DEF TypeOK
      <3>3. NewEntry(w, t).access \in 0..MaxClock
        BY <3>2 DEF NewEntry, Entry
      <3>4. NewEntry(w, t) \in Entry
        BY <3>1, <3>2, <3>3 DEF NewEntry, Entry, Draft, TypeOK
      <3>5. QED
        BY <3>1, <3>4, PutFacts DEF TypeOK
    <2>3. \A t : t \in (IF old[w] = None THEN FreshTokens(file) ELSE {old[w].token}) => t \in Tokens
      BY <1>9 DEF Publish, TypeOK, FreshTokens, Entry
    <2>4. FileOK'
      BY <1>9, <2>2, <2>3 DEF Publish, TypeOK, FileOK, Committed, Torn
    <2>5. QED
      BY <2>1, <2>4, TypeParts DEF DiskOK, RestOK
  <1>10. ASSUME NEW w \in Workers, PublishAudit(w)
        PROVE  TypeOK'
    <2>1. old[w] \in Entry /\ key[w] \in Subs
      BY <1>10 DEF PublishAudit, Prepared
    <2>2. file.subs[key[w]] \in Entry
      BY <1>10, <2>1, FileShape, IdentityKeeps DEF PublishAudit, Same, TypeOK
    <2>3. [file.subs[key[w]] EXCEPT !.audit = old[w].rev] \in Entry
      BY <2>1, <2>2 DEF Entry
    <2> DEFINE f == Put(file, key[w], [file.subs[key[w]] EXCEPT !.audit = old[w].rev])
    <2>7. f \in File
      BY <2>1, <2>3, PutFacts DEF TypeOK
    <2>8. FileOK'
      <3>1. Committed(f) \/ Torn(f) \/ NotWritten
        BY <1>10 DEF PublishAudit
      <3> HIDE DEF f
      <3>2. QED
        BY <2>7, <3>1 DEF TypeOK, FileOK, Committed, Torn, NotWritten
    <2>4. FileOK'
      BY <2>8
    <2>5. LocalsOK'
      BY <1>10, EndTypes, TypeParts DEF PublishAudit, Labels, Restoring
    <2>6. QED
      BY <1>10, <2>4, <2>5, TypeParts DEF PublishAudit, DiskOK, RestOK
  <1>11. ASSUME NEW w \in Workers, Restore(w)
        PROVE  TypeOK'
    <2>1. FileOK'
      BY <1>11 DEF Restore, RestoreBytes, TypeOK, FileOK
    <2>2. LocalsOK' /\ RestOK'
      BY <1>11, EndTypes, TypeParts DEF Restore, Labels, Restoring, RestOK
    <2>3. QED
      BY <1>11, <2>1, <2>2, TypeParts DEF Restore, DiskOK
  <1>12. ASSUME NEW w \in Workers, Abort(w)
        PROVE  TypeOK'
    BY SMTT(30), <1>12 DEF Abort, TypeOK, Labels, Restoring, SaveOps, locals, Goto, Finish, GiveUp
  <1>13. ASSUME NEW w \in Workers, Collect(w)
        PROVE  TypeOK'
    <2>1. LocalsOK'
      BY <1>13, EndTypes, TypeParts DEF Collect
    <2>2. DiskOK'
      <3>1. PICK h \in [Revs -> {"absent", "whole", "partial"}] :
               dir' = [dir EXCEPT ![key[w]] = h]
        BY <1>13 DEF Collect, Removals
      <3>2. QED
        BY <1>13, <3>1 DEF Collect, DiskOK, TypeOK
    <2>3. QED
      BY <1>13, <2>1, <2>2, TypeParts DEF Collect, FileOK, RestOK
  <1>14. ASSUME NEW w \in Workers, Note(w)
        PROVE  TypeOK'
    <2>1. old[w] \in Entry /\ key[w] \in Subs /\ op[w] \in {"auto", "cached"}
      BY <1>14 DEF Note, Prepared
    <2>2. ASSUME Same(w), op[w] = "auto" => old[w].fails < MaxFails
          PROVE  Put(file, key[w], NoteEntry(w)) \in File
      <3>1. file.subs[key[w]] \in Entry /\ file.subs[key[w]].fails = old[w].fails
        BY <2>1, <2>2, FileShape, IdentityKeeps DEF Same, TypeOK
      <3>2. op[w] = "auto" => file.subs[key[w]].fails + 1 \in 0..MaxFails
        BY <2>1, <2>2, <3>1 DEF Entry
      <3>3. NoteEntry(w) \in Entry
        <4> DEFINE cur == file.subs[key[w]]
        <4>0. clock \in 0..MaxClock /\ old[w].rev \in Revs
          BY <2>1 DEF Entry, TypeOK
        <4>1. CASE op[w] = "auto"
          <5>1. NoteEntry(w) = [cur EXCEPT !.fails = cur.fails + 1, !.updated = clock]
            BY <4>1 DEF NoteEntry
          <5>2. QED
            BY <3>1, <3>2, <4>0, <4>1, <5>1 DEF Entry
        <4>2. CASE op[w] # "auto"
          BY <3>1, <4>0, <4>2 DEF NoteEntry, Entry
        <4>3. QED
          BY <4>1, <4>2
      <3>4. QED
        BY <2>1, <3>3, PutFacts DEF TypeOK
    <2>3. FileOK'
      BY <1>14, <2>2 DEF Note, TypeOK, FileOK, Committed, Torn
    <2>4. LocalsOK'
      BY <1>14, EndTypes, TypeParts DEF Note, Labels, Restoring
    <2>5. QED
      BY <1>14, <2>3, <2>4, TypeParts DEF Note, DiskOK, RestOK
  <1>15. ASSUME NEW w \in Workers, RemoveHome(w)
        PROVE  TypeOK'
    <2>1. LocalsOK'
      BY <1>15, EndTypes, TypeParts DEF RemoveHome
    <2>2. DiskOK'
      BY <1>15, TypeParts DEF RemoveHome, DiskOK, Removals
    <2>3. QED
      BY <1>15, <2>1, <2>2, TypeParts DEF RemoveHome, FileOK, RestOK
  <1>16. ASSUME NEW w \in Workers, StartCreate(w)
        PROVE  TypeOK'
    BY <1>16 DEF StartCreate, TypeOK, Labels, Restoring, SaveOps, locals, Goto, Finish, GiveUp
  <1>17. ASSUME NEW w \in Workers, Crash(w)
        PROVE  TypeOK'
    BY <1>17 DEF Crash, TypeOK, Labels, Restoring, SaveOps, locals, Goto, Finish, GiveUp
  <1>18. ASSUME Tick
        PROVE  TypeOK'
    BY <1>18 DEF Tick, TypeOK, Labels, Restoring, SaveOps, locals, Goto, Finish, GiveUp
  <1>19. ASSUME NEW w \in Workers, NEW k \in Subs,
              NEW o \in {"edit", "auto", "cached"}, Request(w, k, o)
        PROVE  TypeOK'
    <2>1. file.subs[k] \in Entry \cup {None}
      BY FileShape DEF TypeOK
    <2>2. QED
      BY <1>19, <2>1 DEF Request, TypeOK, Goto, Labels, SaveOps
  <1>20. ASSUME NEW w \in Workers, NEW k \in Subs,
              NEW act \in {"enable", "disable", "regenerate", "delete"}, Manage(w, k, act)
        PROVE  TypeOK'
    <2>1. file.subs[k] \in Entry
      BY <1>20, FileShape DEF Manage, Live, TypeOK
    <2>2. Managed(k, act) \subseteq File
      BY <2>1, ManagedType DEF TypeOK
    <2>3. FileOK'
      BY <1>20, <2>2 DEF Manage, TypeOK, FileOK, Committed, Torn
    <2>4. LocalsOK'
      BY <1>20, TypeParts DEF Manage, LocalsOK, Goto, Labels, Restoring
    <2>5. QED
      BY <1>20, <2>3, <2>4, TypeParts DEF Manage, DiskOK, RestOK
  <1>21. ASSUME NEW w \in Workers, NEW k \in Subs, Resolve(w, k)
        PROVE  TypeOK'
    <2>1. file.subs[k] \in Entry
      BY <1>21, FileShape DEF Resolve, Live, TypeOK
    <2>2. [file.subs[k] EXCEPT !.access = clock] \in Entry
      BY SMTT(30), <2>1 DEF Entry, TypeOK
    <2>3. FileOK'
      <3> DEFINE f == Put(file, k, [file.subs[k] EXCEPT !.access = clock])
      <3>1. f \in File
        BY <2>2, PutFacts DEF TypeOK
      <3>2. Committed(f) \/ Torn(f)
        BY <1>21 DEF Resolve
      <3> HIDE DEF f
      <3>3. QED
        BY <3>1, <3>2 DEF TypeOK, FileOK, Committed, Torn
    <2>4. LocalsOK'
      BY <1>21, EndTypes, TypeParts DEF Resolve, LocalsOK, Labels, Restoring, locals
    <2>5. QED
      BY <1>21, <2>3, <2>4, TypeParts DEF Resolve, DiskOK, RestOK
  <1>22. CASE UNCHANGED vars
    BY <1>22 DEF vars, TypeOK
  <1>23. QED
    BY <1>1, <1>2, <1>3, <1>4, <1>5, <1>6, <1>7, <1>8, <1>9, <1>10, <1>11, <1>12,
       <1>13, <1>14, <1>15, <1>16, <1>17, <1>18, <1>19, <1>20, <1>21, <1>22 DEF Next, Step

-----------------------------------------------------------------------------
(* The other parts of the inductive invariant *)

\* The flock excludes: whoever enters finds the lock free.
LEMMA ExclusionStep ==
    ASSUME TypeOK, Exclusion, Prepared, [Next]_vars
    PROVE  Exclusion'
  <1> USE DEF TypeOK, Exclusion, Inside, Restoring, locals, Goto, Finish, GiveUp
  <1>1. ASSUME NEW w \in Workers, Snapshot(w)
        PROVE  Exclusion'
    BY <1>1 DEF Snapshot
  <1>2. ASSUME NEW w \in Workers, Build(w)
        PROVE  Exclusion'
    BY <1>2 DEF Build
  <1>3. ASSUME NEW w \in Workers, BuildFails(w)
        PROVE  Exclusion'
    BY <1>3 DEF BuildFails
  <1>4. ASSUME NEW w \in Workers, Conflict(w)
        PROVE  Exclusion'
    BY <1>4 DEF Conflict
  <1>5. ASSUME NEW w \in Workers, Enter(w)
        PROVE  Exclusion'
    BY <1>5 DEF Enter
  <1>6. ASSUME NEW w \in Workers, AllocateHome(w)
        PROVE  Exclusion'
    BY <1>6 DEF AllocateHome
  <1>7. ASSUME NEW w \in Workers, PlaceFails(w)
        PROVE  Exclusion'
    BY <1>7 DEF PlaceFails
  <1>8. ASSUME NEW w \in Workers, Place(w)
        PROVE  Exclusion'
    BY <1>8 DEF Place
  <1>9. ASSUME NEW w \in Workers, Publish(w)
        PROVE  Exclusion'
    BY <1>9 DEF Publish
  <1>10. ASSUME NEW w \in Workers, PublishAudit(w)
        PROVE  Exclusion'
    BY <1>10 DEF PublishAudit
  <1>11. ASSUME NEW w \in Workers, Restore(w)
        PROVE  Exclusion'
    BY <1>11 DEF Restore
  <1>12. ASSUME NEW w \in Workers, Abort(w)
        PROVE  Exclusion'
    BY <1>12 DEF Abort
  <1>13. ASSUME NEW w \in Workers, Collect(w)
        PROVE  Exclusion'
    BY <1>13 DEF Collect
  <1>14. ASSUME NEW w \in Workers, Note(w)
        PROVE  Exclusion'
    BY <1>14 DEF Note
  <1>15. ASSUME NEW w \in Workers, RemoveHome(w)
        PROVE  Exclusion'
    BY <1>15 DEF RemoveHome
  <1>16. ASSUME NEW w \in Workers, StartCreate(w)
        PROVE  Exclusion'
    BY <1>16 DEF StartCreate
  <1>17. ASSUME NEW w \in Workers, Crash(w)
        PROVE  Exclusion'
    BY <1>17 DEF Crash
  <1>18. ASSUME Tick
        PROVE  Exclusion'
    BY <1>18 DEF Tick
  <1>19. ASSUME NEW w \in Workers, NEW k \in Subs,
              NEW o \in {"edit", "auto", "cached"}, Request(w, k, o)
        PROVE  Exclusion'
    BY <1>19 DEF Request
  <1>20. ASSUME NEW w \in Workers, NEW k \in Subs,
              NEW act \in {"enable", "disable", "regenerate", "delete"}, Manage(w, k, act)
        PROVE  Exclusion'
    BY <1>20 DEF Manage
  <1>21. ASSUME NEW w \in Workers, NEW k \in Subs, Resolve(w, k)
        PROVE  Exclusion'
    BY <1>21 DEF Resolve
  <1>22. CASE UNCHANGED vars
    BY <1>22 DEF vars
  <1>23. QED
    BY <1>1, <1>2, <1>3, <1>4, <1>5, <1>6, <1>7, <1>8, <1>9, <1>10, <1>11, <1>12,
       <1>13, <1>14, <1>15, <1>16, <1>17, <1>18, <1>19, <1>20, <1>21, <1>22 DEF Next, Step

\* The settled registry and the file differ only while a rollback is pending.
LEMMA SettledStep ==
    ASSUME TypeOK, Exclusion, Settled, [Next]_vars
    PROVE  Settled'
  <1> USE DEF TypeOK, Exclusion, Settled, Inside, Restoring, locals, Goto, Finish, GiveUp, Committed, Torn, NotWritten
  <1>1. ASSUME NEW w \in Workers, Snapshot(w)
        PROVE  Settled'
    BY <1>1 DEF Snapshot
  <1>2. ASSUME NEW w \in Workers, Build(w)
        PROVE  Settled'
    BY <1>2 DEF Build
  <1>3. ASSUME NEW w \in Workers, BuildFails(w)
        PROVE  Settled'
    BY <1>3 DEF BuildFails
  <1>4. ASSUME NEW w \in Workers, Conflict(w)
        PROVE  Settled'
    BY <1>4 DEF Conflict
  <1>5. ASSUME NEW w \in Workers, Enter(w)
        PROVE  Settled'
    BY <1>5 DEF Enter
  <1>6. ASSUME NEW w \in Workers, AllocateHome(w)
        PROVE  Settled'
    BY <1>6 DEF AllocateHome
  <1>7. ASSUME NEW w \in Workers, PlaceFails(w)
        PROVE  Settled'
    BY <1>7 DEF PlaceFails
  <1>8. ASSUME NEW w \in Workers, Place(w)
        PROVE  Settled'
    BY <1>8 DEF Place
  <1>9. ASSUME NEW w \in Workers, Publish(w)
        PROVE  Settled'
    BY <1>9 DEF Publish
  <1>10. ASSUME NEW w \in Workers, PublishAudit(w)
        PROVE  Settled'
    BY <1>10 DEF PublishAudit
  <1>11. ASSUME NEW w \in Workers, Restore(w)
        PROVE  Settled'
    <2>1. lock = w /\ \A u \in Workers \ {w} : pc[u] \notin Restoring
      BY <1>11 DEF Restore
    <2>2. pc[w]' \notin Restoring \/ previous' = file'
      BY <1>11 DEF Restore
    <2>3. CASE file' = previous /\ UNCHANGED previous
      BY <2>3
    <2>4. CASE file' = file /\ previous' = file
      BY <2>4
    <2>5. QED
      BY <1>11, <2>3, <2>4 DEF Restore, RestoreBytes
  <1>12. ASSUME NEW w \in Workers, Abort(w)
        PROVE  Settled'
    BY <1>12 DEF Abort
  <1>13. ASSUME NEW w \in Workers, Collect(w)
        PROVE  Settled'
    BY <1>13 DEF Collect
  <1>14. ASSUME NEW w \in Workers, Note(w)
        PROVE  Settled'
    BY <1>14 DEF Note
  <1>15. ASSUME NEW w \in Workers, RemoveHome(w)
        PROVE  Settled'
    BY <1>15 DEF RemoveHome
  <1>16. ASSUME NEW w \in Workers, StartCreate(w)
        PROVE  Settled'
    BY <1>16 DEF StartCreate
  <1>17. ASSUME NEW w \in Workers, Crash(w)
        PROVE  Settled'
    BY <1>17 DEF Crash
  <1>18. ASSUME Tick
        PROVE  Settled'
    BY <1>18 DEF Tick
  <1>19. ASSUME NEW w \in Workers, NEW k \in Subs,
              NEW o \in {"edit", "auto", "cached"}, Request(w, k, o)
        PROVE  Settled'
    BY <1>19 DEF Request
  <1>20. ASSUME NEW w \in Workers, NEW k \in Subs,
              NEW act \in {"enable", "disable", "regenerate", "delete"}, Manage(w, k, act)
        PROVE  Settled'
    BY <1>20 DEF Manage
  <1>21. ASSUME NEW w \in Workers, NEW k \in Subs, Resolve(w, k)
        PROVE  Settled'
    BY <1>21 DEF Resolve
  <1>22. CASE UNCHANGED vars
    BY <1>22 DEF vars
  <1>23. QED
    BY <1>1, <1>2, <1>3, <1>4, <1>5, <1>6, <1>7, <1>8, <1>9, <1>10, <1>11, <1>12,
       <1>13, <1>14, <1>15, <1>16, <1>17, <1>18, <1>19, <1>20, <1>21, <1>22 DEF Next, Step

\* A process keeps what it learned.
LEMMA PreparedStep ==
    ASSUME TypeOK, Prepared, [Next]_vars
    PROVE  Prepared'
  <1> USE DEF TypeOK, Prepared, SaveOps, Restoring, locals, Goto, Finish, GiveUp
  <1>1. ASSUME NEW w \in Workers, Snapshot(w)
        PROVE  Prepared'
    <2>1. op[w] \in {"edit", "auto", "cached"} /\ key[w] \in Subs /\ old[w] \in Entry
      BY <1>1 DEF Snapshot
    <2>2. Same(w) => file.subs[key[w]] \in Entry
      BY <2>1, FileShape, IdentityKeeps DEF Same
    <2>3. CASE Same(w) /\ Goto(w, "work") /\ UNCHANGED <<op, key, draft>>
               /\ old' = [old EXCEPT ![w] = file.subs[key[w]]]
      BY <1>1, <2>1, <2>2, <2>3
    <2>4. CASE Finish(w)
      BY <1>1, <2>4
    <2>5. CASE GiveUp(w)
      BY <1>1, <2>1, <2>5
    <2>6. QED
      BY <1>1, <2>3, <2>4, <2>5 DEF Snapshot
  <1>2. ASSUME NEW w \in Workers, Build(w)
        PROVE  Prepared'
    <2>0. /\ op[w] = "cached" => old[w].fails \in 0..MaxFails
          /\ 0 \in 0..MaxFails
      BY <1>2 DEF Build, Entry
    <2>1. PICK r \in Revs, same \in BOOLEAN, n \in 0..MaxFails :
               /\ same => op[w] = "cached"
               /\ draft' = [draft EXCEPT ![w] = [rev |-> r, fails |-> n]]
               /\ Goto(w, IF same THEN "same" ELSE "ready")
      BY <1>2, <2>0 DEF Build
    <2>2. [rev |-> r, fails |-> n] \in Draft
      BY DEF Draft
    <2>3. pc[w] = "work" /\ UNCHANGED <<op, key, old>>
      BY <1>2 DEF Build
    <2>4. CASE same
      BY <2>1, <2>2, <2>3, <2>4
    <2>5. CASE ~same
      BY <2>1, <2>2, <2>3, <2>5
    <2>6. QED
      BY <2>4, <2>5
  <1>3. ASSUME NEW w \in Workers, BuildFails(w)
        PROVE  Prepared'
    BY <1>3 DEF BuildFails
  <1>4. ASSUME NEW w \in Workers, Conflict(w)
        PROVE  Prepared'
    BY <1>4 DEF Conflict
  <1>5. ASSUME NEW w \in Workers, Enter(w)
        PROVE  Prepared'
    BY <1>5 DEF Enter
  <1>6. ASSUME NEW w \in Workers, AllocateHome(w)
        PROVE  Prepared'
    BY <1>6 DEF AllocateHome
  <1>7. ASSUME NEW w \in Workers, PlaceFails(w)
        PROVE  Prepared'
    BY <1>7 DEF PlaceFails
  <1>8. ASSUME NEW w \in Workers, Place(w)
        PROVE  Prepared'
    BY <1>8 DEF Place
  <1>9. ASSUME NEW w \in Workers, Publish(w)
        PROVE  Prepared'
    BY <1>9 DEF Publish
  <1>10. ASSUME NEW w \in Workers, PublishAudit(w)
        PROVE  Prepared'
    <2>2. CASE Finish(w)
      BY <2>2
    <2>3. CASE Goto(w, "restore_note") /\ UNCHANGED locals
      BY <1>10, <2>3 DEF PublishAudit
    <2>4. CASE GiveUp(w)
      BY <1>10, <2>4 DEF PublishAudit
    <2>5. QED
      BY <1>10, <2>2, <2>3, <2>4 DEF PublishAudit
  <1>11. ASSUME NEW w \in Workers, Restore(w)
        PROVE  Prepared'
    BY <1>11 DEF Restore
  <1>12. ASSUME NEW w \in Workers, Abort(w)
        PROVE  Prepared'
    BY <1>12 DEF Abort
  <1>13. ASSUME NEW w \in Workers, Collect(w)
        PROVE  Prepared'
    BY <1>13 DEF Collect
  <1>14. ASSUME NEW w \in Workers, Note(w)
        PROVE  Prepared'
    BY <1>14 DEF Note
  <1>15. ASSUME NEW w \in Workers, RemoveHome(w)
        PROVE  Prepared'
    BY <1>15 DEF RemoveHome
  <1>16. ASSUME NEW w \in Workers, StartCreate(w)
        PROVE  Prepared'
    <2>1. old[w] = None /\ old'[w] = None /\ op'[w] = "create" /\ pc'[w] = "work"
      BY <1>16 DEF StartCreate
    <2>2. QED
      BY <1>16, <2>1 DEF StartCreate
  <1>17. ASSUME NEW w \in Workers, Crash(w)
        PROVE  Prepared'
    BY <1>17 DEF Crash
  <1>18. ASSUME Tick
        PROVE  Prepared'
    BY <1>18 DEF Tick
  <1>19. ASSUME NEW w \in Workers, NEW k \in Subs,
              NEW o \in {"edit", "auto", "cached"}, Request(w, k, o)
        PROVE  Prepared'
    <2>1. file.subs[k] \in Entry
      BY <1>19, FileShape DEF Request, Live
    <2>2. QED
      BY <1>19, <2>1 DEF Request
  <1>20. ASSUME NEW w \in Workers, NEW k \in Subs,
              NEW act \in {"enable", "disable", "regenerate", "delete"}, Manage(w, k, act)
        PROVE  Prepared'
    BY <1>20 DEF Manage
  <1>21. ASSUME NEW w \in Workers, NEW k \in Subs, Resolve(w, k)
        PROVE  Prepared'
    BY <1>21 DEF Resolve
  <1>22. CASE UNCHANGED vars
    BY <1>22 DEF vars
  <1>23. QED
    BY SMTT(30), <1>1, <1>2, <1>3, <1>4, <1>5, <1>6, <1>7, <1>8, <1>9, <1>10, <1>11, <1>12,
       <1>13, <1>14, <1>15, <1>16, <1>17, <1>18, <1>19, <1>20, <1>21, <1>22 DEF Next, Step

\* What save writes is an entry.
LEMMA NewEntryType ==
    ASSUME TypeOK, NEW w \in Workers, NEW t \in Tokens,
           key[w] \in Subs, draft[w] \in Draft
    PROVE  NewEntry(w, t) \in Entry
  <1>1. file.subs[key[w]] \in Entry \cup {None} /\ old[w] \in Entry \cup {None}
    BY FileShape DEF TypeOK
  <1>2. NewEntry(w, t).access \in 0..MaxClock
    BY <1>1 DEF NewEntry, Entry
  <1>3. QED
    BY <1>1, <1>2 DEF NewEntry, Entry, Draft, TypeOK

\* Nobody else touches the registry inside a locked section.
LEMMA StillCurrentStep ==
    ASSUME TypeOK, Exclusion, Settled, Prepared, StillCurrent, [Next]_vars
    PROVE  StillCurrent'
  <1> USE DEF TypeOK, Exclusion, Settled, Prepared, StillCurrent, Same, SaveOps, Restoring, Inside, locals, Goto, Finish, GiveUp, Committed, Torn, NotWritten
  <1>1. ASSUME NEW w \in Workers, Snapshot(w)
        PROVE  StillCurrent'
    BY <1>1 DEF Snapshot
  <1>2. ASSUME NEW w \in Workers, Build(w)
        PROVE  StillCurrent'
    BY <1>2 DEF Build
  <1>3. ASSUME NEW w \in Workers, BuildFails(w)
        PROVE  StillCurrent'
    BY <1>3 DEF BuildFails
  <1>4. ASSUME NEW w \in Workers, Conflict(w)
        PROVE  StillCurrent'
    BY <1>4 DEF Conflict
  <1>5. ASSUME NEW w \in Workers, Enter(w)
        PROVE  StillCurrent'
    <2>1. \A u \in Workers \ {w} : pc[u] \notin Inside /\ pc'[u] \notin Inside
      BY <1>5 DEF Enter
    <2>2. op[w] # "create" => file.subs[key[w]] # None
      <3>1. SUFFICES ASSUME op[w] # "create" PROVE file.subs[key[w]] # None
        OBVIOUS
      <3>2. key[w] \in Subs /\ old[w] \in Entry /\ Identity(file.subs[key[w]]) = Identity(old[w])
        BY <1>5, <3>1 DEF Enter
      <3>3. file.subs[key[w]] \in Entry
        BY <3>2, IdentityKeeps, FileShape
      <3>4. QED
        BY <3>3, NoneIsNothing
    <2>3. /\ pc'[w] = "locked" /\ UNCHANGED <<file, op, key, old>>
          /\ op[w] # "create" => Identity(file.subs[key[w]]) = Identity(old[w])
      BY <1>5 DEF Enter
    <2>4. QED
      BY <2>1, <2>2, <2>3
  <1>6. ASSUME NEW w \in Workers, AllocateHome(w)
        PROVE  StillCurrent'
    <2>1. \A u \in Workers \ {w} : pc[u] \notin Inside /\ pc'[u] \notin Inside
      BY <1>6 DEF AllocateHome
    <2>2. pc'[w] = "homed" /\ file.subs[key'[w]] = None /\ UNCHANGED file
      BY <1>6 DEF AllocateHome, Live
    <2>3. QED
      BY <2>1, <2>2
  <1>7. ASSUME NEW w \in Workers, PlaceFails(w)
        PROVE  StillCurrent'
    BY <1>7 DEF PlaceFails
  <1>8. ASSUME NEW w \in Workers, Place(w)
        PROVE  StillCurrent'
    BY <1>8 DEF Place
  <1>9. ASSUME NEW w \in Workers, Publish(w)
        PROVE  StillCurrent'
    <2>1. \A u \in Workers \ {w} : pc[u] \notin Inside /\ pc'[u] \notin Inside
      BY <1>9 DEF Publish
    <2>2. /\ key[w] \in Subs /\ draft[w] \in Draft /\ pc[w] = "placed" /\ previous = file
          /\ op[w] = "create" => old[w] = None /\ file.subs[key[w]] = None
          /\ UNCHANGED <<op, key, old, draft>>
      BY <1>9 DEF Publish
    <2>3. ASSUME NEW t, NewEntry(w, t) \in Entry,
                 file' = Put(file, key[w], NewEntry(w, t))
          PROVE  /\ file'.subs[key[w]] # None
                 /\ file'.subs[key[w]].rev = draft[w].rev
      <3>1. file \in File
        OBVIOUS
      <3>2. Put(file, key[w], NewEntry(w, t)).subs[key[w]] = NewEntry(w, t)
        BY <2>2, <3>1, PutReads
      <3>3. NewEntry(w, t).rev = draft[w].rev
        BY DEF NewEntry
      <3>4. QED
        BY <2>3, <3>2, <3>3, NoneIsNothing
    <2>4. CASE pc'[w] = "abort" /\ UNCHANGED <<file, previous>>
      BY <2>1, <2>2, <2>4
    <2>5. ASSUME NEW t \in Tokens, file' = Put(file, key[w], NewEntry(w, t)),
                 \/ pc'[w] = "collect"
                 \/ pc'[w] = "restore_abort" /\ UNCHANGED previous
          PROVE  StillCurrent'
      <3>1. NewEntry(w, t) \in Entry
        BY <2>2, NewEntryType
      <3>2. QED
        BY <2>1, <2>2, <2>3, <2>5, <3>1
    <2>6. \A t : t \in (IF old[w] = None THEN FreshTokens(file) ELSE {old[w].token}) => t \in Tokens
      BY <2>2 DEF FreshTokens, Entry
    <2>7. QED
      BY <1>9, <2>4, <2>5, <2>6 DEF Publish
  <1>10. ASSUME NEW w \in Workers, PublishAudit(w)
        PROVE  StillCurrent'
    BY <1>10 DEF PublishAudit
  <1>11. ASSUME NEW w \in Workers, Restore(w)
        PROVE  StillCurrent'
    <2>1. \A u \in Workers \ {w} : pc[u] \notin Inside /\ pc'[u] \notin Inside
      BY <1>11 DEF Restore
    <2>2. (file' = previous \/ file' = file)
      BY <1>11 DEF Restore, RestoreBytes
    <2>3. CASE pc[w] = "restore_abort"
      BY <1>11, <2>1, <2>2, <2>3 DEF Restore
    <2>4. CASE pc[w] # "restore_abort"
      BY <1>11, <2>1, <2>4 DEF Restore
    <2>5. QED
      BY <2>3, <2>4
  <1>12. ASSUME NEW w \in Workers, Abort(w)
        PROVE  StillCurrent'
    BY <1>12 DEF Abort
  <1>13. ASSUME NEW w \in Workers, Collect(w)
        PROVE  StillCurrent'
    BY <1>13 DEF Collect
  <1>14. ASSUME NEW w \in Workers, Note(w)
        PROVE  StillCurrent'
    BY <1>14 DEF Note
  <1>15. ASSUME NEW w \in Workers, RemoveHome(w)
        PROVE  StillCurrent'
    BY <1>15 DEF RemoveHome
  <1>16. ASSUME NEW w \in Workers, StartCreate(w)
        PROVE  StillCurrent'
    BY <1>16 DEF StartCreate
  <1>17. ASSUME NEW w \in Workers, Crash(w)
        PROVE  StillCurrent'
    BY <1>17 DEF Crash
  <1>18. ASSUME Tick
        PROVE  StillCurrent'
    BY <1>18 DEF Tick
  <1>19. ASSUME NEW w \in Workers, NEW k \in Subs,
              NEW o \in {"edit", "auto", "cached"}, Request(w, k, o)
        PROVE  StillCurrent'
    BY <1>19 DEF Request
  <1>20. ASSUME NEW w \in Workers, NEW k \in Subs,
              NEW act \in {"enable", "disable", "regenerate", "delete"}, Manage(w, k, act)
        PROVE  StillCurrent'
    <2>1. \A u \in Workers \ {w} : pc[u] \notin Inside /\ pc'[u] \notin Inside
      BY <1>20 DEF Manage
    <2>2. pc'[w] \in {"idle", "rmtree", "restore_end"}
      BY <1>20 DEF Manage
    <2>3. ASSUME pc'[w] = "rmtree" PROVE file'.subs[key'[w]] = None
      <3>1. act = "delete" /\ key'[w] = k /\ file' \in Managed(k, act)
        BY <1>20, <2>3 DEF Manage
      <3>2. file' = Put(Retire(file, file.subs[k].token), k, None)
        BY <3>1 DEF Managed
      <3>3. file.subs[k].token \in Tokens
        BY <1>20, FileShape DEF Manage, Live, Entry
      <3>4. Retire(file, file.subs[k].token) \in File
        BY <3>3, RetireFacts
      <3>5. Put(Retire(file, file.subs[k].token), k, None).subs[k] = None
        BY <3>4, PutReads
      <3>6. QED
        BY <3>1, <3>2, <3>5
    <2>4. QED
      BY <2>1, <2>2, <2>3
  <1>21. ASSUME NEW w \in Workers, NEW k \in Subs, Resolve(w, k)
        PROVE  StillCurrent'
    BY <1>21 DEF Resolve
  <1>22. CASE UNCHANGED vars
    BY <1>22 DEF vars
  <1> HIDE DEF TypeOK, Exclusion, Settled, Prepared, StillCurrent
  <1>23. QED
    BY <1>1, <1>2, <1>3, <1>4, <1>5, <1>6, <1>7, <1>8, <1>9, <1>10, <1>11, <1>12,
       <1>13, <1>14, <1>15, <1>16, <1>17, <1>18, <1>19, <1>20, <1>21, <1>22 DEF Next, Step

\* What Put and Retire leave of a complete registry.
LEMMA PutComplete ==
    ASSUME NEW f \in File, NEW k \in Subs, NEW e \in Entry \cup {None}, Complete(f),
           e # None => Readable(k, e)
    PROVE  Complete(Put(f, k, e))
  <1> DEFINE g == Put(f, k, e)
  <1>1. g.subs[k] = e /\ \A j \in Subs : j # k => g.subs[j] = f.subs[j]
    BY PutReads
  <1> HIDE DEF g
  <1>2. ASSUME NEW j \in Live(g)
        PROVE  Readable(j, g.subs[j])
    <2>1. j \in Subs /\ g.subs[j] # None
      BY <1>2 DEF Live
    <2>2. CASE j = k
      BY <1>1, <2>1, <2>2
    <2>3. CASE j # k
      BY <1>1, <2>1, <2>3 DEF Complete, Live
    <2>4. QED
      BY <2>2, <2>3
  <1>3. Complete(g)
    BY <1>2 DEF Complete
  <1>4. QED
    BY <1>3 DEF g

\* An entry that selects the same revision is as readable.
LEMMA SameRevisionComplete ==
    ASSUME NEW f \in File, NEW k \in Subs, NEW e \in Entry, Complete(f),
           f.subs[k] # None, e.rev = f.subs[k].rev
    PROVE  Complete(Put(f, k, e))
  <1>1. Readable(k, e)
    BY DEF Complete, Live, Readable
  <1>2. QED
    BY <1>1, PutComplete

LEMMA RetireComplete ==
    ASSUME NEW f \in File, NEW t \in Tokens, Complete(f)
    PROVE  Complete(Retire(f, t))
  BY RetireFacts DEF Complete, Live

\* Nothing on disk moved, and both registries are complete.
LEMMA DiskStays ==
    ASSUME UNCHANGED <<homes, dir>>, Complete(file'), Complete(previous')
    PROVE  SelectedComplete'
  BY DEF SelectedComplete, Complete, Live, Readable

\* The ways _commit(f) ends.
LEMMA CommitComplete ==
    ASSUME NEW f, Complete(f), SelectedComplete, UNCHANGED <<homes, dir>>,
           Committed(f) \/ Torn(f)
    PROVE  SelectedComplete'
  <1>1. Complete(file') /\ Complete(previous')
    BY DEF Committed, Torn, SelectedComplete
  <1>2. QED
    BY <1>1, DiskStays

\* Registries are complete when the disk keeps every revision they select.
LEMMA KeptComplete ==
    ASSUME SelectedComplete, UNCHANGED file, previous = file, previous' = file,
           \A k \in Live(file) :
              /\ k \in homes'
              /\ dir'[k][file.subs[k].rev] = dir[k][file.subs[k].rev]
    PROVE  SelectedComplete'
  <1>1. \A k \in Live(file) : k \in homes' /\ dir'[k][file.subs[k].rev] = "whole"
    BY DEF SelectedComplete, Complete, Readable
  <1>2. QED
    BY <1>1 DEF SelectedComplete, Complete, Live, Readable

\* In a locked section that restores nothing the registry is settled.
LEMMA SettledInside ==
    ASSUME Exclusion, Settled, NEW w \in Workers, pc[w] \in Inside \ Restoring
    PROVE  previous = file
  <1>1. \A u \in Workers : pc[u] \notin Restoring
    BY DEF Exclusion, Inside
  <1>2. QED
    BY <1>1 DEF Settled

\* A candidate stays complete from the rename on.
LEMMA CandidateStep ==
    ASSUME TypeOK, Exclusion, Settled, Prepared, StillCurrent, CandidateComplete, SelectedComplete, [Next]_vars
    PROVE  CandidateComplete'
  <1> USE DEF TypeOK, Exclusion, Prepared, StillCurrent, CandidateComplete, SelectedComplete, Live, Readable, Same, SaveOps, Restoring, Inside, locals, Goto, Finish, GiveUp, Committed, Torn, NotWritten
  <1>1. ASSUME NEW w \in Workers, Snapshot(w)
        PROVE  CandidateComplete'
    BY <1>1 DEF Snapshot
  <1>2. ASSUME NEW w \in Workers, Build(w)
        PROVE  CandidateComplete'
    BY <1>2 DEF Build
  <1>3. ASSUME NEW w \in Workers, BuildFails(w)
        PROVE  CandidateComplete'
    BY <1>3 DEF BuildFails
  <1>4. ASSUME NEW w \in Workers, Conflict(w)
        PROVE  CandidateComplete'
    BY <1>4 DEF Conflict
  <1>5. ASSUME NEW w \in Workers, Enter(w)
        PROVE  CandidateComplete'
    BY <1>5 DEF Enter
  <1>6. ASSUME NEW w \in Workers, AllocateHome(w)
        PROVE  CandidateComplete'
    BY <1>6 DEF AllocateHome
  <1>7. ASSUME NEW w \in Workers, PlaceFails(w)
        PROVE  CandidateComplete'
    BY <1>7 DEF PlaceFails
  <1>8. ASSUME NEW w \in Workers, Place(w)
        PROVE  CandidateComplete'
    <2>1. \A u \in Workers \ {w} : pc[u] \notin Inside /\ pc'[u] \notin Inside
      BY <1>8 DEF Place
    <2>2. key[w] \in homes
      <3>1. CASE pc[w] = "homed"
        BY <3>1
      <3>2. CASE pc[w] = "locked" /\ op[w] # "create"
        <4>1. key[w] \in Live(file)
          BY <3>2
        <4>2. QED
          BY <4>1 DEF Complete
      <3>3. QED
        BY <1>8, <3>1, <3>2 DEF Place
    <2>3. /\ pc'[w] = "placed" /\ UNCHANGED <<homes, key, draft>>
          /\ key[w] \in Subs /\ draft[w].rev \in Revs
          /\ dir'[key[w]][draft[w].rev] = "whole"
      BY <1>8 DEF Place, Draft
    <2>4. QED
      BY <2>1, <2>2, <2>3
  <1>9. ASSUME NEW w \in Workers, Publish(w)
        PROVE  CandidateComplete'
    BY <1>9 DEF Publish
  <1>10. ASSUME NEW w \in Workers, PublishAudit(w)
        PROVE  CandidateComplete'
    BY <1>10 DEF PublishAudit
  <1>11. ASSUME NEW w \in Workers, Restore(w)
        PROVE  CandidateComplete'
    BY <1>11 DEF Restore
  <1>12. ASSUME NEW w \in Workers, Abort(w)
        PROVE  CandidateComplete'
    BY <1>12 DEF Abort
  <1>13. ASSUME NEW w \in Workers, Collect(w)
        PROVE  CandidateComplete'
    BY <1>13 DEF Collect
  <1>14. ASSUME NEW w \in Workers, Note(w)
        PROVE  CandidateComplete'
    BY <1>14 DEF Note
  <1>15. ASSUME NEW w \in Workers, RemoveHome(w)
        PROVE  CandidateComplete'
    BY <1>15 DEF RemoveHome
  <1>16. ASSUME NEW w \in Workers, StartCreate(w)
        PROVE  CandidateComplete'
    BY <1>16 DEF StartCreate
  <1>17. ASSUME NEW w \in Workers, Crash(w)
        PROVE  CandidateComplete'
    BY <1>17 DEF Crash
  <1>18. ASSUME Tick
        PROVE  CandidateComplete'
    BY <1>18 DEF Tick
  <1>19. ASSUME NEW w \in Workers, NEW k \in Subs,
              NEW o \in {"edit", "auto", "cached"}, Request(w, k, o)
        PROVE  CandidateComplete'
    BY <1>19 DEF Request
  <1>20. ASSUME NEW w \in Workers, NEW k \in Subs,
              NEW act \in {"enable", "disable", "regenerate", "delete"}, Manage(w, k, act)
        PROVE  CandidateComplete'
    BY <1>20 DEF Manage
  <1>21. ASSUME NEW w \in Workers, NEW k \in Subs, Resolve(w, k)
        PROVE  CandidateComplete'
    BY <1>21 DEF Resolve
  <1>22. CASE UNCHANGED vars
    BY <1>22 DEF vars
  <1> HIDE DEF TypeOK, Exclusion, Prepared, StillCurrent, CandidateComplete, SelectedComplete
  <1>23. QED
    BY <1>1, <1>2, <1>3, <1>4, <1>5, <1>6, <1>7, <1>8, <1>9, <1>10, <1>11, <1>12,
       <1>13, <1>14, <1>15, <1>16, <1>17, <1>18, <1>19, <1>20, <1>21, <1>22 DEF Next, Step

\* No step breaks what a registered entry selects.
LEMMA SelectedStep ==
    ASSUME TypeOK, Exclusion, Settled, Prepared, StillCurrent,
           CandidateComplete, SelectedComplete, [Next]_vars
    PROVE  SelectedComplete'
  <1>1. ASSUME NEW w \in Workers, Snapshot(w)
        PROVE  SelectedComplete'
    <2>1. UNCHANGED <<file, previous, homes, dir>>
      BY <1>1 DEF Snapshot
    <2>2. QED
      BY <2>1, DiskStays DEF SelectedComplete
  <1>2. ASSUME NEW w \in Workers, Build(w)
        PROVE  SelectedComplete'
    <2>1. UNCHANGED <<file, previous, homes, dir>>
      BY <1>2 DEF Build
    <2>2. QED
      BY <2>1, DiskStays DEF SelectedComplete
  <1>3. ASSUME NEW w \in Workers, BuildFails(w)
        PROVE  SelectedComplete'
    <2>1. UNCHANGED <<file, previous, homes, dir>>
      BY <1>3 DEF BuildFails
    <2>2. QED
      BY <2>1, DiskStays DEF SelectedComplete
  <1>4. ASSUME NEW w \in Workers, Conflict(w)
        PROVE  SelectedComplete'
    <2>1. UNCHANGED <<file, previous, homes, dir>>
      BY <1>4 DEF Conflict
    <2>2. QED
      BY <2>1, DiskStays DEF SelectedComplete
  <1>5. ASSUME NEW w \in Workers, Enter(w)
        PROVE  SelectedComplete'
    <2>1. UNCHANGED <<file, previous, homes, dir>>
      BY <1>5 DEF Enter
    <2>2. QED
      BY <2>1, DiskStays DEF SelectedComplete
  <1>6. ASSUME NEW w \in Workers, AllocateHome(w)
        PROVE  SelectedComplete'
    <2>1. UNCHANGED <<file, previous, dir>> /\ homes \subseteq homes'
      BY <1>6 DEF AllocateHome
    <2>2. QED
      BY <2>1 DEF SelectedComplete, Complete, Live, Readable
  <1>7. ASSUME NEW w \in Workers, PlaceFails(w)
        PROVE  SelectedComplete'
    <2>1. UNCHANGED <<file, previous, homes, dir>>
      BY <1>7 DEF PlaceFails
    <2>2. QED
      BY <2>1, DiskStays DEF SelectedComplete
  <1>8. ASSUME NEW w \in Workers, Place(w)
        PROVE  SelectedComplete'
    <2>1. /\ UNCHANGED <<file, previous, homes>>
          /\ dir[key[w]][draft[w].rev] = "absent"
          /\ dir' = [dir EXCEPT ![key[w]][draft[w].rev] = "whole"]
      BY <1>8 DEF Place
    <2>2. ASSUME NEW k \in Subs, NEW r \in Revs, dir[k][r] = "whole"
          PROVE  dir'[k][r] = "whole"
      BY <2>1, <2>2 DEF TypeOK
    <2>3. \A f \in File : \A k \in Live(f) : k \in Subs /\ f.subs[k].rev \in Revs
      BY FileShape DEF Live, Entry
    <2>4. QED
      BY <2>1, <2>2, <2>3 DEF SelectedComplete, Complete, Live, Readable, TypeOK
  <1>9. ASSUME NEW w \in Workers, Publish(w)
        PROVE  SelectedComplete'
    <2>1. /\ pc[w] = "placed" /\ key[w] \in Subs /\ draft[w] \in Draft
          /\ UNCHANGED <<homes, dir>>
      BY <1>9 DEF Publish, Prepared
    <2>2. key[w] \in homes /\ dir[key[w]][draft[w].rev] = "whole"
      BY <2>1 DEF CandidateComplete
    <2>3. \A t \in (IF old[w] = None THEN FreshTokens(file) ELSE {old[w].token}) : t \in Tokens
      BY FileShape DEF FreshTokens, Entry, TypeOK
    <2>4. ASSUME NEW t \in Tokens PROVE Complete(Put(file, key[w], NewEntry(w, t)))
      <3>1. NewEntry(w, t) \in Entry
        BY <2>1, NewEntryType
      <3>2. Readable(key[w], NewEntry(w, t))
        BY <2>2 DEF Readable, NewEntry
      <3>3. file \in File /\ Complete(file)
        BY DEF TypeOK, SelectedComplete
      <3>4. QED
        BY <2>1, <3>1, <3>2, <3>3, PutComplete
    <2>5. CASE UNCHANGED <<file, previous>>
      BY <2>1, <2>5, DiskStays DEF SelectedComplete
    <2>6. ASSUME ~UNCHANGED <<file, previous>>
          PROVE  \E t \in Tokens : LET f == Put(file, key[w], NewEntry(w, t))
                                   IN  Committed(f) \/ Torn(f)
      BY <1>9, <2>3, <2>6 DEF Publish
    <2>7. QED
      BY <2>1, <2>4, <2>5, <2>6, CommitComplete
  <1>10. ASSUME NEW w \in Workers, PublishAudit(w)
        PROVE  SelectedComplete'
    <2>1. /\ UNCHANGED <<homes, dir>>
          /\ pc[w] = "same" /\ Same(w)
          /\ key[w] \in Subs /\ old[w] \in Entry
      BY <1>10 DEF PublishAudit, Prepared
    <2>2. file.subs[key[w]] \in Entry /\ file \in File /\ Complete(file)
      BY <2>1, FileShape, IdentityKeeps DEF Same, TypeOK, SelectedComplete
    <2> DEFINE e == [file.subs[key[w]] EXCEPT !.audit = old[w].rev]
               f == Put(file, key[w], e)
    <2>3. e \in Entry /\ e.rev = file.subs[key[w]].rev
      BY <2>1, <2>2 DEF Entry
    <2>4. Committed(f) \/ Torn(f) \/ UNCHANGED <<file, previous>>
      BY <1>10 DEF PublishAudit, NotWritten
    <2> HIDE DEF e
    <2>5. Complete(f)
      BY <2>1, <2>2, <2>3, SameRevisionComplete, NoneIsNothing
    <2> HIDE DEF f
    <2>6. CASE UNCHANGED <<file, previous>>
      BY <2>1, <2>6, DiskStays DEF SelectedComplete
    <2>7. QED
      BY <2>1, <2>4, <2>5, <2>6, CommitComplete
  <1>11. ASSUME NEW w \in Workers, Restore(w)
        PROVE  SelectedComplete'
    <2>1. UNCHANGED <<homes, dir>>
      BY <1>11 DEF Restore
    <2>2. Complete(file') /\ Complete(previous')
      BY <1>11 DEF Restore, RestoreBytes, SelectedComplete
    <2>3. QED
      BY <2>1, <2>2, DiskStays
  <1>12. ASSUME NEW w \in Workers, Abort(w)
        PROVE  SelectedComplete'
    <2>1. pc[w] = "abort" /\ key[w] \in Subs /\ UNCHANGED <<file, previous>>
      BY <1>12 DEF Abort, Prepared
    <2>2. previous = file /\ previous' = file
      BY <2>1, SettledInside DEF Inside, Restoring
    <2>3. \A k \in Live(file) : k \in Subs /\ file.subs[k].rev \in Revs /\ k \in homes
      BY FileShape DEF Live, Entry, TypeOK, SelectedComplete, Complete, Readable
    <2>4. op[w] \in SaveOps /\ (op[w] # "create" => old[w] \in Entry)
      BY <2>1 DEF Prepared
    <2>5. CASE ~Unreferenced(w)
      BY <1>12, <2>1, <2>2, <2>3, <2>5, KeptComplete DEF Abort
    <2>6. CASE Unreferenced(w)
      <3>1. \A h \in {"absent", "partial"} :
              dir' = [dir EXCEPT ![key[w]][draft[w].rev] = h] =>
                \A k \in Live(file) :
                  dir'[k][file.subs[k].rev] = dir[k][file.subs[k].rev]
        BY <2>1, <2>3, <2>6 DEF Unreferenced, Live, TypeOK
      <3>2. \A k \in Live(file) : dir'[k][file.subs[k].rev] = dir[k][file.subs[k].rev]
        BY <1>12, <2>6, <3>1 DEF Abort
      <3>3. \/ homes' = IF old[w] = None THEN homes \ {key[w]} ELSE homes
            \/ homes' = homes
        BY <1>12 DEF Abort
      <3>4. old[w] = None => key[w] \notin Live(file)
        <4>1. SUFFICES ASSUME old[w] = None PROVE file.subs[key[w]] = None
          BY DEF Live
        <4>2. op[w] = "create"
          BY <2>4, <4>1, NoneIsNothing
        <4>3. QED
          BY <2>1, <2>6, <4>2 DEF StillCurrent, Unreferenced
      <3>5. \A k \in Live(file) : k \in homes'
        BY <2>3, <3>3, <3>4
      <3>6. QED
        BY <2>1, <2>2, <3>2, <3>5, KeptComplete
    <2>7. QED
      BY <2>5, <2>6
  <1>13. ASSUME NEW w \in Workers, Collect(w)
        PROVE  SelectedComplete'
    <2>1. pc[w] = "collect" /\ key[w] \in Subs /\ UNCHANGED <<file, previous>>
      BY <1>13 DEF Collect, Prepared
    <2>2. previous = file /\ previous' = file
      BY <2>1, SettledInside DEF Inside, Restoring
    <2>3. \A k \in Live(file) : k \in Subs /\ file.subs[k].rev \in Revs /\ k \in homes
      BY FileShape DEF Live, Entry, TypeOK, SelectedComplete, Complete, Readable
    <2>4. file.subs[key[w]].rev = draft[w].rev /\ UNCHANGED homes
      BY <1>13, <2>1 DEF Collect, StillCurrent
    <2>5. PICK h \in Removals(key[w], Victims(w)) : dir' = [dir EXCEPT ![key[w]] = h]
      BY <1>13 DEF Collect
    <2>6. \A r \in Revs : r = draft[w].rev => h[r] = dir[key[w]][r]
      BY <2>5 DEF Removals, Victims
    <2>7. \A k \in Live(file) : dir'[k][file.subs[k].rev] = dir[k][file.subs[k].rev]
      BY <2>1, <2>3, <2>4, <2>5, <2>6 DEF TypeOK
    <2>8. QED
      BY <2>1, <2>2, <2>3, <2>4, <2>7, KeptComplete
  <1>14. ASSUME NEW w \in Workers, Note(w)
        PROVE  SelectedComplete'
    <2>1. UNCHANGED <<homes, dir>>
      BY <1>14 DEF Note
    <2>2. CASE UNCHANGED <<file, previous>>
      BY <2>1, <2>2, DiskStays DEF SelectedComplete
    <2>3. CASE ~UNCHANGED <<file, previous>>
      <3> DEFINE e == NoteEntry(w)
                 f == Put(file, key[w], e)
      <3>1. /\ pc[w] = "note" /\ Same(w)
            /\ op[w] = "auto" => old[w].fails < MaxFails
            /\ Committed(f) \/ Torn(f)
        BY <1>14, <2>3 DEF Note
      <3>2. key[w] \in Subs /\ old[w] \in Entry
        BY <3>1 DEF Prepared
      <3>3. /\ file.subs[key[w]] \in Entry /\ file \in File /\ Complete(file)
            /\ file.subs[key[w]].fails = old[w].fails
        BY <3>1, <3>2, FileShape, IdentityKeeps DEF Same, TypeOK, SelectedComplete
      <3>4. clock \in 0..MaxClock
        BY DEF TypeOK
      <3>5. e \in Entry /\ e.rev = file.subs[key[w]].rev
        <4>1. CASE op[w] = "auto"
          <5>1. file.subs[key[w]].fails + 1 \in 0..MaxFails
            BY <3>1, <3>3, <4>1 DEF Entry
          <5>2. e = [file.subs[key[w]] EXCEPT !.fails = file.subs[key[w]].fails + 1,
                                              !.updated = clock]
            BY <4>1, <3>3 DEF NoteEntry, Entry
          <5>3. QED
            BY <3>3, <3>4, <5>1, <5>2 DEF Entry
        <4>2. CASE op[w] # "auto"
          BY <3>2, <3>3, <4>2 DEF Entry, NoteEntry
        <4>3. QED
          BY <4>1, <4>2
      <3> HIDE DEF e
      <3>6. Complete(f)
        BY <3>2, <3>3, <3>5, SameRevisionComplete, NoneIsNothing
      <3> HIDE DEF f
      <3>7. QED
        BY <2>1, <3>1, <3>6, CommitComplete
    <2>4. QED
      BY <2>2, <2>3
  <1>15. ASSUME NEW w \in Workers, RemoveHome(w)
        PROVE  SelectedComplete'
    <2>1. pc[w] = "rmtree" /\ key[w] \in Subs /\ UNCHANGED <<file, previous>>
      BY <1>15 DEF RemoveHome, Prepared
    <2>2. previous = file /\ previous' = file
      BY <2>1, SettledInside DEF Inside, Restoring
    <2>3. \A k \in Live(file) : k \in Subs /\ file.subs[k].rev \in Revs /\ k \in homes
      BY FileShape DEF Live, Entry, TypeOK, SelectedComplete, Complete, Readable
    <2>4. key[w] \notin Live(file)
      BY <2>1 DEF StillCurrent, Live
    <2>5. homes \ {key[w]} \subseteq homes'
      BY <1>15 DEF RemoveHome
    <2>6. \E h : dir' = [dir EXCEPT ![key[w]] = h]
      BY <1>15 DEF RemoveHome
    <2>7. \A k \in Live(file) : dir'[k][file.subs[k].rev] = dir[k][file.subs[k].rev]
      BY <2>3, <2>4, <2>6 DEF TypeOK
    <2>8. QED
      BY <2>1, <2>2, <2>3, <2>4, <2>5, <2>7, KeptComplete
  <1>16. ASSUME NEW w \in Workers, StartCreate(w)
        PROVE  SelectedComplete'
    <2>1. UNCHANGED <<file, previous, homes, dir>>
      BY <1>16 DEF StartCreate
    <2>2. QED
      BY <2>1, DiskStays DEF SelectedComplete
  <1>17. ASSUME NEW w \in Workers, Crash(w)
        PROVE  SelectedComplete'
    <2>1. UNCHANGED <<homes, dir>>
      BY <1>17 DEF Crash
    <2>2. Complete(file') /\ Complete(previous')
      BY <1>17 DEF Crash, SelectedComplete
    <2>3. QED
      BY <2>1, <2>2, DiskStays
  <1>18. ASSUME Tick
        PROVE  SelectedComplete'
    <2>1. UNCHANGED <<file, previous, homes, dir>>
      BY <1>18 DEF Tick
    <2>2. QED
      BY <2>1, DiskStays DEF SelectedComplete
  <1>19. ASSUME NEW w \in Workers, NEW k \in Subs,
              NEW o \in {"edit", "auto", "cached"}, Request(w, k, o)
        PROVE  SelectedComplete'
    <2>1. UNCHANGED <<file, previous, homes, dir>>
      BY <1>19 DEF Request
    <2>2. QED
      BY <2>1, DiskStays DEF SelectedComplete
  <1>20. ASSUME NEW w \in Workers, NEW k \in Subs,
              NEW act \in {"enable", "disable", "regenerate", "delete"}, Manage(w, k, act)
        PROVE  SelectedComplete'
    <2>1. /\ UNCHANGED <<homes, dir>> /\ k \in Live(file)
          /\ \E f \in Managed(k, act) : Committed(f) \/ Torn(f)
      BY <1>20 DEF Manage
    <2>2. /\ file.subs[k] \in Entry /\ file \in File /\ Complete(file)
          /\ clock \in 0..MaxClock /\ file.subs[k].token \in Tokens
      BY <2>1, FileShape DEF Live, TypeOK, SelectedComplete, Entry
    <2> DEFINE e == file.subs[k]
               gone == Retire(file, e.token)
    <2>3. gone \in File /\ Complete(gone) /\ gone.subs[k] = e
      BY <2>2, RetireFacts, RetireComplete
    <2>4. ASSUME NEW f \in Managed(k, act) PROVE Complete(f)
      <3>1. ASSUME NEW s \in {"active", "disabled"}
            PROVE  Complete(Put(file, k, [e EXCEPT !.status = s, !.updated = clock]))
        <4> DEFINE new == [e EXCEPT !.status = s, !.updated = clock]
        <4>1. new \in Entry /\ new.rev = file.subs[k].rev
          BY <2>2 DEF Entry
        <4> HIDE DEF new
        <4>2. Complete(Put(file, k, new))
          BY <2>2, <4>1, SameRevisionComplete, NoneIsNothing
        <4>3. QED
          BY <4>2 DEF new
      <3>2. ASSUME NEW t \in Tokens
            PROVE  Complete(Put(gone, k, [e EXCEPT !.token = t, !.updated = clock]))
        <4> DEFINE new == [e EXCEPT !.token = t, !.updated = clock]
        <4>1. new \in Entry /\ new.rev = gone.subs[k].rev /\ gone.subs[k] # None
          BY <2>2, <2>3, NoneIsNothing DEF Entry
        <4> HIDE DEF new, gone
        <4>2. Complete(Put(gone, k, new))
          BY <2>3, <4>1, SameRevisionComplete
        <4>3. QED
          BY <4>2 DEF new
      <3>3. Complete(Put(gone, k, None))
        <4> HIDE DEF gone
        <4>1. QED
          BY <2>3, PutComplete
      <3>4. \A t \in FreshTokens(gone) : t \in Tokens
        BY DEF FreshTokens
      <3>5. CASE act \in {"enable", "disable"}
        <4> DEFINE s == IF act = "enable" THEN "active" ELSE "disabled"
        <4>1. f = Put(file, k, [e EXCEPT !.status = s, !.updated = clock])
          BY <2>4, <3>5 DEF Managed
        <4>2. s \in {"active", "disabled"}
          OBVIOUS
        <4> HIDE DEF s
        <4>3. QED
          BY <3>1, <4>1, <4>2
      <3>6. CASE act = "regenerate"
        <4>1. PICK t \in FreshTokens(gone) :
                 f = Put(gone, k, [e EXCEPT !.token = t, !.updated = clock])
          BY <2>4, <3>6 DEF Managed
        <4>2. QED
          BY <3>2, <3>4, <4>1
      <3>7. CASE act = "delete"
        <4>1. f = Put(gone, k, None)
          BY <2>4, <3>7 DEF Managed
        <4>2. QED
          BY <3>3, <4>1
      <3>8. QED
        BY <3>5, <3>6, <3>7
    <2>5. QED
      BY <2>1, <2>4, CommitComplete
  <1>21. ASSUME NEW w \in Workers, NEW k \in Subs, Resolve(w, k)
        PROVE  SelectedComplete'
    <2> DEFINE e == [file.subs[k] EXCEPT !.access = clock]
               f == Put(file, k, e)
    <2>1. /\ UNCHANGED <<homes, dir>> /\ k \in Live(file)
          /\ Committed(f) \/ Torn(f)
      BY <1>21 DEF Resolve
    <2>2. file.subs[k] \in Entry /\ file \in File /\ Complete(file) /\ clock \in 0..MaxClock
      BY <2>1, FileShape DEF Live, TypeOK, SelectedComplete
    <2>3. e \in Entry /\ e.rev = file.subs[k].rev
      BY <2>2 DEF Entry
    <2> HIDE DEF e
    <2>4. Complete(f)
      BY <2>2, <2>3, SameRevisionComplete, NoneIsNothing
    <2> HIDE DEF f
    <2>5. QED
      BY <2>1, <2>4, CommitComplete
  <1>22. CASE UNCHANGED vars
    <2>1. UNCHANGED <<file, previous, homes, dir>>
      BY <1>22 DEF vars
    <2>2. QED
      BY <2>1, DiskStays DEF SelectedComplete
  <1>23. QED
    BY <1>1, <1>2, <1>3, <1>4, <1>5, <1>6, <1>7, <1>8, <1>9, <1>10, <1>11, <1>12,
       <1>13, <1>14, <1>15, <1>16, <1>17, <1>18, <1>19, <1>20, <1>21, <1>22 DEF Next, Step

-----------------------------------------------------------------------------
(* The theorems *)

LEMMA InitIInv == Init => IInv
  <1> SUFFICES ASSUME Init PROVE IInv
    OBVIOUS
  <1> USE DEF Init
  <1>1. TypeOK
    <2>1. file \in File
      BY DEF File
    <2>2. QED
      BY <2>1 DEF TypeOK, Labels
  <1>2. Exclusion /\ Settled
    BY DEF Exclusion, Settled, Inside, Restoring
  <1>3. Prepared
    BY DEF Prepared
  <1>4. StillCurrent /\ CandidateComplete
    BY DEF StillCurrent, CandidateComplete
  <1>5. SelectedComplete
    BY DEF SelectedComplete, Complete, Live
  <1>6. QED
    BY <1>1, <1>2, <1>3, <1>4, <1>5 DEF IInv

LEMMA StepIInv == IInv /\ [Next]_vars => IInv'
  <1> SUFFICES ASSUME IInv, [Next]_vars PROVE IInv'
    OBVIOUS
  <1>1. /\ TypeOK /\ Exclusion /\ Settled /\ Prepared
        /\ StillCurrent /\ CandidateComplete /\ SelectedComplete
    BY DEF IInv
  <1>2. TypeOK'
    BY <1>1, TypeStep
  <1>3. Exclusion' /\ Settled' /\ Prepared'
    BY <1>1, ExclusionStep, SettledStep, PreparedStep
  <1>4. StillCurrent' /\ CandidateComplete'
    BY <1>1, StillCurrentStep, CandidateStep
  <1>5. SelectedComplete'
    BY <1>1, SelectedStep
  <1>6. QED
    BY <1>2, <1>3, <1>4, <1>5 DEF IInv

\* In every reachable state the inductive invariant holds: locked sections
\* exclude each other, rollbacks are pending only inside one, and what a
\* process carries from label to label is still true when it uses it.
THEOREM Inductive == Spec => []IInv
  BY InitIInv, StepIInv, PTL DEF Spec

\* Every reachable registry, directory tree and process has its type.
THEOREM TypeCorrect == Spec => []TypeOK
  <1>1. IInv => TypeOK
    BY DEF IInv
  <1>2. QED
    BY <1>1, Inductive, PTL

\* Whatever crashes, fails or interleaves, every registered subscription
\* selects a revision whose files are complete, in the registry on disk and in
\* the one a pending rollback would bring back.
THEOREM SelectedAlwaysComplete == Spec => []SelectedComplete
  <1>1. IInv => SelectedComplete
    BY DEF IInv
  <1>2. QED
    BY <1>1, Inductive, PTL

-----------------------------------------------------------------------------
(* What a step writes into the registry *)

\* An edit that keeps the entry's revision and token.
Touched(f, g) == \E k \in Subs : OnlyAt(f, g, k) /\ Kept(f, g, k)

LEMMA TouchedIsEdited ==
    ASSUME NEW f, NEW g, Touched(f, g)
    PROVE  /\ Edited(f, g)
           /\ Live(g) = Live(f)
           /\ \A k \in Live(f) : g.subs[k].rev = f.subs[k].rev
  BY DEF Touched, Edited, OnlyAt, Kept, Live

\* A write that keeps revision and token of one entry.
LEMMA KeptWrites ==
    ASSUME file \in File, NEW k \in Subs, NEW n \in Entry, file.subs[k] \in Entry,
           n.rev = file.subs[k].rev, n.token = file.subs[k].token,
           n.access >= file.subs[k].access,
           n.audit \in {file.subs[k].audit, file.subs[k].rev}
    PROVE  Touched(file, Put(file, k, n))
  <1> DEFINE g == Put(file, k, n)
  <1>1. /\ g.subs[k] = n /\ g.retired = file.retired
        /\ \A j \in Subs : j # k => g.subs[j] = file.subs[j]
    BY PutReads
  <1> HIDE DEF g
  <1>2. OnlyAt(file, g, k)
    BY <1>1 DEF OnlyAt
  <1>3. Kept(file, g, k)
    BY <1>1, NoneIsNothing DEF Kept
  <1>4. QED
    BY <1>2, <1>3 DEF Touched, g

\* The statistics of a public read.
LEMMA ResolveWrites ==
    ASSUME TypeOK, NEW k \in Subs, file.subs[k] \in Entry, file.subs[k].access < clock
    PROVE  Touched(file, Put(file, k, [file.subs[k] EXCEPT !.access = clock]))
  <1> DEFINE e == file.subs[k]
             n == [e EXCEPT !.access = clock]
  <1>1. clock \in 0..MaxClock /\ e.access \in 0..MaxClock /\ file \in File
    BY DEF TypeOK, Entry
  <1>2. n \in Entry
    BY <1>1 DEF Entry
  <1>3. n.rev = e.rev /\ n.token = e.token /\ n.access = clock /\ n.audit = e.audit
    BY <1>1 DEF Entry
  <1>4. n.access >= e.access
    BY <1>1, <1>3
  <1> HIDE DEF n
  <1>5. QED
    BY <1>1, <1>2, <1>3, <1>4, KeptWrites DEF n

\* The audit of a reconciliation that changed nothing, or that failed, and the
\* bookkeeping of a failed refresh.
LEMMA AuditWrites ==
    ASSUME TypeOK, NEW k \in Subs, NEW o \in Entry, Identity(file.subs[k]) = Identity(o)
    PROVE  /\ Touched(file, Put(file, k, [file.subs[k] EXCEPT !.audit = o.rev]))
           /\ Put(file, k, [file.subs[k] EXCEPT !.audit = o.rev]).subs[k].status
                = file.subs[k].status
  <1> DEFINE e == file.subs[k]
             n == [e EXCEPT !.audit = o.rev]
  <1>1. file \in File /\ e \in Entry \cup {None}
    BY FileShape DEF TypeOK
  <1>2. e \in Entry /\ o.rev = e.rev
    BY <1>1, IdentityKeeps
  <1>3. n \in Entry
    BY <1>2 DEF Entry
  <1>4. n.rev = e.rev /\ n.token = e.token /\ n.access = e.access /\ n.audit = e.rev
    BY <1>2 DEF Entry
  <1>5. n.access >= e.access
    BY <1>2, <1>4 DEF Entry
  <1>6. n.status = e.status
    BY <1>2 DEF Entry
  <1> HIDE DEF n
  <1>7. Put(file, k, n).subs[k] = n
    BY <1>1, PutReads
  <1>8. QED
    BY <1>1, <1>2, <1>3, <1>4, <1>5, <1>6, <1>7, KeptWrites DEF n

LEMMA FailureWrites ==
    ASSUME TypeOK, NEW k \in Subs, file.subs[k] \in Entry, file.subs[k].fails < MaxFails
    PROVE  Touched(file, Put(file, k, [file.subs[k] EXCEPT !.fails = @ + 1, !.updated = clock]))
  <1> DEFINE e == file.subs[k]
             n == [e EXCEPT !.fails = @ + 1, !.updated = clock]
  <1>1. file \in File /\ clock \in 0..MaxClock
    BY DEF TypeOK
  <1>2. e.fails + 1 \in 0..MaxFails
    BY DEF Entry
  <1>3. n \in Entry
    BY <1>1, <1>2 DEF Entry
  <1>4. n.rev = e.rev /\ n.token = e.token /\ n.access = e.access /\ n.audit = e.audit
    BY DEF Entry
  <1>5. n.access >= e.access
    BY <1>4 DEF Entry
  <1> HIDE DEF n
  <1>6. QED
    BY <1>1, <1>3, <1>4, <1>5, KeptWrites DEF n

LEMMA NoteWrites ==
    ASSUME TypeOK, Prepared, NEW w \in Workers, pc[w] = "note", Same(w),
           op[w] = "auto" => old[w].fails < MaxFails
    PROVE  Touched(file, Put(file, key[w], NoteEntry(w)))
  <1>1. key[w] \in Subs /\ old[w] \in Entry
    BY DEF Prepared, SaveOps
  <1>2. file.subs[key[w]] \in Entry /\ file.subs[key[w]].fails = old[w].fails
    BY <1>1, FileShape, IdentityKeeps DEF Same, TypeOK
  <1>3. CASE op[w] = "auto"
    BY <1>1, <1>2, <1>3, FailureWrites DEF NoteEntry
  <1>4. CASE op[w] # "auto"
    BY <1>1, <1>4, AuditWrites DEF NoteEntry, Same
  <1>5. QED
    BY <1>3, <1>4

\* Enable, disable, regenerate and delete.
LEMMA ManageWrites ==
    ASSUME TypeOK, NEW k \in Subs, file.subs[k] \in Entry,
           NEW act \in {"enable", "disable", "regenerate", "delete"}, NEW f \in Managed(k, act)
    PROVE  Edited(file, f)
  <1> DEFINE e == file.subs[k]
             gone == Retire(file, e.token)
  <1>1. file \in File /\ clock \in 0..MaxClock /\ e.token \in Tokens
    BY DEF TypeOK, Entry
  <1>2. /\ gone \in File /\ gone.subs = file.subs
        /\ gone.retired = file.retired \cup {e.token}
    BY <1>1, RetireFacts
  <1>3. CASE act \in {"enable", "disable"}
    <2> DEFINE s == IF act = "enable" THEN "active" ELSE "disabled"
               n == [e EXCEPT !.status = s, !.updated = clock]
    <2>1. f = Put(file, k, n)
      BY <1>3 DEF Managed
    <2>2. s \in {"active", "disabled"}
      OBVIOUS
    <2> HIDE DEF s
    <2>3. n \in Entry
      BY <1>1, <2>2 DEF Entry
    <2>4. n.rev = e.rev /\ n.token = e.token /\ n.access = e.access /\ n.audit = e.audit
      BY DEF Entry
    <2>5. n.access >= e.access
      BY <2>4 DEF Entry
    <2> HIDE DEF n
    <2>6. QED
      BY <1>1, <2>1, <2>3, <2>4, <2>5, KeptWrites, TouchedIsEdited
  <1>4. CASE act = "regenerate"
    <2> DEFINE n(t) == [e EXCEPT !.token = t, !.updated = clock]
    <2>1. PICK t \in FreshTokens(gone) : f = Put(gone, k, n(t))
      BY <1>4 DEF Managed
    <2>2. t \in Tokens /\ t \notin gone.retired /\ t \notin LiveTokens(gone)
      BY <2>1 DEF FreshTokens
    <2>3. n(t) \in Entry
      BY <1>1, <2>2 DEF Entry
    <2>4. /\ n(t).rev = e.rev /\ n(t).status = e.status /\ n(t).access = e.access
          /\ n(t).audit = e.audit /\ n(t).token = t
      BY DEF Entry
    <2>5. LiveTokens(gone) = LiveTokens(file)
      BY <1>2 DEF LiveTokens, Live
    <2> HIDE DEF n, gone
    <2>6. /\ f.subs[k] = n(t) /\ f.retired = gone.retired
          /\ \A j \in Subs : j # k => f.subs[j] = gone.subs[j]
      BY <1>2, <2>1, <2>3, PutReads
    <2>7. Rotated(file, f, k)
      BY <1>2, <2>2, <2>3, <2>4, <2>5, <2>6, NoneIsNothing DEF Rotated
    <2>8. OnlyAt(file, f, k)
      BY <1>2, <2>6 DEF OnlyAt
    <2>9. QED
      BY <2>7, <2>8 DEF Edited
  <1>5. CASE act = "delete"
    <2>1. f = Put(gone, k, None)
      BY <1>5 DEF Managed
    <2> HIDE DEF gone
    <2>2. /\ f.subs[k] = None /\ f.retired = gone.retired
          /\ \A j \in Subs : j # k => f.subs[j] = gone.subs[j]
      BY <1>2, <2>1, PutReads
    <2>3. OnlyAt(file, f, k) /\ Removed(file, f, k)
      BY <1>2, <2>2, NoneIsNothing DEF OnlyAt, Removed
    <2>4. QED
      BY <2>3 DEF Edited
  <1>6. QED
    BY <1>3, <1>4, <1>5

\* A save, in its locked section, over the entry it started from.
LEMMA PublishWrites ==
    ASSUME TypeOK, Prepared, StillCurrent, NEW w \in Workers, pc[w] = "placed",
           NEW t \in IF old[w] = None THEN FreshTokens(file) ELSE {old[w].token}
    PROVE  Published(w, file, Put(file, key[w], NewEntry(w, t)))
  <1> DEFINE e == file.subs[key[w]]
             n == NewEntry(w, t)
             g == Put(file, key[w], n)
  <1>1. /\ key[w] \in Subs /\ draft[w] \in Draft /\ op[w] \in SaveOps
        /\ op[w] = "create" => old[w] = None
        /\ op[w] # "create" => old[w] \in Entry
    BY DEF Prepared
  <1>2. t \in Tokens
    BY <1>1, NoneIsNothing DEF FreshTokens, Entry
  <1>3. file \in File /\ n \in Entry
    BY <1>1, <1>2, NewEntryType DEF TypeOK
  <1>4. /\ n.rev = draft[w].rev /\ n.audit = draft[w].rev /\ n.token = t
        /\ n.status = IF old[w] = None THEN "active" ELSE old[w].status
        /\ n.access = IF e = None THEN 0 ELSE e.access
    BY DEF NewEntry
  <1> HIDE DEF n
  <1>5. /\ g.subs[key[w]] = n /\ g.retired = file.retired
        /\ \A j \in Subs : j # key[w] => g.subs[j] = file.subs[j]
    BY <1>1, <1>3, PutReads
  <1> HIDE DEF g
  <1>6. OnlyAt(file, g, key[w]) /\ g.subs[key[w]] # None
    BY <1>3, <1>5, NoneIsNothing DEF OnlyAt
  <1>7. CASE op[w] = "create"
    <2>1. e = None /\ old[w] = None
      BY <1>1, <1>7 DEF StillCurrent
    <2>2. t \notin file.retired \cup LiveTokens(file)
      BY <2>1 DEF FreshTokens
    <2>3. QED
      BY <1>4, <1>5, <1>6, <1>7, <2>1, <2>2 DEF Published, n, g
  <1>8. CASE op[w] # "create"
    <2>1. e # None /\ Identity(e) = Identity(old[w]) /\ old[w] \in Entry
      BY <1>1, <1>8 DEF StillCurrent, Same
    <2>2. e \in Entry \cup {None}
      BY <1>1, FileShape DEF TypeOK
    <2>3. e.token = old[w].token /\ e.status = old[w].status
      BY <2>1, <2>2, IdentityKeeps
    <2>4. t = old[w].token /\ old[w] # None
      BY <2>1, NoneIsNothing
    <2>5. n.token = e.token /\ n.status = e.status /\ n.access = e.access
      BY <1>4, <2>1, <2>3, <2>4
    <2>6. QED
      BY <1>4, <1>5, <1>6, <1>8, <2>1, <2>5 DEF Published, n, g
  <1>9. QED
    BY <1>7, <1>8

\* Neither kind of write gives two subscriptions one token, revives a retired
\* one or leaves an audit beside a revision it is not about.
LEMMA EditedKeeps ==
    ASSUME NEW f, NEW g, Edited(f, g), TokensApart(f), AuditsBeside(f)
    PROVE  TokensApart(g) /\ AuditsBeside(g)
  <1>1. PICK k \in Subs : OnlyAt(f, g, k) /\ (Kept(f, g, k) \/ Rotated(f, g, k) \/ Removed(f, g, k))
    BY DEF Edited
  <1>2. \A j \in Subs \ {k} : g.subs[j] = f.subs[j]
    BY <1>1 DEF OnlyAt
  <1>3. CASE Kept(f, g, k)
    <2>1. /\ Live(g) = Live(f) /\ g.retired = f.retired
          /\ \A j \in Live(f) : g.subs[j].token = f.subs[j].token
      BY <1>2, <1>3 DEF Kept, Live
    <2>2. TokensApart(g)
      BY <2>1 DEF TokensApart
    <2>3. AuditsBeside(g)
      BY <1>2, <1>3, <2>1 DEF Kept, AuditsBeside, Live
    <2>4. QED
      BY <2>2, <2>3
  <1>4. CASE Rotated(f, g, k)
    <2>1. Live(g) = Live(f) /\ k \in Live(f) /\ g.retired = f.retired \cup {f.subs[k].token}
      BY <1>2, <1>4 DEF Rotated, Live
    <2>2. \A j \in Live(f) \ {k} :
             /\ g.subs[j].token = f.subs[j].token
             /\ f.subs[j].token # f.subs[k].token
             /\ f.subs[j].token \in LiveTokens(f)
      BY <1>2, <2>1 DEF TokensApart, Live, LiveTokens
    <2>3. /\ g.subs[k].token \notin f.retired \cup LiveTokens(f)
          /\ f.subs[k].token \in LiveTokens(f)
      BY <1>4, <2>1 DEF Rotated, LiveTokens
    <2>4. \A j \in Live(g) : g.subs[j].token \notin g.retired
      BY <2>1, <2>2, <2>3 DEF TokensApart
    <2>5. \A i, j \in Live(g) : g.subs[j].token = g.subs[i].token => j = i
      BY <2>1, <2>2, <2>3 DEF TokensApart
    <2>6. TokensApart(g)
      BY <2>4, <2>5 DEF TokensApart
    <2>7. AuditsBeside(g)
      BY <1>2, <1>4, <2>1 DEF Rotated, AuditsBeside, Live
    <2>8. QED
      BY <2>6, <2>7
  <1>5. CASE Removed(f, g, k)
    <2>1. /\ Live(g) = Live(f) \ {k} /\ k \in Live(f)
          /\ g.retired = f.retired \cup {f.subs[k].token}
      BY <1>2, <1>5 DEF Removed, Live
    <2>2. \A j \in Live(g) : j \in Live(f) /\ j # k /\ g.subs[j] = f.subs[j]
      BY <1>2, <2>1 DEF Live
    <2>3. TokensApart(g)
      BY <2>1, <2>2 DEF TokensApart
    <2>4. AuditsBeside(g)
      BY <2>2 DEF AuditsBeside
    <2>5. QED
      BY <2>3, <2>4
  <1>6. QED
    BY <1>1, <1>3, <1>4, <1>5

LEMMA PublishedKeeps ==
    ASSUME NEW w \in Workers, key[w] \in Subs, NEW f, NEW g, Published(w, f, g),
           TokensApart(f), AuditsBeside(f)
    PROVE  TokensApart(g) /\ AuditsBeside(g)
  <1> DEFINE k == key[w]
  <1>1. /\ \A j \in Subs \ {k} : g.subs[j] = f.subs[j]
        /\ k \in Live(g) /\ g.retired = f.retired
        /\ g.subs[k].audit = g.subs[k].rev
    BY DEF Published, OnlyAt, Live
  <1>2. Live(g) = Live(f) \cup {k}
    BY <1>1 DEF Live
  <1>3. AuditsBeside(g)
    <2>1. \A j \in Live(g) : j = k \/ (j \in Live(f) /\ g.subs[j] = f.subs[j])
      BY <1>1, <1>2 DEF Live
    <2>2. QED
      BY <1>1, <2>1 DEF AuditsBeside
  <1>4. CASE op[w] = "create"
    <2>1. k \notin Live(f) /\ g.subs[k].token \notin f.retired \cup LiveTokens(f)
      BY <1>4 DEF Published, Live
    <2>2. \A j \in Live(f) : g.subs[j].token = f.subs[j].token /\ f.subs[j].token \in LiveTokens(f)
      BY <1>1, <2>1 DEF LiveTokens, Live
    <2>3. \A j \in Live(g) : g.subs[j].token \notin g.retired
      BY <1>1, <1>2, <2>1, <2>2 DEF TokensApart
    <2>4. \A i, j \in Live(g) : g.subs[j].token = g.subs[i].token => j = i
      BY <1>2, <2>1, <2>2 DEF TokensApart
    <2>5. QED
      BY <1>3, <2>3, <2>4 DEF TokensApart
  <1>5. CASE op[w] # "create"
    <2>1. k \in Live(f) /\ g.subs[k].token = f.subs[k].token
      BY <1>1, <1>5 DEF Published, Live
    <2>2. Live(g) = Live(f) /\ \A j \in Live(f) : g.subs[j].token = f.subs[j].token
      BY <1>1, <1>2, <2>1 DEF Live
    <2>3. TokensApart(g)
      BY <1>1, <2>2 DEF TokensApart
    <2>4. QED
      BY <1>3, <2>3
  <1>6. QED
    BY <1>4, <1>5

\* What one step may do to the two registries: nothing, one write that takes
\* effect or is torn, the end of a rollback, or a crash in the middle of one.
Quiet == UNCHANGED <<file, previous>>
Edit == \E g \in File : Edited(file, g) /\ (Committed(g) \/ Torn(g))
Save == \E w \in Workers, g \in File :
           /\ pc[w] = "placed"
           /\ Published(w, file, g) /\ (Committed(g) \/ Torn(g))
Resolution == (\E w \in Workers : pc[w] \in Restoring) /\ RestoreBytes

LEMMA Effects ==
    ASSUME IInv, [Next]_vars
    PROVE  Quiet \/ (previous = file /\ (Edit \/ Save)) \/ Resolution
  <1> DEFINE Goal == Quiet \/ (previous = file /\ (Edit \/ Save)) \/ Resolution
  <1>0. TypeOK /\ Exclusion /\ Settled /\ Prepared /\ StillCurrent
    BY DEF IInv
  <1>a. lock = None => previous = file
    BY <1>0, NoneIsNothing DEF Exclusion, Settled, Inside
  <1>b. TypeOK'
    BY <1>0, TypeStep
  <1>1. ASSUME NEW w \in Workers, Publish(w)
        PROVE  Goal
    <2>1. previous = file
      BY <1>0, <1>1, SettledInside DEF Publish, Inside, Restoring
    <2>2. CASE UNCHANGED <<file, previous>>
      BY <2>2 DEF Quiet
    <2>3. CASE ~UNCHANGED <<file, previous>>
      <3>1. PICK t \in IF old[w] = None THEN FreshTokens(file) ELSE {old[w].token} :
               LET f == Put(file, key[w], NewEntry(w, t)) IN Committed(f) \/ Torn(f)
        BY <1>1, <2>3 DEF Publish
      <3> DEFINE f == Put(file, key[w], NewEntry(w, t))
      <3>2. pc[w] = "placed" /\ Published(w, file, f)
        BY <1>0, <1>1, PublishWrites DEF Publish
      <3>3. Committed(f) \/ Torn(f)
        BY <3>1
      <3> HIDE DEF f
      <3>4. f \in File
        BY <1>b, <3>3 DEF TypeOK, Committed, Torn
      <3>5. Save
        BY <3>2, <3>3, <3>4 DEF Save
      <3>6. QED
        BY <2>1, <3>5
    <2>4. QED
      BY <2>2, <2>3
  <1>2. ASSUME NEW w \in Workers, PublishAudit(w)
        PROVE  Goal
    <2> DEFINE f == Put(file, key[w], [file.subs[key[w]] EXCEPT !.audit = old[w].rev])
    <2>1. key[w] \in Subs /\ old[w] \in Entry /\ previous = file
      BY <1>0, <1>a, <1>2 DEF PublishAudit, Prepared
    <2>2. Edited(file, f)
      BY <1>0, <1>2, <2>1, AuditWrites, TouchedIsEdited DEF PublishAudit, Same
    <2>3. Committed(f) \/ Torn(f) \/ Quiet
      BY <1>2 DEF PublishAudit, NotWritten, Quiet
    <2> HIDE DEF f
    <2>4. Committed(f) \/ Torn(f) => f \in File
      BY <1>b DEF TypeOK, Committed, Torn
    <2>5. QED
      BY <2>1, <2>2, <2>3, <2>4 DEF Edit
  <1>3. ASSUME NEW w \in Workers, Note(w)
        PROVE  Goal
    <2> DEFINE f == Put(file, key[w], NoteEntry(w))
    <2>1. previous = file
      BY <1>a, <1>3 DEF Note
    <2>2. Quiet \/ (/\ Same(w) /\ (op[w] = "auto" => old[w].fails < MaxFails)
                    /\ Committed(f) \/ Torn(f))
      BY <1>3, <2>1 DEF Note, Quiet
    <2>3. ~Quiet => Edited(file, f)
      BY <1>0, <1>3, <2>2, NoteWrites, TouchedIsEdited DEF Note
    <2> HIDE DEF f
    <2>4. Committed(f) \/ Torn(f) => f \in File
      BY <1>b DEF TypeOK, Committed, Torn
    <2>5. QED
      BY <2>1, <2>2, <2>3, <2>4 DEF Edit
  <1>4. ASSUME NEW w \in Workers, NEW k \in Subs,
              NEW act \in {"enable", "disable", "regenerate", "delete"}, Manage(w, k, act)
        PROVE  Goal
    <2>1. previous = file /\ file.subs[k] \in Entry
      BY <1>0, <1>a, <1>4, FileShape DEF Manage, Live, TypeOK
    <2>2. PICK f \in Managed(k, act) : Committed(f) \/ Torn(f)
      BY <1>4 DEF Manage
    <2>3. Edited(file, f)
      BY <1>0, <2>1, ManageWrites
    <2>4. f \in File
      BY <1>b, <2>2 DEF TypeOK, Committed, Torn
    <2>5. QED
      BY <2>1, <2>2, <2>3, <2>4 DEF Edit
  <1>5. ASSUME NEW w \in Workers, NEW k \in Subs, Resolve(w, k)
        PROVE  Goal
    <2> DEFINE f == Put(file, k, [file.subs[k] EXCEPT !.access = clock])
    <2>1. previous = file /\ file.subs[k] \in Entry /\ file.subs[k].access < clock
      BY <1>0, <1>a, <1>5, FileShape DEF Resolve, Live, TypeOK
    <2>2. Edited(file, f)
      BY <1>0, <2>1, ResolveWrites, TouchedIsEdited
    <2>3. Committed(f) \/ Torn(f)
      BY <1>5 DEF Resolve
    <2> HIDE DEF f
    <2>4. f \in File
      BY <1>b, <2>3 DEF TypeOK, Committed, Torn
    <2>5. QED
      BY <2>1, <2>2, <2>3, <2>4 DEF Edit
  <1>6. ASSUME NEW w \in Workers, Restore(w)
        PROVE  Goal
    BY <1>6 DEF Restore, Resolution
  <1>7. ASSUME NEW w \in Workers, Crash(w)
        PROVE  Goal
    BY <1>7 DEF Crash, Resolution, RestoreBytes, Quiet
  <1>8. ASSUME NEW w \in Workers,
               \/ Snapshot(w) \/ Build(w) \/ BuildFails(w) \/ Conflict(w) \/ Enter(w)
               \/ AllocateHome(w) \/ PlaceFails(w) \/ Place(w) \/ Abort(w) \/ Collect(w)
               \/ RemoveHome(w) \/ StartCreate(w)
        PROVE  Goal
    <2>1. Quiet
      BY <1>8 DEF Quiet, Snapshot, Build, BuildFails, Conflict, Enter, AllocateHome, PlaceFails,
                  Place, Abort, Collect, RemoveHome, StartCreate
    <2>2. QED
      BY <2>1
  <1>9. ASSUME NEW w \in Workers, NEW k \in Subs, NEW o \in {"edit", "auto", "cached"}, Request(w, k, o)
        PROVE  Goal
    BY <1>9 DEF Request, Quiet
  <1>10. ASSUME Tick \/ UNCHANGED vars
         PROVE  Goal
    BY <1>10 DEF Tick, Quiet, vars
  <1> HIDE DEF Goal
  <1>11. Goal
    <2>1. ASSUME NEW w \in Workers, Step(w) PROVE Goal
      BY <1>1, <1>2, <1>3, <1>6, <1>8, <2>1 DEF Step
    <2>2. ASSUME NEW w \in Workers, StartCreate(w) PROVE Goal
      BY <1>8, <2>2
    <2>3. QED
      BY <1>4, <1>5, <1>7, <1>9, <1>10, <2>1, <2>2 DEF Next
  <1>12. QED
    BY <1>11 DEF Goal

-----------------------------------------------------------------------------
(* The registry: tokens, audits and what a rollback would undo *)

LEMMA ApartStep ==
    ASSUME IInv, RegistryInv, [Next]_vars
    PROVE  /\ TokensApart(file') /\ TokensApart(previous')
           /\ AuditsBeside(file') /\ AuditsBeside(previous')
  <1> DEFINE Good(f) == TokensApart(f) /\ AuditsBeside(f)
  <1>1. Good(file) /\ Good(previous)
    BY DEF RegistryInv
  <1>2. CASE Quiet
    <2>1. file' = file /\ previous' = previous
      BY <1>2 DEF Quiet
    <2> HIDE DEF Good
    <2>2. Good(file') /\ Good(previous')
      BY <1>1, <2>1
    <2>3. QED
      BY <2>2 DEF Good
  <1>3. CASE previous = file /\ (Edit \/ Save)
    <2>1. PICK g \in File :
             /\ Committed(g) \/ Torn(g)
             /\ Edited(file, g) \/ \E w \in Workers : pc[w] = "placed" /\ Published(w, file, g)
      BY <1>3 DEF Edit, Save
    <2>2. \A w \in Workers : pc[w] = "placed" => key[w] \in Subs
      BY DEF IInv, Prepared
    <2>3. Good(g)
      BY <1>1, <2>1, <2>2, EditedKeeps, PublishedKeeps
    <2> HIDE DEF Good
    <2>4. Good(file') /\ Good(previous')
      BY <1>1, <2>1, <2>3 DEF Committed, Torn
    <2>5. QED
      BY <2>4 DEF Good
  <1>4. CASE Resolution
    <2> HIDE DEF Good
    <2>1. Good(file') /\ Good(previous')
      BY <1>1, <1>4 DEF Resolution, RestoreBytes
    <2>2. QED
      BY <2>1 DEF Good
  <1>5. QED
    BY <1>2, <1>3, <1>4, Effects

\* Nobody touches what a pending rollback is about.
LEMMA PendingKept ==
    ASSUME Pending, UNCHANGED <<file, previous>>,
           \A w \in Workers : pc'[w] \in Restoring =>
              /\ pc'[w] = pc[w] /\ op'[w] = op[w] /\ key'[w] = key[w]
              /\ old'[w] = old[w] /\ draft'[w] = draft[w]
    PROVE  Pending'
  <1>1. ASSUME NEW w \in Workers, pc'[w] \in {"restore_note", "restore_end"}
        PROVE  Edited(previous', file')
    BY <1>1 DEF Pending, Restoring
  <1>2. ASSUME NEW w \in Workers, pc'[w] = "restore_abort"
        PROVE  Published(w, previous, file)'
    <2>1. pc[w] = "restore_abort" /\ Published(w, previous, file)
      BY <1>2 DEF Pending, Restoring
    <2>2. /\ op'[w] = op[w] /\ key'[w] = key[w] /\ old'[w] = old[w] /\ draft'[w] = draft[w]
          /\ file' = file /\ previous' = previous
      BY <1>2 DEF Restoring
    <2>3. QED
      BY <2>1, <2>2 DEF Published, OnlyAt, LiveTokens, Live, Identity
  <1>3. QED
    BY <1>1, <1>2 DEF Pending, Edited, OnlyAt, Kept, Rotated, Removed, LiveTokens, Live

\* A write by the one process that may write is the pending one, if any is.
LEMMA PendingTorn ==
    ASSUME NEW w \in Workers, previous = file, NEW g, Committed(g) \/ Torn(g),
           \A u \in Workers \ {w} : pc'[u] \notin Restoring,
           pc'[w] \in Restoring => Torn(g),
           pc'[w] \in {"restore_note", "restore_end"} => Edited(file, g),
           pc'[w] = "restore_abort" =>
              /\ Published(w, file, g)
              /\ op'[w] = op[w] /\ key'[w] = key[w] /\ old'[w] = old[w] /\ draft'[w] = draft[w]
    PROVE  Pending'
  <1>1. ASSUME pc'[w] \in Restoring
        PROVE  previous' = file /\ file' = g
    BY <1>1 DEF Torn
  <1>2. pc'[w] \in {"restore_note", "restore_end"} => Edited(previous', file')
    BY <1>1 DEF Restoring
  <1>3. ASSUME pc'[w] = "restore_abort"
        PROVE  Published(w, previous, file)'
    <2>1. previous' = file /\ file' = g
      BY <1>1, <1>3 DEF Restoring
    <2>2. QED
      BY <1>3, <2>1 DEF Published, OnlyAt, LiveTokens, Live, Identity
  <1>4. QED
    BY <1>2, <1>3 DEF Pending, Restoring, Edited, OnlyAt, Kept, Rotated, Removed, LiveTokens, Live

LEMMA PendingStep ==
    ASSUME IInv, RegistryInv, [Next]_vars
    PROVE  Pending'
  <1>0. TypeOK /\ Exclusion /\ Settled /\ Prepared /\ StillCurrent /\ Pending
    BY DEF IInv, RegistryInv
  <1>a. LocalsOK
    BY <1>0, TypeParts
  <1>b. lock = None => previous = file /\ \A u \in Workers : pc[u] \notin Restoring
    BY <1>0, NoneIsNothing DEF Exclusion, Settled, Inside
  <1>c. ASSUME NEW w \in Workers, pc[w] \in Inside
        PROVE  \A u \in Workers \ {w} : pc[u] \notin Restoring
    BY <1>0, <1>c DEF Exclusion, Inside
  <1>1. ASSUME NEW w \in Workers, Snapshot(w)
        PROVE  Pending'
    <2>1. UNCHANGED <<file, previous>>
      BY <1>1 DEF Snapshot
    <2>2. \A u \in Workers : pc'[u] \in Restoring =>
             /\ pc'[u] = pc[u] /\ op'[u] = op[u] /\ key'[u] = key[u]
             /\ old'[u] = old[u] /\ draft'[u] = draft[u]
      BY <1>a, <1>1 DEF Snapshot, LocalsOK, Goto, Finish, GiveUp, locals, Restoring
    <2>3. QED
      BY <1>0, <2>1, <2>2, PendingKept
  <1>2. ASSUME NEW w \in Workers, Build(w)
        PROVE  Pending'
    <2>1. UNCHANGED <<file, previous>>
      BY <1>2 DEF Build
    <2>2. \A u \in Workers : pc'[u] \in Restoring =>
             /\ pc'[u] = pc[u] /\ op'[u] = op[u] /\ key'[u] = key[u]
             /\ old'[u] = old[u] /\ draft'[u] = draft[u]
      BY <1>a, <1>2 DEF Build, LocalsOK, Goto, Finish, GiveUp, locals, Restoring
    <2>3. QED
      BY <1>0, <2>1, <2>2, PendingKept
  <1>3. ASSUME NEW w \in Workers, BuildFails(w)
        PROVE  Pending'
    <2>1. UNCHANGED <<file, previous>>
      BY <1>3 DEF BuildFails
    <2>2. \A u \in Workers : pc'[u] \in Restoring =>
             /\ pc'[u] = pc[u] /\ op'[u] = op[u] /\ key'[u] = key[u]
             /\ old'[u] = old[u] /\ draft'[u] = draft[u]
      BY <1>a, <1>3 DEF BuildFails, LocalsOK, Goto, Finish, GiveUp, locals, Restoring
    <2>3. QED
      BY <1>0, <2>1, <2>2, PendingKept
  <1>4. ASSUME NEW w \in Workers, Conflict(w)
        PROVE  Pending'
    <2>1. UNCHANGED <<file, previous>>
      BY <1>4 DEF Conflict
    <2>2. \A u \in Workers : pc'[u] \in Restoring =>
             /\ pc'[u] = pc[u] /\ op'[u] = op[u] /\ key'[u] = key[u]
             /\ old'[u] = old[u] /\ draft'[u] = draft[u]
      BY <1>a, <1>4 DEF Conflict, LocalsOK, Goto, Finish, GiveUp, locals, Restoring
    <2>3. QED
      BY <1>0, <2>1, <2>2, PendingKept
  <1>5. ASSUME NEW w \in Workers, Enter(w)
        PROVE  Pending'
    <2>1. UNCHANGED <<file, previous>>
      BY <1>5 DEF Enter
    <2>2. \A u \in Workers : pc'[u] \in Restoring =>
             /\ pc'[u] = pc[u] /\ op'[u] = op[u] /\ key'[u] = key[u]
             /\ old'[u] = old[u] /\ draft'[u] = draft[u]
      BY <1>a, <1>5 DEF Enter, LocalsOK, Goto, Finish, GiveUp, locals, Restoring
    <2>3. QED
      BY <1>0, <2>1, <2>2, PendingKept
  <1>6. ASSUME NEW w \in Workers, AllocateHome(w)
        PROVE  Pending'
    <2>1. UNCHANGED <<file, previous>>
      BY <1>6 DEF AllocateHome
    <2>2. \A u \in Workers : pc'[u] \in Restoring =>
             /\ pc'[u] = pc[u] /\ op'[u] = op[u] /\ key'[u] = key[u]
             /\ old'[u] = old[u] /\ draft'[u] = draft[u]
      BY <1>a, <1>6 DEF AllocateHome, LocalsOK, Goto, Finish, GiveUp, locals, Restoring
    <2>3. QED
      BY <1>0, <2>1, <2>2, PendingKept
  <1>7. ASSUME NEW w \in Workers, PlaceFails(w)
        PROVE  Pending'
    <2>1. UNCHANGED <<file, previous>>
      BY <1>7 DEF PlaceFails
    <2>2. \A u \in Workers : pc'[u] \in Restoring =>
             /\ pc'[u] = pc[u] /\ op'[u] = op[u] /\ key'[u] = key[u]
             /\ old'[u] = old[u] /\ draft'[u] = draft[u]
      BY <1>a, <1>7 DEF PlaceFails, LocalsOK, Goto, Finish, GiveUp, locals, Restoring
    <2>3. QED
      BY <1>0, <2>1, <2>2, PendingKept
  <1>8. ASSUME NEW w \in Workers, Place(w)
        PROVE  Pending'
    <2>1. UNCHANGED <<file, previous>>
      BY <1>8 DEF Place
    <2>2. \A u \in Workers : pc'[u] \in Restoring =>
             /\ pc'[u] = pc[u] /\ op'[u] = op[u] /\ key'[u] = key[u]
             /\ old'[u] = old[u] /\ draft'[u] = draft[u]
      BY <1>a, <1>8 DEF Place, LocalsOK, Goto, Finish, GiveUp, locals, Restoring
    <2>3. QED
      BY <1>0, <2>1, <2>2, PendingKept
  <1>9. ASSUME NEW w \in Workers, Abort(w)
        PROVE  Pending'
    <2>1. UNCHANGED <<file, previous>>
      BY <1>9 DEF Abort
    <2>2. \A u \in Workers : pc'[u] \in Restoring =>
             /\ pc'[u] = pc[u] /\ op'[u] = op[u] /\ key'[u] = key[u]
             /\ old'[u] = old[u] /\ draft'[u] = draft[u]
      BY <1>a, <1>9 DEF Abort, LocalsOK, Goto, Finish, GiveUp, locals, Restoring
    <2>3. QED
      BY <1>0, <2>1, <2>2, PendingKept
  <1>10. ASSUME NEW w \in Workers, Collect(w)
        PROVE  Pending'
    <2>1. UNCHANGED <<file, previous>>
      BY <1>10 DEF Collect
    <2>2. \A u \in Workers : pc'[u] \in Restoring =>
             /\ pc'[u] = pc[u] /\ op'[u] = op[u] /\ key'[u] = key[u]
             /\ old'[u] = old[u] /\ draft'[u] = draft[u]
      BY <1>a, <1>10 DEF Collect, LocalsOK, Goto, Finish, GiveUp, locals, Restoring
    <2>3. QED
      BY <1>0, <2>1, <2>2, PendingKept
  <1>11. ASSUME NEW w \in Workers, RemoveHome(w)
        PROVE  Pending'
    <2>1. UNCHANGED <<file, previous>>
      BY <1>11 DEF RemoveHome
    <2>2. \A u \in Workers : pc'[u] \in Restoring =>
             /\ pc'[u] = pc[u] /\ op'[u] = op[u] /\ key'[u] = key[u]
             /\ old'[u] = old[u] /\ draft'[u] = draft[u]
      BY <1>a, <1>11 DEF RemoveHome, LocalsOK, Goto, Finish, GiveUp, locals, Restoring
    <2>3. QED
      BY <1>0, <2>1, <2>2, PendingKept
  <1>12. ASSUME NEW w \in Workers, StartCreate(w)
        PROVE  Pending'
    <2>1. UNCHANGED <<file, previous>>
      BY <1>12 DEF StartCreate
    <2>2. \A u \in Workers : pc'[u] \in Restoring =>
             /\ pc'[u] = pc[u] /\ op'[u] = op[u] /\ key'[u] = key[u]
             /\ old'[u] = old[u] /\ draft'[u] = draft[u]
      BY <1>a, <1>12 DEF StartCreate, LocalsOK, Goto, Finish, GiveUp, locals, Restoring
    <2>3. QED
      BY <1>0, <2>1, <2>2, PendingKept
  <1>13. ASSUME NEW w \in Workers, NEW k \in Subs, NEW o \in {"edit", "auto", "cached"}, Request(w, k, o)
        PROVE  Pending'
    <2>1. UNCHANGED <<file, previous>>
      BY <1>13 DEF Request
    <2>2. \A u \in Workers : pc'[u] \notin Restoring
      BY <1>a, <1>b, <1>13 DEF Request, LocalsOK, Goto, Restoring
    <2>3. QED
      BY <1>0, <2>1, <2>2, PendingKept
  <1>14. ASSUME Tick \/ UNCHANGED vars
        PROVE  Pending'
    <2>1. UNCHANGED <<file, previous, pc, op, key, old, draft>>
      BY <1>14 DEF Tick, vars, locals
    <2>2. QED
      BY <1>0, <2>1, PendingKept
  <1>15. ASSUME NEW w \in Workers, Crash(w) \/ Restore(w)
        PROVE  Pending'
    <2>1. pc'[w] \notin Restoring /\ \A u \in Workers \ {w} : pc'[u] = pc[u] /\ op'[u] = op[u] /\ key'[u] = key[u]
             /\ old'[u] = old[u] /\ draft'[u] = draft[u]
      BY SMTT(30), <1>a, <1>15 DEF Crash, Restore, LocalsOK, Goto, Finish, locals, Restoring
    <2>2. CASE pc[w] \in Restoring
      <3>1. \A u \in Workers : pc'[u] \notin Restoring
        BY <1>c, <2>1, <2>2 DEF Inside
      <3>2. QED
        BY <3>1 DEF Pending, Restoring
    <2>3. CASE pc[w] \notin Restoring
      <3>1. UNCHANGED <<file, previous>>
        BY <1>15, <2>3 DEF Crash, Restore
      <3>2. QED
        BY <1>0, <2>1, <3>1, PendingKept
    <2>4. QED
      BY <2>2, <2>3
  <1>16. ASSUME NEW w \in Workers, Publish(w)
        PROVE  Pending'
    <2>1. previous = file /\ \A u \in Workers \ {w} : pc[u] \notin Restoring
      BY <1>0, <1>c, <1>16, SettledInside DEF Publish, Inside, Restoring
    <2>2. /\ \A u \in Workers \ {w} : pc'[u] = pc[u]
          /\ op'[w] = op[w] /\ key'[w] = key[w] /\ old'[w] = old[w] /\ draft'[w] = draft[w]
      BY <1>a, <1>16 DEF Publish, LocalsOK, Goto, locals
    <2>3. CASE pc'[w] \notin Restoring
      <3>1. \A u \in Workers : pc'[u] \notin Restoring
        BY <2>1, <2>2, <2>3
      <3>2. QED
        BY <3>1 DEF Pending, Restoring
    <2>4. CASE pc'[w] \in Restoring
      <3>1. PICK t \in IF old[w] = None THEN FreshTokens(file) ELSE {old[w].token} :
               LET f == Put(file, key[w], NewEntry(w, t))
               IN  Torn(f) /\ Goto(w, "restore_abort")
        BY <1>a, <1>16, <2>4 DEF Publish, Goto, Restoring, LocalsOK
      <3> DEFINE f == Put(file, key[w], NewEntry(w, t))
      <3>2. Published(w, file, f)
        BY <1>0, <1>16, PublishWrites DEF Publish
      <3>3. Torn(f) /\ pc'[w] = "restore_abort"
        BY <1>a, <3>1 DEF Goto, LocalsOK
      <3> HIDE DEF f
      <3>4. QED
        BY <2>1, <2>2, <3>2, <3>3, PendingTorn
    <2>5. QED
      BY <2>3, <2>4
  <1>17. ASSUME NEW w \in Workers, PublishAudit(w)
        PROVE  Pending'
    <2> DEFINE f == Put(file, key[w], [file.subs[key[w]] EXCEPT !.audit = old[w].rev])
    <2>1. previous = file /\ \A u \in Workers : pc[u] \notin Restoring
      BY <1>b, <1>17 DEF PublishAudit
    <2>2. key[w] \in Subs /\ old[w] \in Entry
      BY <1>0, <1>17 DEF PublishAudit, Prepared
    <2>3. \A u \in Workers \ {w} : pc'[u] = pc[u]
      BY <1>a, <1>17 DEF PublishAudit, LocalsOK, Goto, Finish, GiveUp
    <2>4. CASE pc'[w] \notin Restoring
      BY <2>1, <2>3, <2>4 DEF Pending, Restoring
    <2>5. CASE pc'[w] \in Restoring
      <3>1. Edited(file, f)
        BY <1>0, <1>17, <2>2, AuditWrites, TouchedIsEdited DEF PublishAudit, Same
      <3>2. Torn(f) /\ pc'[w] = "restore_note"
        BY <1>a, <1>17, <2>5 DEF PublishAudit, LocalsOK, Goto, Finish, GiveUp, Restoring
      <3> HIDE DEF f
      <3>3. QED
        BY <2>1, <2>3, <3>1, <3>2, PendingTorn
    <2>6. QED
      BY <2>4, <2>5
  <1>18. ASSUME NEW w \in Workers, Note(w)
        PROVE  Pending'
    <2> DEFINE f == Put(file, key[w], NoteEntry(w))
    <2>1. previous = file /\ \A u \in Workers : pc[u] \notin Restoring
      BY <1>b, <1>18 DEF Note
    <2>2. \A u \in Workers \ {w} : pc'[u] = pc[u]
      BY <1>a, <1>18 DEF Note, LocalsOK, Goto, Finish
    <2>3. CASE pc'[w] \notin Restoring
      BY <2>1, <2>2, <2>3 DEF Pending, Restoring
    <2>4. CASE pc'[w] \in Restoring
      <3>1. /\ Torn(f) /\ pc'[w] = "restore_end" /\ Same(w)
            /\ op[w] = "auto" => old[w].fails < MaxFails
        BY <1>a, <1>18, <2>4 DEF Note, LocalsOK, Goto, Finish, Restoring
      <3>2. Edited(file, f)
        BY <1>0, <1>18, <3>1, NoteWrites, TouchedIsEdited DEF Note
      <3> HIDE DEF f
      <3>3. QED
        BY <2>1, <2>2, <3>1, <3>2, PendingTorn
    <2>5. QED
      BY <2>3, <2>4
  <1>19. ASSUME NEW w \in Workers, NEW k \in Subs,
              NEW act \in {"enable", "disable", "regenerate", "delete"}, Manage(w, k, act)
        PROVE  Pending'
    <2>1. previous = file /\ \A u \in Workers : pc[u] \notin Restoring
      BY <1>b, <1>19 DEF Manage
    <2>2. \A u \in Workers \ {w} : pc'[u] = pc[u]
      BY <1>a, <1>19 DEF Manage, LocalsOK, Goto
    <2>3. CASE pc'[w] \notin Restoring
      BY <2>1, <2>2, <2>3 DEF Pending, Restoring
    <2>4. CASE pc'[w] \in Restoring
      <3>1. PICK f \in Managed(k, act) : Torn(f) /\ pc'[w] = "restore_end"
        BY <1>a, <1>19, <2>1, <2>4 DEF Manage, LocalsOK, Goto, Restoring
      <3>2. file.subs[k] \in Entry
        BY <1>0, <1>19, FileShape DEF Manage, Live, TypeOK
      <3>3. Edited(file, f)
        BY <1>0, <3>2, ManageWrites
      <3>4. QED
        BY <2>1, <2>2, <3>1, <3>3, PendingTorn
    <2>5. QED
      BY <2>3, <2>4
  <1>20. ASSUME NEW w \in Workers, NEW k \in Subs, Resolve(w, k)
        PROVE  Pending'
    <2> DEFINE f == Put(file, k, [file.subs[k] EXCEPT !.access = clock])
    <2>1. previous = file /\ \A u \in Workers : pc[u] \notin Restoring
      BY <1>b, <1>20 DEF Resolve
    <2>2. \A u \in Workers \ {w} : pc'[u] = pc[u]
      BY <1>a, <1>20 DEF Resolve, LocalsOK, Goto
    <2>3. CASE pc'[w] \notin Restoring
      BY <2>1, <2>2, <2>3 DEF Pending, Restoring
    <2>4. CASE pc'[w] \in Restoring
      <3>1. Torn(f) /\ pc'[w] = "restore_end"
        BY <1>a, <1>20, <2>1, <2>4 DEF Resolve, LocalsOK, Goto, Restoring
      <3>2. file.subs[k] \in Entry /\ file.subs[k].access < clock
        BY <1>0, <1>20, FileShape DEF Resolve, Live, TypeOK
      <3>3. Edited(file, f)
        BY <1>0, <3>2, ResolveWrites, TouchedIsEdited
      <3> HIDE DEF f
      <3>4. QED
        BY <2>1, <2>2, <3>1, <3>3, PendingTorn
    <2>5. QED
      BY <2>3, <2>4
  <1>21. ASSUME NEW w \in Workers, Step(w)
        PROVE  Pending'
    BY <1>1, <1>2, <1>3, <1>4, <1>5, <1>6, <1>7, <1>8, <1>9, <1>10, <1>11, <1>15, <1>16, <1>17, <1>18, <1>21 DEF Step
  <1>22. QED
    BY <1>12, <1>13, <1>14, <1>15, <1>19, <1>20, <1>21 DEF Next

LEMMA StepRegistry == IInv /\ RegistryInv /\ [Next]_vars => RegistryInv'
  BY ApartStep, PendingStep DEF RegistryInv

LEMMA InitRegistry == Init => RegistryInv
  <1> SUFFICES ASSUME Init PROVE RegistryInv
    OBVIOUS
  <1>1. Live(file) = {} /\ previous = file
    BY DEF Init, Live
  <1>2. Pending
    BY DEF Init, Pending
  <1>3. QED
    BY <1>1, <1>2 DEF RegistryInv, TokensApart, AuditsBeside

\* The registry on disk and the settled one differ by the one write of the
\* process that is about to undo it, and both keep tokens and audits in order.
THEOREM RegistryOrder == Spec => []RegistryInv
  <1>1. IInv /\ RegistryInv /\ [Next]_vars => RegistryInv'
    BY StepRegistry
  <1>2. QED
    BY <1>1, Inductive, InitRegistry, PTL DEF Spec

\* However creates, rotations, deletions, crashes and rollbacks interleave, a
\* token opens at most one subscription and a retired token opens none.
THEOREM TokensNeverShared == Spec => []TokensUnique
  <1>1. RegistryInv => TokensUnique
    BY DEF RegistryInv, TokensApart, TokensUnique
  <1>2. QED
    BY <1>1, RegistryOrder, PTL

\* An audit stands beside the revision it is about, in every reachable registry.
THEOREM AuditsNeverStray == Spec => []AuditDescribesSelected
  <1>1. RegistryInv => AuditDescribesSelected
    BY DEF RegistryInv, AuditsBeside, AuditDescribesSelected
  <1>2. QED
    BY <1>1, RegistryOrder, PTL

-----------------------------------------------------------------------------
(* What is left on disk when nothing fails *)

\* The audits, the bookkeeping of a failure and the statistics, as whole steps.
LEMMA TouchSteps ==
    ASSUME TypeOK, Prepared, NEW w \in Workers,
           PublishAudit(w) \/ Note(w) \/ \E k \in Subs : Resolve(w, k)
    PROVE  file' = file \/ Touched(file, file')
  <1>1. CASE PublishAudit(w)
    <2> DEFINE f == Put(file, key[w], [file.subs[key[w]] EXCEPT !.audit = old[w].rev])
    <2>1. key[w] \in Subs /\ old[w] \in Entry
      BY <1>1 DEF PublishAudit, Prepared
    <2>2. Touched(file, f)
      BY <1>1, <2>1, AuditWrites DEF PublishAudit, Same
    <2>3. file' = f \/ file' = file
      BY <1>1 DEF PublishAudit, Committed, Torn, NotWritten
    <2>4. QED
      BY <2>2, <2>3
  <1>2. CASE Note(w)
    <2> DEFINE f == Put(file, key[w], NoteEntry(w))
    <2>1. \/ file' = file
          \/ file' = f /\ Same(w) /\ (op[w] = "auto" => old[w].fails < MaxFails)
      BY <1>2 DEF Note, Committed, Torn
    <2>2. QED
      BY <1>2, <2>1, NoteWrites DEF Note
  <1>3. ASSUME NEW k \in Subs, Resolve(w, k)
        PROVE  file' = file \/ Touched(file, file')
    <2> DEFINE f == Put(file, k, [file.subs[k] EXCEPT !.access = clock])
    <2>1. file.subs[k] \in Entry /\ file.subs[k].access < clock
      BY <1>3, FileShape DEF Resolve, Live, TypeOK
    <2>2. Touched(file, f)
      BY <2>1, ResolveWrites
    <2>3. file' = f
      BY <1>3 DEF Resolve, Committed, Torn
    <2>4. QED
      BY <2>2, <2>3
  <1>4. QED
    BY <1>1, <1>2, <1>3

\* A management action leaves every other subscription alone, and only a
\* delete takes the entry away.
LEMMA ManagedElsewhere ==
    ASSUME file \in File, NEW k \in Subs, file.subs[k] \in Entry, clock \in 1..MaxClock,
           NEW act \in {"enable", "disable", "regenerate", "delete"}, NEW f \in Managed(k, act)
    PROVE  /\ \A j \in Subs : j # k => f.subs[j] = file.subs[j]
           /\ f.subs[k] = None <=> act = "delete"
           /\ f.subs[k] # None => f.subs[k] \in Entry
  <1> DEFINE e == file.subs[k]
             gone == Retire(file, e.token)
  <1>1. e.token \in Tokens /\ clock \in 0..MaxClock
    BY DEF Entry
  <1>2. gone \in File /\ gone.subs = file.subs
    BY <1>1, RetireFacts
  <1>3. f \in File /\ f.subs[k] \in Entry \cup {None}
    BY ManagedType, FileShape
  <1>4. CASE act \in {"enable", "disable"}
    <2> DEFINE n == [e EXCEPT !.status = IF act = "enable" THEN "active" ELSE "disabled",
                              !.updated = clock]
    <2>1. f = Put(file, k, n)
      BY <1>4 DEF Managed
    <2>2. n \in Entry
      BY <1>1 DEF Entry
    <2> HIDE DEF n
    <2>3. f.subs[k] = n /\ \A j \in Subs : j # k => f.subs[j] = file.subs[j]
      BY <2>1, PutReads
    <2>4. QED
      BY <1>4, <2>2, <2>3, NoneIsNothing
  <1>5. CASE act = "regenerate"
    <2> DEFINE n(t) == [e EXCEPT !.token = t, !.updated = clock]
    <2>1. PICK t \in FreshTokens(gone) : f = Put(gone, k, n(t))
      BY <1>5 DEF Managed
    <2>2. n(t) \in Entry
      BY <1>1 DEF Entry, FreshTokens
    <2> HIDE DEF n, gone
    <2>3. f.subs[k] = n(t) /\ \A j \in Subs : j # k => f.subs[j] = gone.subs[j]
      BY <1>2, <2>1, PutReads
    <2>4. QED
      BY <1>2, <1>5, <2>2, <2>3, NoneIsNothing
  <1>6. CASE act = "delete"
    <2>1. f = Put(gone, k, None)
      BY <1>6 DEF Managed
    <2> HIDE DEF gone
    <2>2. f.subs[k] = None /\ \A j \in Subs : j # k => f.subs[j] = gone.subs[j]
      BY <1>2, <2>1, PutReads
    <2>3. QED
      BY <1>2, <1>6, <2>2
  <1>7. QED
    BY <1>4, <1>5, <1>6

\* A step that leaves the disk and the processes in locked sections alone.
LEMMA CleaningKept ==
    ASSUME Faults = {}, Cleaning, UNCHANGED <<homes, dir>>,
           \A k \in Live(file) : k \in Live(file') /\ file'.subs[k].rev = file.subs[k].rev,
           \A u \in Workers : pc'[u] \notin Restoring,
           \A u \in Workers : pc[u] \in Inside \ {"locked"} =>
              pc'[u] = pc[u] /\ op'[u] = op[u] /\ key'[u] = key[u] /\ draft'[u] = draft[u]
    PROVE  Cleaning'
  <1>1. ASSUME NEW u \in Workers
        PROVE  /\ \A k \in homes : UsesHome(u, k) => UsesHome(u, k)'
               /\ \A k \in Subs, r \in Revs : UsesRevision(u, k, r) => UsesRevision(u, k, r)'
    BY DEF UsesHome, UsesRevision, Inside
  <1>2. \A k \in homes' : k \in Live(file') \/ \E u \in Workers : UsesHome(u, k)'
    BY <1>1 DEF Cleaning
  <1>3. \A k \in Subs, r \in Revs : dir'[k][r] # "absent" =>
           \/ k \in Live(file') /\ file'.subs[k].rev = r
           \/ \E u \in Workers : UsesRevision(u, k, r)'
    BY <1>1 DEF Cleaning
  <1>4. QED
    BY <1>2, <1>3 DEF Cleaning

\* A step of the one process in a locked section.
LEMMA CleaningBy ==
    ASSUME NEW w \in Workers,
           \A u \in Workers : pc'[u] \notin Restoring,
           \A k \in homes' : k \in Live(file') \/ UsesHome(w, k)',
           \A k \in Subs, r \in Revs : dir'[k][r] # "absent" =>
              (k \in Live(file') /\ file'.subs[k].rev = r) \/ UsesRevision(w, k, r)'
    PROVE  Cleaning'
  BY DEF Cleaning

\* An edit that deletes nothing registers the same revisions.
LEMMA EditRegisters ==
    ASSUME NEW g, Edited(file, g), file' = g, NEW k \in Live(file), g.subs[k] # None
    PROVE  k \in Live(file') /\ file'.subs[k].rev = file.subs[k].rev
  BY DEF Edited, OnlyAt, Kept, Rotated, Removed, Live

LEMMA CleaningStep ==
    ASSUME IInv, Cleaning, [Next]_vars, Faults = {}
    PROVE  Cleaning'
  <1>0. TypeOK /\ Exclusion /\ Settled /\ Prepared /\ StillCurrent
    BY DEF IInv
  <1>a. LocalsOK /\ file \in File /\ homes \in SUBSET Subs
        /\ dir \in [Subs -> [Revs -> {"absent", "whole", "partial"}]] /\ clock \in 1..MaxClock
    BY <1>0, TypeParts DEF TypeOK
  <1>b. \A u \in Workers : pc[u] \notin Restoring
    BY DEF Cleaning
  <1>c. ASSUME NEW w \in Workers, pc[w] \in Inside
        PROVE  \A u \in Workers \ {w} : pc[u] \notin Inside
    BY <1>0, <1>c DEF Exclusion
  <1>d. ASSUME NEW w \in Workers, pc[w] \in Inside
        PROVE  /\ \A k \in homes : k \in Live(file) \/ UsesHome(w, k)
               /\ \A k \in Subs, r \in Revs : dir[k][r] # "absent" =>
                    (k \in Live(file) /\ file.subs[k].rev = r) \/ UsesRevision(w, k, r)
    <2>1. \A u \in Workers \ {w} : pc[u] \notin Inside
      BY <1>c, <1>d
    <2>2. \A u \in Workers \ {w} : /\ \A k \in homes : ~UsesHome(u, k)
                                   /\ \A k \in Subs, r \in Revs : ~UsesRevision(u, k, r)
      BY <2>1 DEF UsesHome, UsesRevision, Inside
    <2>3. QED
      BY <2>2 DEF Cleaning
  <1>e. lock = None => \A u \in Workers : pc[u] \notin Inside
    BY <1>0, NoneIsNothing DEF Exclusion
  <1>1. ASSUME NEW w \in Workers, Snapshot(w)
        PROVE  Cleaning'
    <2>1. UNCHANGED <<file, homes, dir>>
      BY <1>1 DEF Snapshot
    <2>2. /\ pc[w] \notin Inside \ {"locked"} /\ pc'[w] \notin Restoring
          /\ \A u \in Workers \ {w} : /\ pc'[u] = pc[u] /\ op'[u] = op[u]
                                      /\ key'[u] = key[u] /\ draft'[u] = draft[u]
      BY <1>a, <1>1 DEF Snapshot, LocalsOK, Goto, Finish, GiveUp, locals, Restoring, Inside
    <2>3. QED
      BY <1>b, <2>1, <2>2, CleaningKept
  <1>2. ASSUME NEW w \in Workers, Build(w)
        PROVE  Cleaning'
    <2>1. UNCHANGED <<file, homes, dir>>
      BY <1>2 DEF Build
    <2>2. /\ pc[w] \notin Inside \ {"locked"} /\ pc'[w] \notin Restoring
          /\ \A u \in Workers \ {w} : /\ pc'[u] = pc[u] /\ op'[u] = op[u]
                                      /\ key'[u] = key[u] /\ draft'[u] = draft[u]
      BY <1>a, <1>2 DEF Build, LocalsOK, Goto, Finish, GiveUp, locals, Restoring, Inside
    <2>3. QED
      BY <1>b, <2>1, <2>2, CleaningKept
  <1>3. ASSUME NEW w \in Workers, BuildFails(w)
        PROVE  Cleaning'
    <2>1. UNCHANGED <<file, homes, dir>>
      BY <1>3 DEF BuildFails
    <2>2. /\ pc[w] \notin Inside \ {"locked"} /\ pc'[w] \notin Restoring
          /\ \A u \in Workers \ {w} : /\ pc'[u] = pc[u] /\ op'[u] = op[u]
                                      /\ key'[u] = key[u] /\ draft'[u] = draft[u]
      BY <1>a, <1>3 DEF BuildFails, LocalsOK, Goto, Finish, GiveUp, locals, Restoring, Inside
    <2>3. QED
      BY <1>b, <2>1, <2>2, CleaningKept
  <1>4. ASSUME NEW w \in Workers, Conflict(w)
        PROVE  Cleaning'
    <2>1. UNCHANGED <<file, homes, dir>>
      BY <1>4 DEF Conflict
    <2>2. /\ pc[w] \notin Inside \ {"locked"} /\ pc'[w] \notin Restoring
          /\ \A u \in Workers \ {w} : /\ pc'[u] = pc[u] /\ op'[u] = op[u]
                                      /\ key'[u] = key[u] /\ draft'[u] = draft[u]
      BY <1>a, <1>4 DEF Conflict, LocalsOK, Goto, Finish, GiveUp, locals, Restoring, Inside
    <2>3. QED
      BY <1>b, <2>1, <2>2, CleaningKept
  <1>5. ASSUME NEW w \in Workers, Enter(w)
        PROVE  Cleaning'
    <2>1. UNCHANGED <<file, homes, dir>>
      BY <1>5 DEF Enter
    <2>2. /\ pc[w] \notin Inside \ {"locked"} /\ pc'[w] \notin Restoring
          /\ \A u \in Workers \ {w} : /\ pc'[u] = pc[u] /\ op'[u] = op[u]
                                      /\ key'[u] = key[u] /\ draft'[u] = draft[u]
      BY <1>a, <1>5 DEF Enter, LocalsOK, Goto, Finish, GiveUp, locals, Restoring, Inside
    <2>3. QED
      BY <1>b, <2>1, <2>2, CleaningKept
  <1>6. ASSUME NEW w \in Workers, PlaceFails(w)
        PROVE  Cleaning'
    <2>1. UNCHANGED <<file, homes, dir>>
      BY <1>6 DEF PlaceFails
    <2>2. /\ pc[w] \notin Inside \ {"locked"} /\ pc'[w] \notin Restoring
          /\ \A u \in Workers \ {w} : /\ pc'[u] = pc[u] /\ op'[u] = op[u]
                                      /\ key'[u] = key[u] /\ draft'[u] = draft[u]
      BY <1>a, <1>6 DEF PlaceFails, LocalsOK, Goto, Finish, GiveUp, locals, Restoring, Inside
    <2>3. QED
      BY <1>b, <2>1, <2>2, CleaningKept
  <1>7. ASSUME NEW w \in Workers, StartCreate(w)
        PROVE  Cleaning'
    <2>1. UNCHANGED <<file, homes, dir>>
      BY <1>7 DEF StartCreate
    <2>2. /\ pc[w] \notin Inside \ {"locked"} /\ pc'[w] \notin Restoring
          /\ \A u \in Workers \ {w} : /\ pc'[u] = pc[u] /\ op'[u] = op[u]
                                      /\ key'[u] = key[u] /\ draft'[u] = draft[u]
      BY <1>a, <1>7 DEF StartCreate, LocalsOK, Goto, Finish, GiveUp, locals, Restoring, Inside
    <2>3. QED
      BY <1>b, <2>1, <2>2, CleaningKept
  <1>8. ASSUME NEW w \in Workers, NEW k \in Subs, NEW o \in {"edit", "auto", "cached"}, Request(w, k, o)
        PROVE  Cleaning'
    <2>1. UNCHANGED <<file, homes, dir>>
      BY <1>8 DEF Request
    <2>2. /\ \A u \in Workers : pc[u] \notin Inside
          /\ \A u \in Workers : pc'[u] \notin Restoring
      BY <1>a, <1>b, <1>e, <1>8 DEF Request, LocalsOK, Goto, Restoring
    <2>3. QED
      BY <2>1, <2>2, CleaningKept
  <1>9. ASSUME Tick \/ UNCHANGED vars
        PROVE  Cleaning'
    <2>1. UNCHANGED <<file, homes, dir, pc, op, key, draft>>
      BY <1>9 DEF Tick, vars, locals
    <2>2. QED
      BY <1>b, <2>1, CleaningKept
  <1>10. ASSUME NEW w \in Workers, Crash(w) \/ Restore(w)
        PROVE  Cleaning'
    BY <1>b, <1>10 DEF Crash, Restore
  <1>11. ASSUME NEW w \in Workers, PublishAudit(w) \/ Note(w) \/ \E k \in Subs : Resolve(w, k)
        PROVE  Cleaning'
    <2>1. UNCHANGED <<homes, dir>> /\ lock = None
      BY <1>11 DEF PublishAudit, Note, Resolve
    <2>2. file' = file \/ Touched(file, file')
      BY <1>0, <1>11, TouchSteps
    <2>3. \A k \in Live(file) : k \in Live(file') /\ file'.subs[k].rev = file.subs[k].rev
      BY <2>2, TouchedIsEdited
    <2>4. \A u \in Workers : pc[u] \notin Inside
      BY <1>e, <2>1
    <2>5. /\ \A u \in Workers \ {w} : pc'[u] = pc[u]
          /\ pc'[w] \in Restoring => \E f : Torn(f)
      BY <1>a, <1>b, <1>11 DEF PublishAudit, Note, Resolve, LocalsOK, Goto, Finish, GiveUp, Restoring
    <2>6. \A u \in Workers : pc'[u] \notin Restoring
      BY <1>b, <2>5 DEF Torn
    <2>7. QED
      BY <2>1, <2>3, <2>4, <2>6, CleaningKept
  <1>12. ASSUME NEW w \in Workers, NEW k \in Subs,
              NEW act \in {"enable", "disable", "regenerate", "delete"}, Manage(w, k, act)
        PROVE  Cleaning'
    <2>1. /\ lock = None /\ UNCHANGED <<homes, dir>> /\ file.subs[k] \in Entry
          /\ \A u \in Workers : pc[u] \notin Inside
      BY <1>a, <1>e, <1>12, FileShape DEF Manage, Live
    <2>2. PICK f \in Managed(k, act) :
             /\ Committed(f) \/ Torn(f)
             /\ Committed(f) => IF act = "delete"
                                THEN Goto(w, "rmtree") /\ key' = [key EXCEPT ![w] = k]
                                ELSE UNCHANGED <<pc, key>>
      BY <1>12 DEF Manage, Committed, Torn
    <2>3. Edited(file, f)
      BY <1>0, <2>1, ManageWrites
    <2>4. Committed(f) /\ file' = f
      BY <2>2 DEF Torn, Committed
    <2>5. \A u \in Workers : pc'[u] \notin Restoring
      BY <1>a, <1>b, <2>2, <2>4 DEF LocalsOK, Goto, Restoring
    <2>6. \A j \in Subs : j # k => f.subs[j] = file.subs[j]
      BY <1>a, <2>1, <2>2, ManagedElsewhere
    <2>7. CASE act # "delete"
      <3>1. f.subs[k] # None
        BY <1>a, <2>1, <2>7, ManagedElsewhere
      <3>2. \A j \in Live(file) : j \in Live(file') /\ file'.subs[j].rev = file.subs[j].rev
        BY <2>3, <2>4, <2>6, <3>1, EditRegisters DEF Live
      <3>3. QED
        BY <2>1, <2>5, <3>2, CleaningKept
    <2>8. CASE act = "delete"
      <3>1. pc'[w] = "rmtree" /\ key'[w] = k
        BY <1>a, <2>2, <2>4, <2>8 DEF LocalsOK, Goto
      <3>2. /\ \A j \in homes : j \in Live(file)
            /\ \A j \in Subs, r \in Revs : dir[j][r] # "absent" =>
                  j \in Live(file) /\ file.subs[j].rev = r
        BY <2>1 DEF Cleaning, UsesHome, UsesRevision, Inside
      <3>3. \A j \in Subs \ {k} : j \in Live(file) =>
               j \in Live(file') /\ file'.subs[j].rev = file.subs[j].rev
        BY <2>4, <2>6 DEF Live
      <3>4. UsesHome(w, k)' /\ \A r \in Revs : UsesRevision(w, k, r)'
        BY <3>1 DEF UsesHome, UsesRevision
      <3>5. \A j \in homes' : j \in Live(file') \/ UsesHome(w, j)'
        BY <1>a, <2>1, <3>2, <3>3, <3>4
      <3>6. \A j \in Subs, r \in Revs : dir'[j][r] # "absent" =>
               (j \in Live(file') /\ file'.subs[j].rev = r) \/ UsesRevision(w, j, r)'
        BY <2>1, <3>2, <3>3, <3>4
      <3>7. QED
        BY <2>5, <3>5, <3>6, CleaningBy
    <2>9. QED
      BY <2>7, <2>8
  <1>13. ASSUME NEW w \in Workers, AllocateHome(w)
        PROVE  Cleaning'
    <2>1. pc[w] \in Inside
      BY <1>13 DEF AllocateHome, Inside
    <2>2. /\ \A j \in homes : j \in Live(file) \/ UsesHome(w, j)
          /\ \A j \in Subs, r \in Revs : dir[j][r] # "absent" =>
                (j \in Live(file) /\ file.subs[j].rev = r) \/ UsesRevision(w, j, r)
      BY <1>d, <2>1
    <2>3. PICK k \in Subs \ (homes \cup Live(file)) :
             homes' = homes \cup {k} /\ key' = [key EXCEPT ![w] = k]
      BY <1>13 DEF AllocateHome
    <2>4. UNCHANGED <<file, dir>> /\ pc[w] = "locked" /\ pc'[w] = "homed" /\ key'[w] = k
          /\ \A u \in Workers : pc'[u] \notin Restoring
      BY <1>a, <1>b, <1>13, <2>3 DEF AllocateHome, LocalsOK, Goto, Restoring
    <2>5. \A j \in homes' : j \in Live(file') \/ UsesHome(w, j)'
      BY <2>2, <2>3, <2>4 DEF UsesHome
    <2>6. \A j \in Subs, r \in Revs : dir'[j][r] # "absent" =>
             (j \in Live(file') /\ file'.subs[j].rev = r) \/ UsesRevision(w, j, r)'
      BY <2>2, <2>4 DEF UsesRevision
    <2>7. QED
      BY <2>4, <2>5, <2>6, CleaningBy
  <1>14. ASSUME NEW w \in Workers, Place(w)
        PROVE  Cleaning'
    <2>1. pc[w] \in Inside
      BY <1>14 DEF Place, Inside
    <2>2. /\ \A j \in homes : j \in Live(file) \/ UsesHome(w, j)
          /\ \A j \in Subs, r \in Revs : dir[j][r] # "absent" =>
                (j \in Live(file) /\ file.subs[j].rev = r) \/ UsesRevision(w, j, r)
      BY <1>d, <2>1
    <2>3. /\ UNCHANGED <<file, homes, key, op, draft>> /\ pc'[w] = "placed"
          /\ pc[w] = "homed" \/ pc[w] = "locked"
          /\ dir' = [dir EXCEPT ![key[w]][draft[w].rev] = "whole"]
          /\ \A u \in Workers : pc'[u] \notin Restoring
      BY <1>a, <1>b, <1>14 DEF Place, LocalsOK, Goto, locals, Restoring
    <2>4. pc[w] = "homed" => op[w] = "create"
      BY <1>0 DEF Prepared
    <2>5. \A j \in homes' : j \in Live(file') \/ UsesHome(w, j)'
      BY <2>2, <2>3, <2>4 DEF UsesHome
    <2>6. \A j \in Subs, r \in Revs : dir'[j][r] # "absent" =>
             dir[j][r] # "absent" \/ (j = key[w] /\ r = draft[w].rev)
      BY <1>a, <2>3
    <2>7. \A j \in Subs, r \in Revs : dir'[j][r] # "absent" =>
             (j \in Live(file') /\ file'.subs[j].rev = r) \/ UsesRevision(w, j, r)'
      BY <2>2, <2>3, <2>6 DEF UsesRevision
    <2>8. QED
      BY <2>3, <2>5, <2>7, CleaningBy
  <1>15. ASSUME NEW w \in Workers, Publish(w)
        PROVE  Cleaning'
    <2>1. pc[w] \in Inside
      BY <1>15 DEF Publish, Inside
    <2>2. /\ \A j \in homes : j \in Live(file) \/ UsesHome(w, j)
          /\ \A j \in Subs, r \in Revs : dir[j][r] # "absent" =>
                (j \in Live(file) /\ file.subs[j].rev = r) \/ UsesRevision(w, j, r)
      BY <1>d, <2>1
    <2>3. /\ UNCHANGED <<homes, dir, key, op, draft, old>> /\ pc[w] = "placed"
          /\ \A f : ~Torn(f)
      BY <1>15 DEF Publish, Torn, locals
    <2>a. \A u \in Workers \ {w} : pc'[u] = pc[u]
      BY <1>a, <1>15 DEF Publish, LocalsOK, Goto
    <2>4. CASE UNCHANGED file /\ pc'[w] = "abort"
      <3>1. \A u \in Workers : pc'[u] \notin Restoring
        BY <1>b, <2>a, <2>4 DEF Restoring
      <3>2. \A j \in homes' : j \in Live(file') \/ UsesHome(w, j)'
        BY <2>2, <2>3, <2>4 DEF UsesHome
      <3>3. \A j \in Subs, r \in Revs : dir'[j][r] # "absent" =>
               (j \in Live(file') /\ file'.subs[j].rev = r) \/ UsesRevision(w, j, r)'
        BY <2>2, <2>3, <2>4 DEF UsesRevision
      <3>4. QED
        BY <3>1, <3>2, <3>3, CleaningBy
    <2>5. CASE ~(UNCHANGED file /\ pc'[w] = "abort")
      <3>1. PICK t \in IF old[w] = None THEN FreshTokens(file) ELSE {old[w].token} :
               file' = Put(file, key[w], NewEntry(w, t)) /\ pc'[w] = "collect"
        BY <1>a, <1>15, <2>3, <2>5 DEF Publish, Committed, Goto, LocalsOK
      <3>2. Published(w, file, file')
        BY <1>0, <2>3, <3>1, PublishWrites
      <3>3. /\ \A j \in Subs \ {key[w]} : file'.subs[j] = file.subs[j]
            /\ file'.subs[key[w]] # None /\ key[w] \in Subs
        BY <1>0, <2>3, <3>2 DEF Published, OnlyAt, Prepared
      <3>4. \A u \in Workers : pc'[u] \notin Restoring
        BY <1>b, <2>a, <3>1 DEF Restoring
      <3>5. \A j \in homes' : j \in Live(file') \/ UsesHome(w, j)'
        BY <1>a, <2>2, <2>3, <3>3 DEF UsesHome, Live
      <3>6. \A r \in Revs : UsesRevision(w, key[w], r)'
        BY <2>3, <3>1 DEF UsesRevision
      <3>7. \A j \in Subs, r \in Revs : dir'[j][r] # "absent" =>
               (j \in Live(file') /\ file'.subs[j].rev = r) \/ UsesRevision(w, j, r)'
        BY <2>2, <2>3, <3>3, <3>6 DEF UsesRevision, Live
      <3>8. QED
        BY <3>4, <3>5, <3>7, CleaningBy
    <2>6. QED
      BY <2>4, <2>5
  <1>16. ASSUME NEW w \in Workers, Abort(w)
        PROVE  Cleaning'
    <2>1. pc[w] \in Inside
      BY <1>16 DEF Abort, Inside
    <2>2. /\ \A j \in homes : j \in Live(file) \/ UsesHome(w, j)
          /\ \A j \in Subs, r \in Revs : dir[j][r] # "absent" =>
                (j \in Live(file) /\ file.subs[j].rev = r) \/ UsesRevision(w, j, r)
      BY <1>d, <2>1
    <2>3. /\ UNCHANGED file /\ pc[w] = "abort" /\ key[w] \in Subs /\ draft[w] \in Draft
          /\ op[w] = "create" <=> old[w] = None
      BY <1>0, <1>16, NoneIsNothing DEF Abort, Prepared
    <2>a. \A u \in Workers : pc'[u] \notin Restoring
      BY <1>a, <1>b, <1>16 DEF Abort, LocalsOK, Goto, Finish, GiveUp, Restoring
    <2>4. CASE Unreferenced(w)
      <3>1. /\ dir' = [dir EXCEPT ![key[w]][draft[w].rev] = "absent"]
            /\ homes' = IF old[w] = None THEN homes \ {key[w]} ELSE homes
        BY <1>16, <2>4 DEF Abort
      <3>2. \A j \in homes' : j \in Live(file')
        BY <2>2, <2>3, <3>1 DEF UsesHome
      <3>3. \A j \in Subs, r \in Revs : dir'[j][r] # "absent" =>
               dir[j][r] # "absent" /\ ~(j = key[w] /\ r = draft[w].rev)
        BY <1>a, <2>3, <3>1 DEF Draft
      <3>4. \A j \in Subs, r \in Revs : dir'[j][r] # "absent" =>
               j \in Live(file') /\ file'.subs[j].rev = r
        BY <2>2, <2>3, <3>3 DEF UsesRevision
      <3>5. QED
        BY <2>a, <3>2, <3>4, CleaningBy
    <2>5. CASE ~Unreferenced(w)
      <3>1. UNCHANGED <<dir, homes>>
        BY <1>16, <2>5 DEF Abort
      <3>2. key[w] \in Live(file) /\ file.subs[key[w]].rev = draft[w].rev
        BY <2>3, <2>5 DEF Unreferenced, Live
      <3>3. \A j \in homes' : j \in Live(file')
        BY <2>2, <2>3, <3>1, <3>2 DEF UsesHome
      <3>4. \A j \in Subs, r \in Revs : dir'[j][r] # "absent" =>
               j \in Live(file') /\ file'.subs[j].rev = r
        BY <2>2, <2>3, <3>1, <3>2 DEF UsesRevision
      <3>5. QED
        BY <2>a, <3>3, <3>4, CleaningBy
    <2>6. QED
      BY <2>4, <2>5
  <1>17. ASSUME NEW w \in Workers, Collect(w)
        PROVE  Cleaning'
    <2>1. pc[w] \in Inside
      BY <1>17 DEF Collect, Inside
    <2>2. /\ \A j \in homes : j \in Live(file) \/ UsesHome(w, j)
          /\ \A j \in Subs, r \in Revs : dir[j][r] # "absent" =>
                (j \in Live(file) /\ file.subs[j].rev = r) \/ UsesRevision(w, j, r)
      BY <1>d, <2>1
    <2>3. /\ UNCHANGED <<file, homes>> /\ pc[w] = "collect" /\ key[w] \in Subs
          /\ key[w] \in Live(file) /\ file.subs[key[w]].rev = draft[w].rev
      BY <1>0, <1>17 DEF Collect, Prepared, StillCurrent, Live
    <2>a. \A u \in Workers : pc'[u] \notin Restoring
      BY <1>a, <1>b, <1>17 DEF Collect, LocalsOK, Finish, Restoring
    <2>4. PICK h \in Removals(key[w], Victims(w)) : dir' = [dir EXCEPT ![key[w]] = h]
      BY <1>17 DEF Collect
    <2>5. \A r \in Revs : h[r] # "absent" => r = draft[w].rev
      BY <2>4 DEF Removals, Victims
    <2>6. \A j \in Subs, r \in Revs : dir'[j][r] # "absent" =>
             \/ j = key[w] /\ r = draft[w].rev
             \/ j # key[w] /\ dir[j][r] # "absent"
      BY <1>a, <2>3, <2>4, <2>5
    <2>7. \A j \in homes' : j \in Live(file')
      BY <2>2, <2>3 DEF UsesHome
    <2>8. \A j \in Subs, r \in Revs : dir'[j][r] # "absent" =>
             j \in Live(file') /\ file'.subs[j].rev = r
      BY <2>2, <2>3, <2>6 DEF UsesRevision
    <2>9. QED
      BY <2>a, <2>7, <2>8, CleaningBy
  <1>18. ASSUME NEW w \in Workers, RemoveHome(w)
        PROVE  Cleaning'
    <2>1. pc[w] \in Inside
      BY <1>18 DEF RemoveHome, Inside
    <2>2. /\ \A j \in homes : j \in Live(file) \/ UsesHome(w, j)
          /\ \A j \in Subs, r \in Revs : dir[j][r] # "absent" =>
                (j \in Live(file) /\ file.subs[j].rev = r) \/ UsesRevision(w, j, r)
      BY <1>d, <2>1
    <2>3. /\ UNCHANGED file /\ pc[w] = "rmtree" /\ key[w] \in Subs
          /\ dir' = [dir EXCEPT ![key[w]] = [r \in Revs |-> "absent"]]
          /\ homes' = homes \ {key[w]}
      BY <1>0, <1>18 DEF RemoveHome, Prepared
    <2>a. \A u \in Workers : pc'[u] \notin Restoring
      BY <1>a, <1>b, <1>18 DEF RemoveHome, LocalsOK, Finish, Restoring
    <2>4. \A j \in Subs, r \in Revs : dir'[j][r] # "absent" => j # key[w] /\ dir[j][r] # "absent"
      BY <1>a, <2>3
    <2>5. \A j \in homes' : j \in Live(file')
      BY <2>2, <2>3 DEF UsesHome
    <2>6. \A j \in Subs, r \in Revs : dir'[j][r] # "absent" =>
             j \in Live(file') /\ file'.subs[j].rev = r
      BY <2>2, <2>3, <2>4 DEF UsesRevision
    <2>7. QED
      BY <2>a, <2>5, <2>6, CleaningBy
  <1>19. ASSUME NEW w \in Workers, Step(w)
        PROVE  Cleaning'
    BY <1>1, <1>2, <1>3, <1>4, <1>5, <1>6, <1>10, <1>11, <1>13, <1>14, <1>15, <1>16, <1>17,
       <1>18, <1>19 DEF Step
  <1>20. ASSUME NEW w \in Workers, NEW k \in Subs, Resolve(w, k)
        PROVE  Cleaning'
    BY <1>11, <1>20
  <1>21. QED
    BY <1>7, <1>8, <1>9, <1>10, <1>12, <1>19, <1>20 DEF Next

LEMMA InitCleaning == Init => Cleaning
  BY DEF Init, Cleaning, Restoring

LEMMA StepCleaning == IInv /\ Cleaning /\ [Next]_vars => Cleaning'
  BY CleaningStep DEF Cleaning

\* Without crashes and disk errors, whatever is neither registered nor in use
\* by a process in a locked section has been removed: between locked sections
\* every home and revision on disk belongs to a registered entry.
THEOREM NothingIsLeftBehind == Spec => []NothingLeftBehind
  <1>1. IInv /\ Cleaning /\ [Next]_vars => Cleaning'
    BY StepCleaning
  <1>2. IInv /\ Cleaning => NothingLeftBehind
    <2> SUFFICES ASSUME IInv, Cleaning, Faults = {}, lock = None
                 PROVE  /\ homes = Live(file)
                        /\ \A k \in Subs, r \in Revs :
                             dir[k][r] # "absent" => k \in Live(file) /\ file.subs[k].rev = r
      BY DEF NothingLeftBehind
    <2>1. \A u \in Workers : pc[u] \notin Inside
      BY NoneIsNothing DEF IInv, Exclusion
    <2>2. \A k \in Live(file) : k \in homes
      BY DEF IInv, SelectedComplete, Complete, Readable
    <2>3. QED
      BY <2>1, <2>2 DEF Cleaning, UsesHome, UsesRevision, Inside
  <1>3. QED
    BY <1>1, <1>2, Inductive, InitCleaning, PTL DEF Spec

-----------------------------------------------------------------------------
(* How the settled registry moves *)

\* It stays, or takes one edit, or the save of a process that has placed its
\* candidate; a rollback that fails or is killed settles what it had to undo.
LEMMA SettledMoves ==
    ASSUME IInv, RegistryInv, [Next]_vars
    PROVE  \/ previous' = previous
           \/ Edited(previous, previous')
           \/ \E w \in Workers : /\ pc[w] \in {"placed", "restore_abort"}
                                 /\ Published(w, previous, previous')
  <1>1. CASE Quiet
    BY <1>1 DEF Quiet
  <1>2. CASE previous = file /\ (Edit \/ Save)
    BY <1>2 DEF Edit, Save, Committed, Torn
  <1>3. CASE Resolution
    <2>1. PICK w \in Workers : pc[w] \in Restoring
      BY <1>3 DEF Resolution
    <2>2. previous' = previous \/ previous' = file
      BY <1>3 DEF Resolution, RestoreBytes
    <2>3. \/ Edited(previous, file)
          \/ pc[w] = "restore_abort" /\ Published(w, previous, file)
      BY <2>1 DEF RegistryInv, Pending, Restoring
    <2>4. QED
      BY <2>1, <2>2, <2>3
  <1>4. QED
    BY <1>1, <1>2, <1>3, Effects

\* What the process of such a save holds.
LEMMA PublisherKnows ==
    ASSUME IInv, NEW w \in Workers, pc[w] \in {"placed", "restore_abort"},
           NEW g, Published(w, previous, g), NEW k \in Live(previous)
    PROVE  \/ g.subs[k] = previous.subs[k]
           \/ /\ key[w] = k /\ draft[w] \in Draft /\ old[w] \in Entry
              /\ op[w] # "create"
              /\ g.subs[k].rev = draft[w].rev
              /\ g.subs[k].token = previous.subs[k].token
              /\ g.subs[k].status = previous.subs[k].status
              /\ g.subs[k].access = previous.subs[k].access
              /\ Identity(previous.subs[k]) = Identity(old[w])
              /\ old[w].rev = previous.subs[k].rev
              /\ old[w].token = previous.subs[k].token
              /\ old[w].status = previous.subs[k].status
              /\ old[w].fails = previous.subs[k].fails
  <1>1. k \in Subs /\ previous.subs[k] # None /\ previous.subs[k] \in Entry
    BY FileShape DEF Live, IInv, TypeOK
  <1>2. CASE key[w] # k
    BY <1>1, <1>2 DEF Published, OnlyAt
  <1>3. CASE key[w] = k
    <2>1. op[w] # "create"
      BY <1>1, <1>3 DEF Published
    <2>2. draft[w] \in Draft /\ old[w] \in Entry
      BY <2>1 DEF IInv, Prepared
    <2>3. /\ g.subs[k].rev = draft[w].rev
          /\ g.subs[k].token = previous.subs[k].token
          /\ g.subs[k].status = previous.subs[k].status
          /\ g.subs[k].access = previous.subs[k].access
          /\ Identity(previous.subs[k]) = Identity(old[w])
      BY <1>3, <2>1 DEF Published
    <2>4. /\ old[w].rev = previous.subs[k].rev /\ old[w].fails = previous.subs[k].fails
          /\ old[w].token = previous.subs[k].token /\ old[w].status = previous.subs[k].status
      BY <1>1, <2>2, <2>3, IdentityKeeps
    <2>5. QED
      BY <1>3, <2>1, <2>2, <2>3, <2>4
  <1>4. QED
    BY <1>2, <1>3

\* A new revision is only ever selected over the entry its process read before
\* it went to the network, and with that entry's token and status.
THEOREM SavesAreOptimistic == Spec => PublishOnSnapshot
  <1> DEFINE Moved ==
        \A k \in Live(previous) :
          previous'.subs[k] # None /\ previous'.subs[k].rev # previous.subs[k].rev =>
            /\ previous'.subs[k].token = previous.subs[k].token
            /\ previous'.subs[k].status = previous.subs[k].status
            /\ \E w \in Workers :
                 /\ key[w] = k /\ draft[w] # None /\ old[w] # None
                 /\ draft[w].rev = previous'.subs[k].rev
                 /\ old[w].rev = previous.subs[k].rev
                 /\ old[w].fails = previous.subs[k].fails
  <1>1. IInv /\ RegistryInv /\ [Next]_vars => [Moved]_vars
    <2> SUFFICES ASSUME IInv, RegistryInv, [Next]_vars, NEW k \in Live(previous),
                        previous'.subs[k] # None, previous'.subs[k].rev # previous.subs[k].rev
                 PROVE  /\ previous'.subs[k].token = previous.subs[k].token
                        /\ previous'.subs[k].status = previous.subs[k].status
                        /\ \E w \in Workers :
                             /\ key[w] = k /\ draft[w] # None /\ old[w] # None
                             /\ draft[w].rev = previous'.subs[k].rev
                             /\ old[w].rev = previous.subs[k].rev
                             /\ old[w].fails = previous.subs[k].fails
      OBVIOUS
    <2>1. ~Edited(previous, previous')
      BY DEF Edited, OnlyAt, Kept, Rotated, Removed, Live
    <2>2. PICK w \in Workers : /\ pc[w] \in {"placed", "restore_abort"}
                               /\ Published(w, previous, previous')
      BY <2>1, SettledMoves
    <2>3. QED
      BY <2>2, PublisherKnows, NoneIsNothing
  <1>2. QED
    BY <1>1, Inductive, RegistryOrder, PTL DEF Spec, PublishOnSnapshot

\* The access statistics of a subscription never go back, whatever saves that
\* read older ones commit, and whatever rollbacks restore.
THEOREM AccessIsMonotone == Spec => AccessNeverLost
  <1> DEFINE Grows ==
        \A k \in Live(previous) :
          previous'.subs[k] # None =>
            previous'.subs[k].access >= previous.subs[k].access
  <1>1. IInv /\ RegistryInv /\ [Next]_vars => [Grows]_vars
    <2> SUFFICES ASSUME IInv, RegistryInv, [Next]_vars, NEW k \in Live(previous),
                        previous'.subs[k] # None
                 PROVE  previous'.subs[k].access >= previous.subs[k].access
      OBVIOUS
    <2>1. previous.subs[k] \in Entry
      BY FileShape DEF Live, IInv, TypeOK
    <2>2. previous.subs[k].access >= previous.subs[k].access
      BY <2>1 DEF Entry
    <2>3. CASE Edited(previous, previous')
      BY <2>2, <2>3 DEF Edited, OnlyAt, Kept, Rotated, Removed, Live
    <2>4. ASSUME NEW w \in Workers, pc[w] \in {"placed", "restore_abort"},
                 Published(w, previous, previous')
          PROVE  previous'.subs[k].access = previous.subs[k].access
      BY <2>4, PublisherKnows
    <2>5. QED
      BY <2>2, <2>3, <2>4, SettledMoves
  <1>2. QED
    BY <1>1, Inductive, RegistryOrder, PTL DEF Spec, AccessNeverLost

-----------------------------------------------------------------------------
(* FixedStore implements SubscriptionService *)

\* What users see of the registry f when everything it selects is on disk.
Shown(e) == [content |-> e.rev, token |-> e.token, active |-> e.status = "active"]
Plain(f) == [k \in Subs |-> IF f.subs[k] = None THEN None ELSE Shown(f.subs[k])]

LEMMA ShownIsView ==
    /\ \A e \in Entry : Shown(e) \in Views /\ Shown(e) # None
    /\ \A k \in Subs, e \in Entry : [sub |-> k, seen |-> Shown(e)] # None
  <1>1. ASSUME NEW e \in Entry PROVE Shown(e) \in Views
    BY DEF Shown, Views, Entry
  <1>2. ASSUME NEW k \in Subs, NEW v \in Views
        PROVE  [sub |-> k, seen |-> v] \in [sub: Subs, seen: Views]
    OBVIOUS
  <1>3. QED
    BY <1>1, <1>2, ViewAssumption DEF ViewAssumption

LEMMA RecordIsPlain ==
    /\ SelectedComplete => Record = Plain(previous)
    /\ SelectedComplete' => Record' = Plain(previous')
  <1>1. ASSUME SelectedComplete PROVE Record = Plain(previous)
    <2>1. \A k \in Subs : previous.subs[k] # None =>
             View(k, previous.subs[k]) = Shown(previous.subs[k])
      BY <1>1 DEF SelectedComplete, Complete, Live, View, Served, Shown
    <2>2. QED
      BY <2>1 DEF Record, Plain
  <1>2. ASSUME SelectedComplete' PROVE Record' = Plain(previous')
    <2>1. \A k \in Subs : previous'.subs[k] # None =>
             View(k, previous.subs[k])' = Shown(previous'.subs[k])
      BY <1>2 DEF SelectedComplete, Complete, Live, View, Served, Shown, Readable
    <2>2. QED
      BY <2>1 DEF Record, Plain
  <1>3. QED
    BY <1>1, <1>2

\* A token is free for the service exactly when it is for the store.
LEMMA IssuedTokens ==
    ASSUME SelectedComplete, previous \in File
    PROVE  Service!Issued = previous.retired \cup LiveTokens(previous)
  <1>1. /\ \A k \in Subs : Record[k] = IF previous.subs[k] = None THEN None
                                       ELSE Shown(previous.subs[k])
        /\ \A k \in Subs : previous.subs[k] \in Entry \cup {None}
    BY RecordIsPlain, FileShape DEF Plain
  <1>2. \A k \in Subs : Record[k] # None <=> k \in Live(previous)
    BY <1>1, ShownIsView DEF Live
  <1>3. \A k \in Live(previous) : Record[k].token = previous.subs[k].token
    <2>1. \A k \in Live(previous) : Record[k] = Shown(previous.subs[k])
      BY <1>1 DEF Live
    <2>2. \A e : Shown(e).token = e.token
      BY DEF Shown
    <2>3. QED
      BY <2>1, <2>2
  <1>4. {j \in Subs : Record[j] # None} = Live(previous)
    BY <1>2 DEF Live
  <1>5. QED
    BY <1>3, <1>4 DEF Service!Issued, LiveTokens

\* The two registries of a step, as the service sees them.
Steady ==
    /\ TypeOK /\ TypeOK' /\ SelectedComplete /\ SelectedComplete'

\* What no save is waiting for: an edit of one entry is one service action.
LEMMA EditServes ==
    ASSUME Steady, Edited(previous, previous'), Basis' = Basis
    PROVE  Service!ServiceNext
  <1>1. PICK k \in Subs : /\ OnlyAt(previous, previous', k)
                          /\ \/ Kept(previous, previous', k) \/ Rotated(previous, previous', k)
                             \/ Removed(previous, previous', k)
    BY DEF Edited
  <1> DEFINE e == previous.subs[k]
             n == previous'.subs[k]
  <1>2. /\ Record = Plain(previous) /\ Record' = Plain(previous')
        /\ previous \in File /\ previous' \in File
    BY RecordIsPlain DEF Steady, TypeOK
  <1>3. /\ \A j \in Subs : j # k => Record'[j] = Record[j]
        /\ Record' \in [Subs -> Views \cup {None}] /\ Record \in [Subs -> Views \cup {None}]
        /\ e # None => Record[k] = Shown(e) /\ e \in Entry
        /\ n # None => Record'[k] = Shown(n) /\ n \in Entry
        /\ n = None => Record'[k] = None
    BY <1>1, <1>2, FileShape, ShownIsView DEF Plain, OnlyAt
  <1>4. CASE Kept(previous, previous', k)
    <2>1. /\ e # None /\ n # None /\ n.rev = e.rev /\ n.token = e.token
          /\ previous'.retired = previous.retired
      BY <1>4 DEF Kept
    <2>2. Record'[k] = [Record[k] EXCEPT !.active = (n.status = "active")]
      BY <1>3, <2>1 DEF Shown
    <2>3. Record' = [Record EXCEPT ![k].active = (n.status = "active")]
      BY <1>3, <2>2
    <2>4. Record[k] # None
      BY <1>3, <2>1, ShownIsView
    <2>5. (n.status = "active") \in BOOLEAN
      OBVIOUS
    <2> HIDE DEF n, e
    <2>6. Service!Switch(k, n.status = "active")
      BY <2>1, <2>3, <2>4 DEF Service!Switch
    <2>7. QED
      BY <2>5, <2>6 DEF Service!ServiceNext
  <1>5. CASE Rotated(previous, previous', k)
    <2>1. /\ e # None /\ n # None /\ n.rev = e.rev /\ n.status = e.status
          /\ n.token \notin previous.retired \cup LiveTokens(previous)
          /\ previous'.retired = previous.retired \cup {e.token}
      BY <1>5 DEF Rotated
    <2>2. Record'[k] = [Record[k] EXCEPT !.token = n.token]
      BY <1>3, <2>1 DEF Shown
    <2>3. Record' = [Record EXCEPT ![k].token = n.token]
      BY <1>3, <2>2
    <2>4. Record[k] # None /\ Record[k].token = e.token /\ n.token \in Tokens
      BY <1>3, <2>1, ShownIsView DEF Shown, Entry
    <2>5. n.token \notin Service!Issued
      BY <1>2, <2>1, IssuedTokens DEF Steady
    <2> HIDE DEF n, e
    <2>6. Service!Rotate(k, n.token)
      BY <2>1, <2>3, <2>4, <2>5 DEF Service!Rotate
    <2>7. QED
      BY <2>4, <2>6 DEF Service!ServiceNext
  <1>6. CASE Removed(previous, previous', k)
    <2>1. e # None /\ n = None /\ previous'.retired = previous.retired \cup {e.token}
      BY <1>6 DEF Removed
    <2>2. Record' = [Record EXCEPT ![k] = None]
      BY <1>3, <2>1
    <2>3. Record[k] # None /\ Record[k].token = e.token
      BY <1>3, <2>1, ShownIsView DEF Shown
    <2>4. Service!Remove(k)
      BY <2>1, <2>2, <2>3 DEF Service!Remove
    <2>5. QED
      BY <2>4 DEF Service!ServiceNext
  <1>7. QED
    BY <1>1, <1>4, <1>5, <1>6

\* A save that succeeds adds a record, or replaces the one its process began
\* from, which is still there.
LEMMA SaveServes ==
    ASSUME Steady, IInv, NEW w \in Workers, pc[w] \in {"placed", "restore_abort"},
           Published(w, previous, previous'),
           op[w] = "create" => Basis' = Basis,
           op[w] # "create" => Basis' = [Basis EXCEPT ![w] = None]
    PROVE  Service!ServiceNext
  <1> DEFINE k == key[w]
             e == previous.subs[k]
             n == previous'.subs[k]
  <1>1. /\ key[w] \in Subs /\ op[w] \in SaveOps /\ draft[w] \in Draft
        /\ op[w] # "create" => old[w] \in Entry
    BY DEF IInv, Prepared, SaveOps
  <1>2. /\ Record = Plain(previous) /\ Record' = Plain(previous')
        /\ previous \in File /\ previous' \in File
    BY RecordIsPlain DEF Steady, TypeOK
  <1>3. /\ n # None /\ n.rev = draft[w].rev
        /\ \A j \in Subs \ {k} : previous'.subs[j] = previous.subs[j]
        /\ previous'.retired = previous.retired
    BY DEF Published, OnlyAt
  <1>4. /\ \A j \in Subs : j # k => Record'[j] = Record[j]
        /\ Record' \in [Subs -> Views \cup {None}] /\ Record \in [Subs -> Views \cup {None}]
        /\ n \in Entry /\ Record'[k] = Shown(n)
        /\ e # None => e \in Entry /\ Record[k] = Shown(e)
        /\ e = None => Record[k] = None
    BY <1>1, <1>2, <1>3, FileShape, ShownIsView DEF Plain
  <1>5. CASE op[w] = "create"
    <2>1. /\ e = None /\ n.status = "active"
          /\ n.token \notin previous.retired \cup LiveTokens(previous)
      BY <1>5 DEF Published
    <2>2. Record'[k] = [content |-> n.rev, token |-> n.token, active |-> TRUE]
      BY <1>4, <2>1 DEF Shown
    <2>3. Record' = [Record EXCEPT ![k] = [content |-> n.rev, token |-> n.token, active |-> TRUE]]
      BY <1>4, <2>2
    <2>4. n.token \notin Service!Issued /\ n.token \in Tokens /\ n.rev \in Revs
      BY <1>2, <1>4, <2>1, IssuedTokens DEF Steady, Entry
    <2>5. Record[k] = None
      BY <1>4, <2>1
    <2> HIDE DEF n, e
    <2>6. Service!Add(k, n.rev, n.token)
      BY <1>3, <1>5, <2>3, <2>4, <2>5 DEF Service!Add
    <2>7. QED
      BY <1>1, <2>4, <2>6 DEF Service!ServiceNext
  <1>6. CASE op[w] # "create"
    <2>1. /\ e # None /\ Identity(e) = Identity(old[w])
          /\ n.token = e.token /\ n.status = e.status
      BY <1>6 DEF Published
    <2>2. e \in Entry /\ Shown(e) = Shown(old[w])
      BY <1>1, <1>4, <1>6, <2>1, IdentityKeeps DEF Shown
    <2>3. Basis[w] = [sub |-> k, seen |-> Shown(old[w])]
      BY <1>1, <1>6 DEF Basis, Preparing, Shown, SaveOps
    <2>4. Basis[w] # None
      BY <1>1, <1>6, <2>3, ShownIsView
    <2>5. Record'[k] = [Record[k] EXCEPT !.content = draft[w].rev]
      BY <1>3, <1>4, <2>1 DEF Shown
    <2>6. Record' = [Record EXCEPT ![k].content = draft[w].rev]
      BY <1>4, <2>5
    <2>7. Record[k] = Shown(old[w]) /\ draft[w].rev \in Revs
      BY <1>1, <1>4, <2>1, <2>2 DEF Draft
    <2>8. Basis[w].sub = k /\ Basis[w].seen = Shown(old[w])
      BY <2>3
    <2> HIDE DEF n, e, k
    <2>9. Service!Replace(w, draft[w].rev)
      BY <1>3, <1>6, <2>4, <2>6, <2>7, <2>8 DEF Service!Replace
    <2>10. QED
      BY <2>7, <2>9 DEF Service!ServiceNext
  <1>7. QED
    BY <1>5, <1>6

\* What the processes hold on to: a step is one process's.
Others(w) ==
    \A u \in Workers \ {w} :
        pc'[u] = pc[u] /\ op'[u] = op[u] /\ key'[u] = key[u] /\ old'[u] = old[u]

LEMMA BasisKept ==
    ASSUME NEW w \in Workers, Others(w),
           Preparing(w)' <=> Preparing(w),
           Preparing(w) => key'[w] = key[w] /\ Shown(old'[w]) = Shown(old[w])
    PROVE  Basis' = Basis
  <1>1. ASSUME NEW u \in Workers \ {w} PROVE Preparing(u)' <=> Preparing(u)
    BY DEF Others, Preparing
  <1>2. ASSUME NEW u \in Workers
        PROVE  (IF Preparing(u)' THEN [sub |-> key'[u], seen |-> Shown(old'[u])] ELSE None)
                = IF Preparing(u) THEN [sub |-> key[u], seen |-> Shown(old[u])] ELSE None
    BY <1>1 DEF Others
  <1>3. /\ Basis = [u \in Workers |-> IF Preparing(u) THEN [sub |-> key[u], seen |-> Shown(old[u])]
                                      ELSE None]
        /\ Basis' = [u \in Workers |-> IF Preparing(u)' THEN [sub |-> key'[u], seen |-> Shown(old'[u])]
                                       ELSE None]
    BY DEF Basis, Shown
  <1>4. QED
    BY <1>2, <1>3

LEMMA BasisDropped ==
    ASSUME NEW w \in Workers, Others(w), ~Preparing(w)'
    PROVE  Basis' = [Basis EXCEPT ![w] = None]
  <1>1. ASSUME NEW u \in Workers \ {w} PROVE Preparing(u)' <=> Preparing(u)
    BY DEF Others, Preparing
  <1>2. /\ Basis = [u \in Workers |-> IF Preparing(u) THEN [sub |-> key[u], seen |-> Shown(old[u])]
                                      ELSE None]
        /\ Basis' = [u \in Workers |-> IF Preparing(u)' THEN [sub |-> key'[u], seen |-> Shown(old'[u])]
                                       ELSE None]
    BY DEF Basis, Shown
  <1>3. \A u \in Workers \ {w} : Basis'[u] = Basis[u]
    BY <1>1, <1>2 DEF Others
  <1>4. Basis'[w] = None
    BY <1>2
  <1>5. QED
    BY <1>2, <1>3, <1>4

\* A step that leaves the settled registry alone is a stutter, or its process
\* gives up what it held on to.
LEMMA QuietServes ==
    ASSUME Steady, previous' = previous,
           NEW w \in Workers, Basis' = Basis \/ Basis' = [Basis EXCEPT ![w] = None]
    PROVE  Service!ServiceNext
  <1>1. Record' = Record
    BY RecordIsPlain DEF Steady, Plain
  <1>2. Basis = [u \in Workers |-> Basis[u]]
    BY DEF Basis
  <1>3. CASE Basis' = Basis
    BY <1>1, <1>3 DEF Service!ServiceNext, Service!sVars
  <1>4. CASE Basis' # Basis
    <2>1. Basis[w] # None
      BY <1>2, <1>4
    <2>2. Service!Drop(w)
      BY <1>1, <1>4, <2>1 DEF Service!Drop
    <2>3. QED
      BY <2>2 DEF Service!ServiceNext
  <1>5. QED
    BY <1>3, <1>4

\* A process that was or is elsewhere holds on to nothing.
LEMMA IdleServes ==
    ASSUME Steady, NEW w \in Workers, Others(w), ~Preparing(w), ~Preparing(w)',
           previous' = previous \/ Edited(previous, previous')
    PROVE  Service!ServiceNext
  <1>1. Basis' = Basis
    BY BasisKept
  <1>2. QED
    BY <1>1, QuietServes, EditServes

LEMMA ServiceStep ==
    ASSUME IInv, RegistryInv, [Next]_vars
    PROVE  Service!ServiceNext
  <1>0. TypeOK /\ Exclusion /\ Settled /\ Prepared /\ StillCurrent /\ Pending
    BY DEF IInv, RegistryInv
  <1>a. LocalsOK /\ Steady
    BY <1>0, StepIInv, TypeParts DEF Steady, IInv
  <1>b. lock = None => previous = file
    BY <1>0, NoneIsNothing DEF Exclusion, Settled, Inside
  <1>c. ASSUME NEW w \in Workers
        PROVE  Preparing(w) => op[w] # "create"
    BY <1>c DEF Preparing
  <1>1. ASSUME NEW w \in Workers, NEW k \in Subs, NEW o \in {"edit", "auto", "cached"}, Request(w, k, o)
        PROVE  Service!ServiceNext
    <2>1. /\ previous = file /\ previous' = previous /\ file.subs[k] # None /\ Others(w)
          /\ pc[w] = "idle" /\ pc'[w] = "requested" /\ op'[w] = o
          /\ key'[w] = k /\ old'[w] = file.subs[k]
      BY <1>a, <1>b, <1>1 DEF Request, Live, LocalsOK, Goto, Others
    <2>2. file.subs[k] \in Entry
      BY <1>0, <2>1, FileShape DEF TypeOK
    <2>3. ~Preparing(w) /\ Preparing(w)'
      BY <2>1 DEF Preparing
    <2>4. \A u \in Workers \ {w} : Basis'[u] = Basis[u]
      <3>1. \A u \in Workers \ {w} : Preparing(u)' <=> Preparing(u)
        BY <2>1 DEF Others, Preparing
      <3>2. QED
        BY <2>1, <3>1 DEF Basis, Others
    <2>5. Basis'[w] = [sub |-> k, seen |-> Shown(file.subs[k])]
      BY <2>1, <2>3 DEF Basis, Shown
    <2>6. Basis[w] = None
      BY <2>3 DEF Basis
    <2>7. Basis = [u \in Workers |-> Basis[u]] /\ Basis' = [u \in Workers |-> Basis'[u]]
      BY DEF Basis
    <2>8. Record' = Record /\ Record[k] = Shown(file.subs[k])
      BY <1>a, <2>1, RecordIsPlain DEF Steady, Plain
    <2>9. Record[k] # None
      BY <2>2, <2>8, ShownIsView
    <2>10. Basis' = [Basis EXCEPT ![w] = [sub |-> k, seen |-> Record[k]]]
      BY <2>4, <2>5, <2>7, <2>8
    <2>11. Service!Begin(w, k)
      BY <2>1, <2>6, <2>8, <2>9, <2>10 DEF Service!Begin
    <2>12. QED
      BY <2>11 DEF Service!ServiceNext
  <1>2. ASSUME NEW w \in Workers, Snapshot(w)
        PROVE  Service!ServiceNext
    <2>1. /\ previous' = previous /\ Others(w) /\ pc[w] = "requested"
          /\ op[w] # "create" /\ key[w] \in Subs /\ old[w] \in Entry
      BY <1>0, <1>a, <1>2 DEF Snapshot, Prepared, LocalsOK, Goto, Finish, GiveUp, locals, Others
    <2>2. CASE /\ Same(w) /\ Goto(w, "work") /\ UNCHANGED <<op, key, draft>>
               /\ old' = [old EXCEPT ![w] = file.subs[key[w]]]
      <3>1. file.subs[key[w]] \in Entry \cup {None}
        BY <1>0, <2>1, FileShape DEF TypeOK
      <3>2. Shown(file.subs[key[w]]) = Shown(old[w])
        BY <2>1, <2>2, <3>1, IdentityKeeps DEF Same, Shown
      <3>3. pc'[w] = "work" /\ op'[w] = op[w] /\ key'[w] = key[w] /\ old'[w] = file.subs[key[w]]
        BY <1>a, <2>2 DEF LocalsOK, Goto
      <3>4. Basis' = Basis
        BY <2>1, <3>2, <3>3, BasisKept DEF Preparing
      <3>5. QED
        BY <1>a, <2>1, <3>4, QuietServes
    <2>3. CASE Finish(w) \/ GiveUp(w)
      <3>1. ~Preparing(w)'
        BY <1>a, <2>3 DEF LocalsOK, Goto, Finish, GiveUp, Preparing
      <3>2. QED
        BY <1>a, <2>1, <3>1, BasisDropped, QuietServes
    <2>4. QED
      BY <1>2, <2>2, <2>3 DEF Snapshot
  <1>3. ASSUME NEW w \in Workers, Build(w)
        PROVE  Service!ServiceNext
    <2>1. previous' = previous /\ Others(w)
      BY <1>a, <1>3 DEF Build, LocalsOK, Goto, Finish, GiveUp, locals, Others
    <2>2. /\ Preparing(w)' <=> Preparing(w)
          /\ Preparing(w) => key'[w] = key[w] /\ old'[w] = old[w]
      BY <1>0, <1>a, <1>3 DEF Build, Preparing, Prepared, LocalsOK, Goto, Finish, GiveUp, locals, Others
    <2>3. Basis' = Basis
      BY <2>1, <2>2, BasisKept
    <2>4. QED
      BY <1>a, <2>1, <2>3, QuietServes
  <1>4. ASSUME NEW w \in Workers, Enter(w)
        PROVE  Service!ServiceNext
    <2>1. previous' = previous /\ Others(w)
      BY <1>a, <1>4 DEF Enter, LocalsOK, Goto, Finish, GiveUp, locals, Others
    <2>2. /\ Preparing(w)' <=> Preparing(w)
          /\ Preparing(w) => key'[w] = key[w] /\ old'[w] = old[w]
      BY <1>0, <1>a, <1>4 DEF Enter, Preparing, Prepared, LocalsOK, Goto, Finish, GiveUp, locals, Others
    <2>3. Basis' = Basis
      BY <2>1, <2>2, BasisKept
    <2>4. QED
      BY <1>a, <2>1, <2>3, QuietServes
  <1>5. ASSUME NEW w \in Workers, AllocateHome(w)
        PROVE  Service!ServiceNext
    <2>1. previous' = previous /\ Others(w)
      BY <1>a, <1>5 DEF AllocateHome, LocalsOK, Goto, Finish, GiveUp, locals, Others
    <2>2. /\ Preparing(w)' <=> Preparing(w)
          /\ Preparing(w) => key'[w] = key[w] /\ old'[w] = old[w]
      BY <1>0, <1>a, <1>5 DEF AllocateHome, Preparing, Prepared, LocalsOK, Goto, Finish, GiveUp, locals, Others
    <2>3. Basis' = Basis
      BY <2>1, <2>2, BasisKept
    <2>4. QED
      BY <1>a, <2>1, <2>3, QuietServes
  <1>6. ASSUME NEW w \in Workers, Place(w)
        PROVE  Service!ServiceNext
    <2>1. previous' = previous /\ Others(w)
      BY <1>a, <1>6 DEF Place, LocalsOK, Goto, Finish, GiveUp, locals, Others
    <2>2. /\ Preparing(w)' <=> Preparing(w)
          /\ Preparing(w) => key'[w] = key[w] /\ old'[w] = old[w]
      BY <1>0, <1>a, <1>6 DEF Place, Preparing, Prepared, LocalsOK, Goto, Finish, GiveUp, locals, Others
    <2>3. Basis' = Basis
      BY <2>1, <2>2, BasisKept
    <2>4. QED
      BY <1>a, <2>1, <2>3, QuietServes
  <1>7. ASSUME NEW w \in Workers, BuildFails(w)
        PROVE  Service!ServiceNext
    <2>1. previous' = previous /\ Others(w)
      BY <1>a, <1>7 DEF BuildFails, LocalsOK, Goto, Finish, GiveUp, locals, Others
    <2>2. ~Preparing(w)'
      BY <1>0, <1>a, <1>7 DEF BuildFails, Preparing, Prepared, LocalsOK, Goto, Finish, GiveUp, locals, Others
    <2>3. QED
      BY <1>a, <2>1, <2>2, BasisDropped, QuietServes
  <1>8. ASSUME NEW w \in Workers, Conflict(w)
        PROVE  Service!ServiceNext
    <2>1. previous' = previous /\ Others(w)
      BY <1>a, <1>8 DEF Conflict, LocalsOK, Goto, Finish, GiveUp, locals, Others
    <2>2. ~Preparing(w)'
      BY <1>0, <1>a, <1>8 DEF Conflict, Preparing, Prepared, LocalsOK, Goto, Finish, GiveUp, locals, Others
    <2>3. QED
      BY <1>a, <2>1, <2>2, BasisDropped, QuietServes
  <1>9. ASSUME NEW w \in Workers, PlaceFails(w)
        PROVE  Service!ServiceNext
    <2>1. previous' = previous /\ Others(w)
      BY <1>a, <1>9 DEF PlaceFails, LocalsOK, Goto, Finish, GiveUp, locals, Others
    <2>2. ~Preparing(w)'
      BY <1>0, <1>a, <1>9 DEF PlaceFails, Preparing, Prepared, LocalsOK, Goto, Finish, GiveUp, locals, Others
    <2>3. QED
      BY <1>a, <2>1, <2>2, BasisDropped, QuietServes
  <1>10. ASSUME NEW w \in Workers, Publish(w)
        PROVE  Service!ServiceNext
    <2>1. /\ previous = file /\ Others(w) /\ pc[w] = "placed"
          /\ op'[w] = op[w] /\ key'[w] = key[w] /\ old'[w] = old[w]
      BY <1>0, <1>a, <1>10, SettledInside DEF Publish, Inside, Restoring, LocalsOK, Goto, locals, Others
    <2>2. CASE previous' = previous /\ pc'[w] = "restore_abort"
      <3>1. Basis' = Basis
        BY <2>1, <2>2, BasisKept DEF Preparing
      <3>2. QED
        BY <1>a, <2>2, <3>1, QuietServes
    <2>3. CASE previous' = previous /\ pc'[w] = "abort"
      <3>1. ~Preparing(w)'
        BY <2>3 DEF Preparing
      <3>2. QED
        BY <1>a, <2>1, <2>3, <3>1, BasisDropped, QuietServes
    <2>4. ASSUME NEW t \in IF old[w] = None THEN FreshTokens(file) ELSE {old[w].token},
                 Committed(Put(file, key[w], NewEntry(w, t))), pc'[w] = "collect"
          PROVE  Service!ServiceNext
      <3> DEFINE f == Put(file, key[w], NewEntry(w, t))
      <3>1. Published(w, file, f)
        BY <1>0, <2>1, PublishWrites
      <3>2. previous' = f
        BY <2>4 DEF Committed
      <3> HIDE DEF f
      <3>3. Published(w, previous, previous')
        BY <2>1, <3>1, <3>2
      <3>4. ~Preparing(w)'
        BY <2>4 DEF Preparing
      <3>5. Basis' = [Basis EXCEPT ![w] = None]
        BY <2>1, <3>4, BasisDropped
      <3>6. op[w] = "create" => Basis' = Basis
        BY <1>c, <2>1, <3>4, BasisKept
      <3>7. QED
        BY <1>a, <2>1, <3>3, <3>5, <3>6, SaveServes
    <2>5. QED
      BY <1>a, <1>10, <2>1, <2>2, <2>3, <2>4 DEF Publish, Torn, Goto, LocalsOK
  <1>11. ASSUME NEW w \in Workers, PublishAudit(w)
        PROVE  Service!ServiceNext
    <2> DEFINE f == Put(file, key[w], [file.subs[key[w]] EXCEPT !.audit = old[w].rev])
    <2>1. previous = file /\ Others(w) /\ key[w] \in Subs /\ old[w] \in Entry
      BY <1>0, <1>a, <1>b, <1>11 DEF PublishAudit, Prepared, LocalsOK, Goto, Finish, GiveUp, locals, Others
    <2>2. ~Preparing(w)'
      BY <1>0, <1>a, <1>11 DEF PublishAudit, Preparing, Prepared, LocalsOK, Goto, Finish, GiveUp, locals, Others
    <2>3. Basis' = [Basis EXCEPT ![w] = None]
      BY <2>1, <2>2, BasisDropped
    <2>4. Touched(file, f) /\ f.subs[key[w]].status = file.subs[key[w]].status
      BY <1>0, <1>11, <2>1, AuditWrites DEF PublishAudit, Same
    <2>5. \A j \in Subs : j # key[w] => f.subs[j] = file.subs[j]
      BY <1>0, <2>1, PutReads DEF TypeOK
    <2>6. f.retired = file.retired
      BY <1>0, <2>1, PutReads DEF TypeOK
    <2>7. previous' = previous \/ previous' = f
      BY <1>11 DEF PublishAudit, Committed, Torn, NotWritten
    <2> HIDE DEF f
    <2>8. Plain(f) = Plain(file)
      <3>1. ASSUME NEW j \in Subs
            PROVE  (IF f.subs[j] = None THEN None ELSE Shown(f.subs[j]))
                     = IF file.subs[j] = None THEN None ELSE Shown(file.subs[j])
        <4>1. CASE j # key[w]
          BY <2>5, <4>1
        <4>2. CASE j = key[w]
          <5>1. Live(f) = Live(file) /\ \A i \in Live(file) : f.subs[i].rev = file.subs[i].rev
            BY <2>4, TouchedIsEdited
          <5>2. \A i \in Live(file) : f.subs[i].token = file.subs[i].token
            BY <2>4 DEF Touched, OnlyAt, Kept, Live
          <5>3. f.subs[j] = None <=> file.subs[j] = None
            BY <5>1 DEF Live
          <5>4. file.subs[j] # None => Shown(f.subs[j]) = Shown(file.subs[j])
            BY <2>4, <4>2, <5>1, <5>2 DEF Live, Shown
          <5>5. QED
            BY <5>3, <5>4
        <4>3. QED
          BY <4>1, <4>2
      <3>2. QED
        BY <3>1 DEF Plain
    <2>9. CASE previous' = f
      <3>1. Record' = Record /\ previous'.retired = previous.retired
        BY <1>a, <2>1, <2>6, <2>8, <2>9, RecordIsPlain DEF Steady
      <3>2. Basis = [u \in Workers |-> Basis[u]]
        BY DEF Basis
      <3>3. CASE Basis[w] = None
        <4>1. Basis' = Basis
          BY <2>3, <3>2, <3>3
        <4>2. QED
          BY <3>1, <4>1 DEF Service!ServiceNext, Service!sVars
      <3>4. CASE Basis[w] # None
        <4>1. Service!Drop(w)
          BY <2>3, <3>1, <3>4 DEF Service!Drop
        <4>2. QED
          BY <4>1 DEF Service!ServiceNext
      <3>5. QED
        BY <3>3, <3>4
    <2>10. CASE previous' = previous
      BY <1>a, <2>3, <2>10, QuietServes
    <2>11. QED
      BY <2>7, <2>9, <2>10
  <1>12. ASSUME NEW w \in Workers, Restore(w) \/ (Crash(w) /\ pc[w] \in Restoring)
        PROVE  Service!ServiceNext
    <2>1. Others(w) /\ ~Preparing(w)' /\ pc[w] \in Restoring
      BY SMTT(30), <1>a, <1>12 DEF Restore, Crash, Restoring, Preparing, LocalsOK, Goto, Finish, locals, Others
    <2>2. previous' = previous \/ previous' = file
      BY <1>12 DEF Restore, RestoreBytes, Crash
    <2>3. CASE pc[w] = "restore_abort"
      <3>1. Basis' = [Basis EXCEPT ![w] = None]
        BY <2>1, BasisDropped
      <3>2. CASE previous' = previous
        BY <1>a, <3>1, <3>2, QuietServes
      <3>3. CASE previous' = file
        <4>1. Published(w, previous, previous')
          BY <1>0, <2>3, <3>3 DEF Pending
        <4>2. op[w] = "create" => Basis' = Basis
          BY <1>c, <2>1, BasisKept
        <4>3. QED
          BY <1>a, <2>3, <3>1, <4>1, <4>2, SaveServes
      <3>4. QED
        BY <2>2, <3>2, <3>3
    <2>4. CASE pc[w] # "restore_abort"
      <3>1. ~Preparing(w) /\ Edited(previous, file)
        BY <1>0, <2>1, <2>4 DEF Pending, Restoring, Preparing
      <3>2. QED
        BY <1>a, <2>1, <2>2, <3>1, IdleServes
    <2>5. QED
      BY <2>3, <2>4
  <1>13. ASSUME NEW w \in Workers, Crash(w), pc[w] \notin Restoring
        PROVE  Service!ServiceNext
    <2>1. previous' = previous /\ Others(w) /\ ~Preparing(w)'
      BY <1>a, <1>13 DEF Crash, Preparing, LocalsOK, Finish, Others
    <2>2. QED
      BY <1>a, <2>1, BasisDropped, QuietServes
  <1>14. ASSUME NEW w \in Workers, Abort(w)
        PROVE  Service!ServiceNext
    <2>1. previous' = previous /\ Others(w) /\ ~Preparing(w) /\ ~Preparing(w)'
      BY <1>a, <1>14 DEF Abort, Preparing, LocalsOK, Goto, Finish, GiveUp, locals, Others
    <2>2. QED
      BY <1>a, <2>1, IdleServes
  <1>15. ASSUME NEW w \in Workers, Collect(w)
        PROVE  Service!ServiceNext
    <2>1. previous' = previous /\ Others(w) /\ ~Preparing(w) /\ ~Preparing(w)'
      BY <1>a, <1>15 DEF Collect, Preparing, LocalsOK, Goto, Finish, GiveUp, locals, Others
    <2>2. QED
      BY <1>a, <2>1, IdleServes
  <1>16. ASSUME NEW w \in Workers, RemoveHome(w)
        PROVE  Service!ServiceNext
    <2>1. previous' = previous /\ Others(w) /\ ~Preparing(w) /\ ~Preparing(w)'
      BY <1>a, <1>16 DEF RemoveHome, Preparing, LocalsOK, Goto, Finish, GiveUp, locals, Others
    <2>2. QED
      BY <1>a, <2>1, IdleServes
  <1>17. ASSUME NEW w \in Workers, StartCreate(w)
        PROVE  Service!ServiceNext
    <2>1. previous' = previous /\ Others(w) /\ ~Preparing(w) /\ ~Preparing(w)'
      BY <1>a, <1>17 DEF StartCreate, Preparing, LocalsOK, Goto, Finish, GiveUp, locals, Others
    <2>2. QED
      BY <1>a, <2>1, IdleServes
  <1>18. ASSUME NEW w \in Workers, Note(w)
        PROVE  Service!ServiceNext
    <2>1. lock = None /\ Others(w) /\ ~Preparing(w) /\ ~Preparing(w)'
      BY <1>a, <1>18 DEF Note, Preparing, LocalsOK, Goto, Finish, GiveUp, locals, Others
    <2>2. file' = file \/ Touched(file, file')
      BY <1>0, <1>18, TouchSteps
    <2>3. previous' = previous \/ previous' = file'
      BY <1>18 DEF Note, Committed, Torn
    <2>4. QED
      BY <1>a, <1>b, <2>1, <2>2, <2>3, IdleServes, TouchedIsEdited
  <1>19. ASSUME NEW w \in Workers, NEW k \in Subs, Resolve(w, k)
        PROVE  Service!ServiceNext
    <2>1. lock = None /\ Others(w) /\ ~Preparing(w) /\ ~Preparing(w)'
      BY <1>a, <1>19 DEF Resolve, Preparing, LocalsOK, Goto, Finish, GiveUp, locals, Others
    <2>2. file' = file \/ Touched(file, file')
      BY <1>0, <1>19, TouchSteps
    <2>3. previous' = previous \/ previous' = file'
      BY <1>19 DEF Resolve, Committed, Torn
    <2>4. QED
      BY <1>a, <1>b, <2>1, <2>2, <2>3, IdleServes, TouchedIsEdited
  <1>20. ASSUME NEW w \in Workers, NEW k \in Subs,
              NEW act \in {"enable", "disable", "regenerate", "delete"}, Manage(w, k, act)
        PROVE  Service!ServiceNext
    <2>1. /\ previous = file /\ ~Preparing(w) /\ ~Preparing(w)' /\ file.subs[k] \in Entry
      BY <1>0, <1>a, <1>b, <1>20, FileShape DEF Manage, Preparing, Live, LocalsOK, Goto, TypeOK
    <2>2. Others(w)
      BY <1>a, <1>20 DEF Manage, Others, LocalsOK, Goto
    <2>3. PICK f \in Managed(k, act) : Committed(f) \/ Torn(f)
      BY <1>20 DEF Manage
    <2>4. Edited(file, f)
      BY <1>0, <2>1, ManageWrites
    <2>5. previous' = previous \/ Edited(previous, previous')
      BY <2>1, <2>3, <2>4 DEF Committed, Torn
    <2>6. QED
      BY <1>a, <2>1, <2>2, <2>5, IdleServes
  <1>21. ASSUME Tick \/ UNCHANGED vars
        PROVE  Service!ServiceNext
    <2>1. UNCHANGED <<previous, pc, op, key, old>>
      BY <1>21 DEF Tick, vars, locals
    <2>2. Basis' = Basis
      BY <2>1 DEF Basis, Preparing
    <2>3. Record' = Record
      BY <1>a, <2>1, RecordIsPlain DEF Steady, Plain
    <2>4. QED
      BY <2>1, <2>2, <2>3 DEF Service!ServiceNext, Service!sVars
  <1>22. ASSUME NEW w \in Workers, Step(w)
        PROVE  Service!ServiceNext
    BY <1>2, <1>3, <1>4, <1>5, <1>6, <1>7, <1>8, <1>9, <1>10, <1>11, <1>12, <1>14, <1>15, <1>16,
       <1>18, <1>22 DEF Step
  <1>23. ASSUME NEW w \in Workers, Crash(w)
        PROVE  Service!ServiceNext
    BY <1>12, <1>13, <1>23
  <1>24. QED
    BY <1>1, <1>17, <1>19, <1>20, <1>21, <1>22, <1>23 DEF Next

LEMMA ServiceBegins == Init => Service!ServiceInit
  <1> SUFFICES ASSUME Init PROVE Service!ServiceInit
    OBVIOUS
  <1>1. previous = [subs |-> [k \in Subs |-> None], retired |-> {}]
    BY DEF Init
  <1>2. Record = [k \in Subs |-> None]
    BY <1>1 DEF Record
  <1>3. \A w \in Workers : ~Preparing(w)
    BY DEF Init, Preparing
  <1>4. Basis = [w \in Workers |-> None]
    BY <1>3 DEF Basis
  <1>5. QED
    BY <1>1, <1>2, <1>4 DEF Service!ServiceInit

\* Every behaviour of the store, with all its crashes and failing writes, is a
\* behaviour of the service: records change only as a whole, a save replaces
\* exactly the record it began from, and a token is never issued again.
THEOREM StoreImplementsService == Spec => ImplementsService
  <1>1. IInv /\ RegistryInv /\ [Next]_vars => [Service!ServiceNext]_(Service!sVars)
    BY ServiceStep
  <1>2. QED
    BY <1>1, Inductive, RegistryOrder, ServiceBegins, PTL
       DEF Spec, ImplementsService, Service!ServiceSpec

=============================================================================
