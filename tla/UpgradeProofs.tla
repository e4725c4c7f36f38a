---------------------------- MODULE UpgradeProofs ---------------------------
(***************************************************************************)
(* What an upgrade promises, for any number of attempts, builds and faults.  *)
(*                                                                         *)
(* Two never work at once.  The lock is a locked file description that parent *)
(* and child share: everyone who works has it open, and all who have it open  *)
(* are of one attempt.                                                       *)
(*                                                                         *)
(* What one leaves that is cut off can be recovered from.  Who works is alone, *)
(* so units and writers it has stopped stay stopped until it starts them, its *)
(* backup is of what is there until it migrates or replaces it, and what its   *)
(* bootstrap decided is true until it is recorded.  The credentials it takes   *)
(* out of .env are in its backup, which nobody writes a second time.           *)
(***************************************************************************)
EXTENDS Upgrade, TLAPS

Ats == {"decide", "wait", "record", "ended"}
Started == [at: Ats, build: Builds, remote: BOOLEAN]
ParentState == [at: {"none"}] \cup Started
Shapes ==
    /\ parent \in [Updaters -> ParentState]
    /\ child = [u \in Updaters |-> child[u]]
    /\ holders \subseteq Updaters \X {"parent", "child"}

OneAttempt == \A u, v \in Updaters : \A x, y \in {"parent", "child"} :
    <<u, x>> \in holders /\ <<v, y>> \in holders => u = v
ChildHolds == \A u \in Updaters : child[u] \notin Ends => <<u, "child">> \in holders
ParentHolds ==
    \A u \in Updaters : parent[u].at \notin {"none", "ended"} => <<u, "parent">> \in holders

LockInv == Shapes /\ OneAttempt /\ ChildHolds /\ ParentHolds

LEMMA OneUpgradeFollows == LockInv => OneUpgrade
<1> SUFFICES ASSUME LockInv, NEW u \in Updaters, NEW v \in Updaters,
                    child[u] \notin Ends, child[v] \notin Ends \/ parent[v].at = "record"
             PROVE  u = v
    BY DEF OneUpgrade
<1>1. <<u, "child">> \in holders BY DEF LockInv, ChildHolds
<1>2. CASE child[v] \notin Ends
  <2>1. <<v, "child">> \in holders BY <1>2 DEF LockInv, ChildHolds
  <2> QED BY <1>1, <2>1 DEF LockInv, OneAttempt
<1>3. CASE parent[v].at = "record"
  <2>1. <<v, "parent">> \in holders BY <1>3 DEF LockInv, ParentHolds
  <2> QED BY <1>1, <2>1 DEF LockInv, OneAttempt
<1> QED BY <1>2, <1>3

LEMMA InitLock == Init => LockInv
<1> SUFFICES ASSUME Init PROVE LockInv
    OBVIOUS
<1>1. Shapes
  <2>1. [at |-> "none"] \in ParentState
    <3>1. [at |-> "none"] \in [at: {"none"}] OBVIOUS
    <3> QED BY <3>1 DEF ParentState
  <2>2. parent \in [Updaters -> ParentState] BY <2>1 DEF Init
  <2> QED BY <2>2 DEF Init, Shapes
<1>2. OneAttempt BY DEF Init, OneAttempt
<1>3. ChildHolds BY DEF Init, ChildHolds, Ends
<1>4. ParentHolds BY DEF Init, ParentHolds
<1> QED BY <1>1, <1>2, <1>3, <1>4 DEF LockInv

\* A script that works goes on with the lock, wherever it goes.
LEMMA AdvanceKeepsLock ==
    ASSUME LockInv, NEW u \in Updaters, child[u] \notin Ends, NEW step,
           child' = [child EXCEPT ![u] = step], holders' = holders, parent' = parent
    PROVE  LockInv'
<1>1. Shapes' BY DEF LockInv, Shapes
<1>2. OneAttempt' BY DEF LockInv, OneAttempt
<1>3. ParentHolds' BY DEF LockInv, ParentHolds
<1>4. ChildHolds'
  <2> SUFFICES ASSUME NEW v \in Updaters, child'[v] \notin Ends' PROVE <<v, "child">> \in holders'
      BY DEF ChildHolds
  <2>1. child[v] \notin Ends BY DEF LockInv, Shapes, Ends
  <2> QED BY <2>1 DEF LockInv, ChildHolds
<1> QED BY <1>1, <1>2, <1>3, <1>4 DEF LockInv

\* A script that is over has the lock no more.
LEMMA ExitKeepsLock ==
    ASSUME LockInv, NEW u \in Updaters, NEW how \in {"ended", "failed"}, Exit(u, how),
           parent' = parent
    PROVE  LockInv'
<1>1. child' = [child EXCEPT ![u] = how] /\ holders' = holders \ {<<u, "child">>}
  BY DEF Exit, Release
<1>2. Shapes'
  <2>1. child' = [v \in Updaters |-> child'[v]] BY <1>1 DEF LockInv, Shapes
  <2>2. parent' \in [Updaters -> ParentState]' BY DEF LockInv, Shapes, ParentState, Started
  <2>3. holders' \subseteq Updaters \X {"parent", "child"} BY <1>1 DEF LockInv, Shapes
  <2> QED BY <2>1, <2>2, <2>3 DEF Shapes
<1>3. OneAttempt' BY <1>1 DEF LockInv, OneAttempt
<1>4. ParentHolds' BY <1>1 DEF LockInv, ParentHolds
<1>5. ChildHolds'
  <2> SUFFICES ASSUME NEW v \in Updaters, child'[v] \notin Ends' PROVE <<v, "child">> \in holders'
      BY DEF ChildHolds
  <2>1. v # u BY <1>1 DEF LockInv, Shapes, Ends
  <2>2. child[v] \notin Ends BY <1>1, <2>1 DEF LockInv, Shapes, Ends
  <2>3. <<v, "child">> \in holders BY <2>2 DEF LockInv, ChildHolds
  <2> QED BY <1>1, <2>1, <2>3
<1> QED BY <1>2, <1>3, <1>4, <1>5 DEF LockInv

\* A parent takes a step and keeps the lock.
LEMMA ParentKeepsLock ==
    ASSUME LockInv, NEW u \in Updaters, NEW state \in ParentState,
           parent' = [parent EXCEPT ![u] = state], child' = child, holders' = holders,
           parent[u].at \notin {"none", "ended"}
    PROVE  LockInv'
<1>1. parent' \in [Updaters -> ParentState] BY DEF LockInv, Shapes
<1>2. Shapes' BY <1>1 DEF LockInv, Shapes, ParentState, Started
<1>3. OneAttempt' /\ ChildHolds' BY DEF LockInv, OneAttempt, ChildHolds, Ends
<1>4. ParentHolds'
  <2> SUFFICES ASSUME NEW v \in Updaters, parent'[v].at \notin {"none", "ended"}
               PROVE  <<v, "parent">> \in holders'
      BY DEF ParentHolds
  <2>1. CASE v = u BY <2>1 DEF LockInv, ParentHolds
  <2>2. CASE v # u
    <3>1. parent'[v] = parent[v] BY <2>2 DEF LockInv, Shapes
    <3> QED BY <3>1 DEF LockInv, ParentHolds
  <2> QED BY <2>1, <2>2
<1> QED BY <1>2, <1>3, <1>4 DEF LockInv

\* What a parent that has started looks like after a step.
LEMMA StartedStep ==
    ASSUME Shapes, NEW u \in Updaters, parent[u].at # "none", NEW at \in Ats
    PROVE  /\ [parent[u] EXCEPT !.at = at] \in ParentState
           /\ [parent[u] EXCEPT !.at = at].at = at
           /\ parent[u] \in Started
<1>1. parent[u] \in [at: {"none"}] \/ parent[u] \in Started BY DEF Shapes, ParentState
<1>2. parent[u] \in Started
  <2>1. parent[u] \notin [at: {"none"}]
    <3> SUFFICES ASSUME parent[u] \in [at: {"none"}] PROVE FALSE
        OBVIOUS
    <3>1. parent[u].at \in {"none"} OBVIOUS
    <3> QED BY <3>1
  <2> QED BY <1>1, <2>1
<1>3. /\ [parent[u] EXCEPT !.at = at] \in Started
      /\ [parent[u] EXCEPT !.at = at].at = at
  BY <1>2 DEF Started
<1> QED BY <1>2, <1>3 DEF ParentState

\* A parent that is over has the lock no more; its child may.
LEMMA EndingKeepsLock ==
    ASSUME LockInv, NEW u \in Updaters, parent[u].at # "none", Ending(u), child' = child
    PROVE  LockInv'
<1> DEFINE state == [parent[u] EXCEPT !.at = "ended"]
<1>1. parent' = [parent EXCEPT ![u] = state] /\ holders' = holders \ {<<u, "parent">>}
  BY DEF Ending, Release
<1>2. state \in ParentState /\ state.at = "ended"
  <2>1. "ended" \in Ats BY DEF Ats
  <2> QED BY <2>1, StartedStep DEF LockInv
<1> HIDE DEF state
<1>3. parent' \in [Updaters -> ParentState] /\ parent'[u] = state
      /\ \A v \in Updaters \ {u} : parent'[v] = parent[v]
  BY <1>1, <1>2 DEF LockInv, Shapes
<1>4. Shapes'
  <2>1. holders' \subseteq Updaters \X {"parent", "child"} BY <1>1 DEF LockInv, Shapes
  <2>2. child' = [v \in Updaters |-> child'[v]] BY DEF LockInv, Shapes
  <2> QED BY <1>3, <2>1, <2>2 DEF Shapes, ParentState, Started
<1>5. OneAttempt' BY <1>1 DEF LockInv, OneAttempt
<1>6. ChildHolds'
  <2> SUFFICES ASSUME NEW v \in Updaters, child'[v] \notin Ends' PROVE <<v, "child">> \in holders'
      BY DEF ChildHolds
  <2>1. <<v, "child">> \in holders BY DEF LockInv, ChildHolds, Ends
  <2> QED BY <1>1, <2>1
<1>7. ParentHolds'
  <2> SUFFICES ASSUME NEW v \in Updaters, parent'[v].at \notin {"none", "ended"}
               PROVE  <<v, "parent">> \in holders'
      BY DEF ParentHolds
  <2>1. v # u BY <1>2, <1>3
  <2>2. <<v, "parent">> \in holders BY <1>3, <2>1 DEF LockInv, ParentHolds
  <2> QED BY <1>1, <2>1, <2>2
<1> QED BY <1>4, <1>5, <1>6, <1>7 DEF LockInv

\* Nobody has the lock: the new attempt is alone with it.
LEMMA AcquireKeepsLock ==
    ASSUME LockInv, NEW u \in Updaters, NEW b \in Builds, Acquire(u, b),
           BuildsAssumption
    PROVE  LockInv'
<1> DEFINE state == [at |-> "decide", build |-> b, remote |-> b.channel # "local"]
<1>1. /\ parent' = [parent EXCEPT ![u] = state] /\ child' = child
      /\ holders = {} /\ holders' = {<<u, "parent">>}
  BY DEF Acquire
<1>2. state \in ParentState
  <2>1. state \in Started BY DEF Started, Ats
  <2> QED BY <2>1 DEF ParentState
<1> HIDE DEF state
<1>3. parent' \in [Updaters -> ParentState]
      /\ \A v \in Updaters \ {u} : parent'[v] = parent[v]
  BY <1>1, <1>2 DEF LockInv, Shapes
<1>4. Shapes'
  <2>1. child' = [v \in Updaters |-> child'[v]] BY <1>1 DEF LockInv, Shapes
  <2> QED BY <1>1, <1>3, <2>1 DEF Shapes, ParentState, Started
<1>5. OneAttempt' BY <1>1 DEF OneAttempt
<1>6. ChildHolds' BY <1>1 DEF LockInv, ChildHolds, Ends
<1>7. ParentHolds'
  <2> SUFFICES ASSUME NEW v \in Updaters, parent'[v].at \notin {"none", "ended"}
               PROVE  <<v, "parent">> \in holders'
      BY DEF ParentHolds
  <2>1. CASE v = u BY <1>1, <2>1
  <2>2. CASE v # u BY <1>1, <1>3, <2>2 DEF LockInv, ParentHolds
  <2> QED BY <2>1, <2>2
<1> QED BY <1>4, <1>5, <1>6, <1>7 DEF LockInv

\* The child inherits the lock of its parent.
LEMMA DecideKeepsLock ==
    ASSUME LockInv, NEW u \in Updaters, NEW downgrade \in BOOLEAN, Decide(u, downgrade)
    PROVE  LockInv'
<1>1. parent[u].at = "decide" BY DEF Decide
<1>2. CASE Ending(u) /\ child' = child BY <1>1, <1>2, EndingKeepsLock
<1>3. CASE /\ parent' = [parent EXCEPT ![u].at = "wait"]
           /\ holders' = holders \cup {<<u, "child">>}
           /\ child' = [child EXCEPT ![u] = "check"]
  <2> DEFINE state == [parent[u] EXCEPT !.at = "wait"]
  <2>1. state \in ParentState
    <3>1. "wait" \in Ats BY DEF Ats
    <3> QED BY <1>1, <3>1, StartedStep DEF LockInv
  <2>2. parent' = [parent EXCEPT ![u] = state] BY <1>3
  <2> HIDE DEF state
  <2>3. parent' \in [Updaters -> ParentState]
        /\ \A v \in Updaters \ {u} : parent'[v] = parent[v]
    BY <2>1, <2>2 DEF LockInv, Shapes
  <2>4. <<u, "parent">> \in holders BY <1>1 DEF LockInv, ParentHolds
  <2>5. Shapes'
    <3>1. child' = [v \in Updaters |-> child'[v]] BY <1>3 DEF LockInv, Shapes
    <3>2. holders' \subseteq Updaters \X {"parent", "child"} BY <1>3 DEF LockInv, Shapes
    <3> QED BY <2>3, <3>1, <3>2 DEF Shapes, ParentState, Started
  <2>6. OneAttempt'
    <3> SUFFICES ASSUME NEW v \in Updaters, NEW w \in Updaters,
                        NEW x \in {"parent", "child"}, NEW y \in {"parent", "child"},
                        <<v, x>> \in holders', <<w, y>> \in holders'
                 PROVE  v = w
        BY DEF OneAttempt
    <3>1. v = u BY <1>3, <2>4 DEF LockInv, OneAttempt
    <3>2. w = u BY <1>3, <2>4 DEF LockInv, OneAttempt
    <3> QED BY <3>1, <3>2
  <2>7. ChildHolds'
    <3> SUFFICES ASSUME NEW v \in Updaters, child'[v] \notin Ends'
                 PROVE  <<v, "child">> \in holders'
        BY DEF ChildHolds
    <3>1. CASE v = u BY <1>3, <3>1
    <3>2. CASE v # u
      <4>1. child'[v] = child[v] BY <1>3, <3>2 DEF LockInv, Shapes
      <4> QED BY <1>3, <4>1 DEF LockInv, ChildHolds, Ends
    <3> QED BY <3>1, <3>2
  <2>8. ParentHolds'
    <3> SUFFICES ASSUME NEW v \in Updaters, parent'[v].at \notin {"none", "ended"}
                 PROVE  <<v, "parent">> \in holders'
        BY DEF ParentHolds
    <3>1. CASE v = u BY <1>3, <2>4, <3>1
    <3>2. CASE v # u BY <1>3, <2>3, <3>2 DEF LockInv, ParentHolds
    <3> QED BY <3>1, <3>2
  <2> QED BY <2>5, <2>6, <2>7, <2>8 DEF LockInv
<1> QED BY <1>2, <1>3 DEF Decide

LEMMA ParentStepKeepsLock ==
    ASSUME LockInv, NEW u \in Updaters, Return(u) \/ Record(u) \/ KillParent(u)
    PROVE  LockInv'
<1>1. CASE Return(u)
  <2>1. parent[u].at = "wait" /\ child' = child BY <1>1 DEF Return
  <2>2. CASE Ending(u) BY <2>1, <2>2, EndingKeepsLock
  <2>3. CASE parent' = [parent EXCEPT ![u].at = "record"] /\ holders' = holders
    <3>1. [parent[u] EXCEPT !.at = "record"] \in ParentState
      <4>1. "record" \in Ats BY DEF Ats
      <4> QED BY <2>1, <4>1, StartedStep DEF LockInv
    <3> QED BY <2>1, <2>3, <3>1, ParentKeepsLock
  <2> QED BY <1>1, <2>2, <2>3 DEF Return
<1>2. CASE Record(u)
  <2>1. parent[u].at = "record" /\ Ending(u) /\ child' = child BY <1>2 DEF Record
  <2> QED BY <2>1, EndingKeepsLock
<1>3. CASE KillParent(u)
  <2>1. parent[u].at # "none" /\ Ending(u) /\ child' = child BY <1>3 DEF KillParent
  <2> QED BY <2>1, EndingKeepsLock
<1> QED BY <1>1, <1>2, <1>3

\* Whatever a script does, it has the lock until it is over.
Works(u) ==
    \/ CheckInherited(u) \/ BackUpCode(u)
    \/ \E j \in Jobs : StopTimer(u, j) \/ StopJob(u, j) \/ ArmTimer(u, j)
    \/ StopWeb(u) \/ BackUpState(u) \/ Migrate(u) \/ Clean(u) \/ CopyPart(u)
    \/ FinalizeInstall(u) \/ Restart(u)

LEMMA WorkKeepsLock ==
    ASSUME LockInv, NEW u \in Updaters, Works(u)
    PROVE  LockInv'
<1>1. /\ holders' = holders /\ parent' = parent
      /\ Advance(u) \/ child' = child
  BY DEF Works, CheckInherited, Closed, BackUpCode, StopTimer, StopJob, ArmTimer, StopWeb,
         BackUpState, Migrate, Clean, CopyPart, FinalizeInstall, Restart, lock
<1>2. child[u] \notin Ends
  BY DEF Works, CheckInherited, BackUpCode, StopTimer, StopJob, ArmTimer, StopWeb,
         BackUpState, Migrate, Clean, CopyPart, FinalizeInstall, Restart, At, Ends
<1>3. child' = [child EXCEPT ![u] = child[u]] \/ Advance(u)
  BY <1>1 DEF LockInv, Shapes
<1> QED BY <1>1, <1>2, <1>3, AdvanceKeepsLock DEF Advance

\* After a reboot nobody works and nobody has the lock.
LEMMA RebootKeepsLock ==
    ASSUME LockInv, Reboot
    PROVE  LockInv'
<1>1. /\ holders' = {}
      /\ parent' = [u \in Updaters |-> IF parent[u].at \in {"none", "ended"} THEN parent[u]
                                        ELSE [parent[u] EXCEPT !.at = "ended"]]
      /\ child' = [u \in Updaters |-> IF child[u] \in Ends THEN child[u] ELSE "failed"]
  BY DEF Reboot
<1>2. ASSUME NEW u \in Updaters
      PROVE  parent'[u] \in ParentState /\ parent'[u].at \in {"none", "ended"}
  <2>1. CASE parent[u].at \in {"none", "ended"} BY <1>1, <2>1 DEF LockInv, Shapes
  <2>2. CASE parent[u].at \notin {"none", "ended"}
    <3>1. parent'[u] = [parent[u] EXCEPT !.at = "ended"] BY <1>1, <2>2
    <3>2. "ended" \in Ats BY DEF Ats
    <3> QED BY <2>2, <3>1, <3>2, StartedStep DEF LockInv
  <2> QED BY <2>1, <2>2
<1>3. Shapes'
  <2>1. parent' = [u \in Updaters |-> parent'[u]] BY <1>1
  <2>2. parent' \in [Updaters -> ParentState] BY <1>2, <2>1
  <2>3. child' = [u \in Updaters |-> child'[u]] BY <1>1
  <2> QED BY <1>1, <2>2, <2>3 DEF Shapes, ParentState, Started
<1>4. OneAttempt' BY <1>1 DEF OneAttempt
<1>5. ChildHolds' BY <1>1 DEF ChildHolds, Ends
<1>6. ParentHolds' BY <1>2 DEF ParentHolds
<1> QED BY <1>3, <1>4, <1>5, <1>6 DEF LockInv

LEMMA StepKeepsLock ==
    ASSUME BuildsAssumption
    PROVE  LockInv /\ [Next]_vars => LockInv'
<1> SUFFICES ASSUME LockInv, [Next]_vars PROVE LockInv'
    OBVIOUS
<1>1. ASSUME holders' = holders, parent' = parent, child' = child PROVE LockInv'
  BY <1>1 DEF LockInv, Shapes, ParentState, Started, OneAttempt, ChildHolds, ParentHolds, Ends
<1>2. CASE UNCHANGED vars BY <1>1, <1>2 DEF vars
<1>3. ASSUME NEW u \in Updaters, NEW b \in Builds, Acquire(u, b) PROVE LockInv'
  BY <1>3, AcquireKeepsLock
<1>4. ASSUME NEW u \in Updaters, NEW downgrade \in BOOLEAN, Decide(u, downgrade) PROVE LockInv'
  BY <1>4, DecideKeepsLock
<1>5. ASSUME NEW u \in Updaters, Return(u) \/ Record(u) \/ KillParent(u) PROVE LockInv'
  BY <1>5, ParentStepKeepsLock
<1>6. ASSUME NEW u \in Updaters, Works(u) PROVE LockInv'
  BY <1>6, WorkKeepsLock
<1>7. ASSUME NEW u \in Updaters, Verify(u) PROVE LockInv'
  BY <1>7, ExitKeepsLock DEF Verify
<1>8. ASSUME NEW u \in Updaters, Fails(u) PROVE LockInv'
  BY <1>8, ExitKeepsLock DEF Fails
<1>9. CASE Reboot BY <1>9, RebootKeepsLock
<1>10. CASE (\E j \in Jobs : Fire(j) \/ JobEnds(j)) \/ WriteState \/ Initialize
  BY <1>1, <1>10 DEF Fire, JobEnds, WriteState, Initialize, lock
<1> QED BY <1>2, <1>3, <1>4, <1>5, <1>6, <1>7, <1>8, <1>9, <1>10 DEF Next, Works

\* Two upgrades never work at once, with parents and scripts killed in any order,
\* failing steps and reboots.
THEOREM NeverTwoUpgrades ==
    ASSUME BuildsAssumption
    PROVE  Spec => []OneUpgrade
<1>1. Init => LockInv BY InitLock
<1>2. LockInv /\ [Next]_vars => LockInv' BY StepKeepsLock
<1>3. LockInv => OneUpgrade BY OneUpgradeFollows
<1> QED BY <1>1, <1>2, <1>3, PTL DEF Spec

-----------------------------------------------------------------------------
(* What an attempt that is cut off leaves *)

\* A step that stands in one place of the program is followed by its successor.
IsStep(step, i) == Program[i] = step /\ \A k \in 1..16 : Program[k] = step => k = i

LEMMA StepFollows ==
    ASSUME NEW step, NEW i \in 1..15, IsStep(step, i)
    PROVE  Following(step) = Program[i + 1]
<1> DEFINE at == CHOOSE k \in DOMAIN Program : Program[k] = step
<1>1. DOMAIN Program = 1..16 /\ Len(Program) = 16
  BY DEF Program
<1>2. \E k \in DOMAIN Program : Program[k] = step BY <1>1 DEF IsStep
<1>3. at \in DOMAIN Program /\ Program[at] = step BY <1>2
<1>4. at = i BY <1>1, <1>3 DEF IsStep
<1>5. Following(step) = IF at = Len(Program) THEN "ended" ELSE Program[at + 1]
  BY DEF Following
<1> HIDE DEF at
<1>6. at # Len(Program) BY <1>1, <1>4
<1> QED BY <1>4, <1>5, <1>6

\* The steps of the program, in their order.
LEMMA ProgramOrder ==
    /\ Following("check") = "back_up_code"
    /\ Following("back_up_code") = "timer_refresh"
    /\ Following("timer_refresh") = "job_refresh"
    /\ Following("job_refresh") = "timer_health"
    /\ Following("timer_health") = "job_health"
    /\ Following("job_health") = "web"
    /\ Following("web") = "back_up_state"
    /\ Following("back_up_state") = "migrate"
    /\ Following("migrate") = "clean"
    /\ Following("clean") = "copy"
    /\ Following("copy") = "finalize"
    /\ Following("finalize") = "arm_refresh"
    /\ Following("arm_refresh") = "arm_health"
    /\ Following("arm_health") = "restart"
    /\ Following("restart") = "verify"
<1>1. /\ Program[1] = "check" /\ Program[2] = "back_up_code" /\ Program[3] = "timer_refresh"
      /\ Program[4] = "job_refresh" /\ Program[5] = "timer_health" /\ Program[6] = "job_health"
      /\ Program[7] = "web" /\ Program[8] = "back_up_state" /\ Program[9] = "migrate"
      /\ Program[10] = "clean" /\ Program[11] = "copy" /\ Program[12] = "finalize"
      /\ Program[13] = "arm_refresh" /\ Program[14] = "arm_health" /\ Program[15] = "restart"
      /\ Program[16] = "verify"
  BY DEF Program
<1>2. ASSUME NEW k \in 1..16
      PROVE  \/ k = 1 \/ k = 2 \/ k = 3 \/ k = 4 \/ k = 5 \/ k = 6 \/ k = 7 \/ k = 8
             \/ k = 9 \/ k = 10 \/ k = 11 \/ k = 12 \/ k = 13 \/ k = 14 \/ k = 15 \/ k = 16
  OBVIOUS
<1>3. Following("check") = "back_up_code"
  <2>1. IsStep("check", 1) BY <1>1, <1>2 DEF IsStep
  <2>2. Following("check") = Program[1 + 1] BY <2>1, StepFollows, 1 \in 1..15
  <2> QED BY <1>1, <2>2, 1 + 1 = 2
<1>4. Following("back_up_code") = "timer_refresh"
  <2>1. IsStep("back_up_code", 2) BY <1>1, <1>2 DEF IsStep
  <2>2. Following("back_up_code") = Program[2 + 1] BY <2>1, StepFollows, 2 \in 1..15
  <2> QED BY <1>1, <2>2, 2 + 1 = 3
<1>5. Following("timer_refresh") = "job_refresh"
  <2>1. IsStep("timer_refresh", 3) BY <1>1, <1>2 DEF IsStep
  <2>2. Following("timer_refresh") = Program[3 + 1] BY <2>1, StepFollows, 3 \in 1..15
  <2> QED BY <1>1, <2>2, 3 + 1 = 4
<1>6. Following("job_refresh") = "timer_health"
  <2>1. IsStep("job_refresh", 4) BY <1>1, <1>2 DEF IsStep
  <2>2. Following("job_refresh") = Program[4 + 1] BY <2>1, StepFollows, 4 \in 1..15
  <2> QED BY <1>1, <2>2, 4 + 1 = 5
<1>7. Following("timer_health") = "job_health"
  <2>1. IsStep("timer_health", 5) BY <1>1, <1>2 DEF IsStep
  <2>2. Following("timer_health") = Program[5 + 1] BY <2>1, StepFollows, 5 \in 1..15
  <2> QED BY <1>1, <2>2, 5 + 1 = 6
<1>8. Following("job_health") = "web"
  <2>1. IsStep("job_health", 6) BY <1>1, <1>2 DEF IsStep
  <2>2. Following("job_health") = Program[6 + 1] BY <2>1, StepFollows, 6 \in 1..15
  <2> QED BY <1>1, <2>2, 6 + 1 = 7
<1>9. Following("web") = "back_up_state"
  <2>1. IsStep("web", 7) BY <1>1, <1>2 DEF IsStep
  <2>2. Following("web") = Program[7 + 1] BY <2>1, StepFollows, 7 \in 1..15
  <2> QED BY <1>1, <2>2, 7 + 1 = 8
<1>10. Following("back_up_state") = "migrate"
  <2>1. IsStep("back_up_state", 8) BY <1>1, <1>2 DEF IsStep
  <2>2. Following("back_up_state") = Program[8 + 1] BY <2>1, StepFollows, 8 \in 1..15
  <2> QED BY <1>1, <2>2, 8 + 1 = 9
<1>11. Following("migrate") = "clean"
  <2>1. IsStep("migrate", 9) BY <1>1, <1>2 DEF IsStep
  <2>2. Following("migrate") = Program[9 + 1] BY <2>1, StepFollows, 9 \in 1..15
  <2> QED BY <1>1, <2>2, 9 + 1 = 10
<1>12. Following("clean") = "copy"
  <2>1. IsStep("clean", 10) BY <1>1, <1>2 DEF IsStep
  <2>2. Following("clean") = Program[10 + 1] BY <2>1, StepFollows, 10 \in 1..15
  <2> QED BY <1>1, <2>2, 10 + 1 = 11
<1>13. Following("copy") = "finalize"
  <2>1. IsStep("copy", 11) BY <1>1, <1>2 DEF IsStep
  <2>2. Following("copy") = Program[11 + 1] BY <2>1, StepFollows, 11 \in 1..15
  <2> QED BY <1>1, <2>2, 11 + 1 = 12
<1>14. Following("finalize") = "arm_refresh"
  <2>1. IsStep("finalize", 12) BY <1>1, <1>2 DEF IsStep
  <2>2. Following("finalize") = Program[12 + 1] BY <2>1, StepFollows, 12 \in 1..15
  <2> QED BY <1>1, <2>2, 12 + 1 = 13
<1>15. Following("arm_refresh") = "arm_health"
  <2>1. IsStep("arm_refresh", 13) BY <1>1, <1>2 DEF IsStep
  <2>2. Following("arm_refresh") = Program[13 + 1] BY <2>1, StepFollows, 13 \in 1..15
  <2> QED BY <1>1, <2>2, 13 + 1 = 14
<1>16. Following("arm_health") = "restart"
  <2>1. IsStep("arm_health", 14) BY <1>1, <1>2 DEF IsStep
  <2>2. Following("arm_health") = Program[14 + 1] BY <2>1, StepFollows, 14 \in 1..15
  <2> QED BY <1>1, <2>2, 14 + 1 = 15
<1>17. Following("restart") = "verify"
  <2>1. IsStep("restart", 15) BY <1>1, <1>2 DEF IsStep
  <2>2. Following("restart") = Program[15 + 1] BY <2>1, StepFollows, 15 \in 1..15
  <2> QED BY <1>1, <2>2, 15 + 1 = 16
<1> QED BY <1>3, <1>4, <1>5, <1>6, <1>7, <1>8, <1>9, <1>10,
           <1>11, <1>12, <1>13, <1>14, <1>15, <1>16, <1>17

\* What stands still while a script is at its steps: the timers and writers it
\* has stopped, as none of them starts by itself.
Prepared == {"back_up_state", "migrate", "clean", "copy", "finalize"}
NoJobs == {"web"} \cup Prepared
NoHealthTimer == {"job_health"} \cup NoJobs
NoRefreshJob == {"timer_health"} \cup NoHealthTimer
NoRefreshTimer == {"job_refresh"} \cup NoRefreshJob
Quiet(u) ==
    /\ child[u] \in NoRefreshTimer => "refresh" \notin timers
    /\ child[u] \in NoRefreshJob => "refresh" \notin running
    /\ child[u] \in NoHealthTimer => "health" \notin timers
    /\ child[u] \in NoJobs => "health" \notin running
    /\ child[u] \in Prepared => "web" \notin running

\* What it has backed up is what there is, until it migrates or replaces it.
Replacing == {"migrate", "clean", "copy", "finalize"}
Uncopied == {"timer_refresh", "job_refresh", "timer_health", "job_health", "web",
             "back_up_state", "migrate", "clean"}
Saved(u) ==
    /\ child[u] \in Replacing =>
          /\ backup[u].writes = data.writes
          /\ backup[u].auth = data.auth \/ (backup[u].auth = "missing" /\ child[u] # "migrate")
    /\ child[u] \in Uncopied => backup[u].code = code /\ backup[u].env = data.env
    /\ child[u] \in {"clean", "copy", "finalize"} => data.auth = "made"
    /\ child[u] \in {"copy", "finalize"} => backup[u].env \in {data.env, "legacy"}

\* The metadata say what they said when the bootstrap decided to go on.
Unrecorded == {"check", "back_up_code", "copy", "finalize"} \cup Uncopied
Decided(u) == child[u] \in Unrecorded /\ parent[u].remote /\ info # None => Build(u) # info
\* A script is at work only between the decision of its bootstrap and its return.
AtWork(u) == parent[u].at \in {"none", "record"} => child[u] \in Ends

Sound(u) == Quiet(u) /\ Saved(u) /\ Decided(u) /\ AtWork(u)
Backups == [code: [Parts -> Builds] \cup {None}, env: Envs \cup {"unsaved"},
            writes: Nat \cup {None}, auth: Auths \cup {"unsaved"}]
\* An attempt has backed up nothing before it comes to it.
Fresh(u) ==
    /\ parent[u].at \in {"none", "decide"} => child[u] = "none"
    /\ child[u] \in {"none", "check", "back_up_code"} => backup[u].env = "unsaved"
UpgradeInv ==
    /\ LockInv
    /\ TypeOK
    /\ backup \in [Updaters -> Backups]
    /\ \A u \in Updaters : Sound(u) /\ Fresh(u)
    /\ CredentialsKept

\* An attempt that is not at work claims nothing.
LEMMA EndsAreSound ==
    ASSUME NEW u \in Updaters, child'[u] \in Ends
    PROVE  Sound(u)'
<1>1. Quiet(u)'
  BY DEF Quiet, Ends, NoRefreshTimer, NoRefreshJob, NoHealthTimer, NoJobs, Prepared
<1>2. Saved(u)' BY DEF Saved, Ends, Uncopied, Replacing
<1>3. Decided(u)' BY DEF Decided, Ends, Unrecorded, Uncopied
<1>4. AtWork(u)' BY DEF AtWork, Ends
<1> QED BY <1>1, <1>2, <1>3, <1>4 DEF Sound

\* Who works is alone, and no bootstrap records meanwhile.
LEMMA WorkerIsAlone ==
    ASSUME UpgradeInv, NEW u \in Updaters, child[u] \notin Ends
    PROVE  /\ \A v \in Updaters \ {u} : child[v] \in Ends
           /\ \A v \in Updaters : parent[v].at # "record"
<1>1. OneUpgrade BY OneUpgradeFollows DEF UpgradeInv
<1>2. \A v \in Updaters \ {u} : child[v] \in Ends BY <1>1 DEF OneUpgrade
<1>3. ASSUME NEW v \in Updaters, parent[v].at = "record" PROVE FALSE
  <2>1. u = v BY <1>1, <1>3 DEF OneUpgrade
  <2> QED BY <1>3, <2>1 DEF UpgradeInv, Sound, AtWork
<1> QED BY <1>2, <1>3

\* A script at work takes a step; only what it says itself has to be looked at.
LEMMA WorkerStep ==
    ASSUME UpgradeInv, NEW u \in Updaters, child[u] \notin Ends, NEW step,
           child' = [child EXCEPT ![u] = step], Sound(u)'
    PROVE  \A v \in Updaters : Sound(v)'
<1> SUFFICES ASSUME NEW v \in Updaters, v # u PROVE Sound(v)'
    OBVIOUS
<1>1. child[v] \in Ends BY WorkerIsAlone
<1>2. child'[v] = child[v] BY DEF UpgradeInv, TypeOK
<1> QED BY <1>1, <1>2, EndsAreSound

-----------------------------------------------------------------------------
(* Types *)

\* The steps, one by one.
LEMMA StepsAre ==
    Steps = {"check", "back_up_code", "timer_refresh", "job_refresh", "timer_health",
            "job_health", "web", "back_up_state", "migrate", "clean", "copy", "finalize",
            "arm_refresh", "arm_health", "restart", "verify", "none", "ended", "failed"}
<1>1. DOMAIN Program = 1..16 BY DEF Program
<1>2. ASSUME NEW k \in 1..16
      PROVE  \/ k = 1 \/ k = 2 \/ k = 3 \/ k = 4 \/ k = 5 \/ k = 6 \/ k = 7 \/ k = 8
             \/ k = 9 \/ k = 10 \/ k = 11 \/ k = 12 \/ k = 13 \/ k = 14 \/ k = 15 \/ k = 16
  OBVIOUS
<1>3. {Program[i] : i \in 1..16} =
          {"check", "back_up_code", "timer_refresh", "job_refresh", "timer_health",
           "job_health", "web", "back_up_state", "migrate", "clean", "copy", "finalize",
           "arm_refresh", "arm_health", "restart", "verify"}
  <2>1. /\ Program[1] = "check" /\ Program[2] = "back_up_code"
        /\ Program[3] = "timer_refresh" /\ Program[4] = "job_refresh"
        /\ Program[5] = "timer_health" /\ Program[6] = "job_health" /\ Program[7] = "web"
        /\ Program[8] = "back_up_state" /\ Program[9] = "migrate" /\ Program[10] = "clean"
        /\ Program[11] = "copy" /\ Program[12] = "finalize" /\ Program[13] = "arm_refresh"
        /\ Program[14] = "arm_health" /\ Program[15] = "restart" /\ Program[16] = "verify"
    BY DEF Program
  <2> QED BY <1>2, <2>1
<1> QED BY <1>1, <1>3 DEF Steps

\* Every step but the last is followed by a step.
LEMMA FollowingIsAStep ==
    ASSUME NEW step \in Steps \ Ends, step # "verify"
    PROVE  Following(step) \in Steps
BY StepsAre, ProgramOrder DEF Ends

\* The part of the types that the lock does not give.
StoreTypes ==
    /\ child \in [Updaters -> Steps]
    /\ timers \subseteq Jobs /\ running \subseteq Jobs \cup {"web"}
    /\ data \in [writes: 0..MaxWrites, auth: Auths, env: Envs] /\ code \in [Parts -> Builds]
    /\ info # None => info.channel \in {"stable", "main", "local"} /\ info.version \in Nat
    /\ faults \in 0..MaxFaults
    /\ backup \in [Updaters -> Backups]

LEMMA TypesFollow == Shapes /\ StoreTypes => TypeOK
<1> SUFFICES ASSUME Shapes, StoreTypes PROVE TypeOK
    OBVIOUS
<1>1. holders \subseteq {<<u, who>> : u \in Updaters, who \in {"parent", "child"}}
  BY DEF Shapes
<1>2. \A u \in Updaters : parent[u].at \in {"none", "decide", "wait", "record", "ended"}
  BY DEF Shapes, ParentState, Started, Ats
<1> QED BY <1>1, <1>2 DEF TypeOK, StoreTypes

LEMMA TypesGiven == UpgradeInv => StoreTypes
BY DEF UpgradeInv, TypeOK, StoreTypes

LEMMA InitTypes ==
    ASSUME BuildsAssumption, BoundsAssumption, Init
    PROVE  StoreTypes
<1>1. code \in [Parts -> Builds] BY DEF Init, Whole, BuildsAssumption
<1>2. info # None => info.channel \in {"stable", "main", "local"} /\ info.version \in Nat
  BY DEF Init, BuildsAssumption
<1>3. child \in [Updaters -> Steps] BY DEF Init, Steps
<1>4. backup \in [Updaters -> Backups] BY DEF Init, Backups, Untouched
<1>5. data \in [writes: 0..MaxWrites, auth: Auths, env: Envs]
  <2>1. data \in [writes: {0}, auth: Auths, env: {"legacy", "clean"}] BY DEF Init
  <2>2. 0 \in 0..MaxWrites /\ {"legacy", "clean"} \subseteq Envs BY DEF BoundsAssumption, Envs
  <2> QED BY <2>1, <2>2
<1> QED BY <1>1, <1>2, <1>3, <1>4, <1>5 DEF Init, StoreTypes, BoundsAssumption

\* A script that works was started for a build.
LEMMA WorkerHasBuild ==
    ASSUME UpgradeInv, NEW u \in Updaters, child[u] \notin Ends
    PROVE  Build(u) \in Builds /\ parent[u].remote \in BOOLEAN /\ parent[u].at # "none"
<1>1. parent[u].at # "none" BY DEF UpgradeInv, Sound, AtWork
<1>2. "ended" \in Ats BY DEF Ats
<1>3. parent[u] \in Started BY <1>1, <1>2, StartedStep DEF UpgradeInv, LockInv
<1> QED BY <1>1, <1>3 DEF Started, Build

\* A step of a script keeps the types.
LEMMA WorkKeepsTypes ==
    ASSUME UpgradeInv, BuildsAssumption, NEW u \in Updaters, Works(u)
    PROVE  StoreTypes'
<1>1. StoreTypes BY TypesGiven
<1>2. child[u] \notin Ends
  BY DEF Works, CheckInherited, BackUpCode, StopTimer, StopJob, ArmTimer, StopWeb,
         BackUpState, Migrate, Clean, CopyPart, FinalizeInstall, Restart, At, Ends
<1>3. child[u] # "verify"
  BY DEF Works, CheckInherited, BackUpCode, StopTimer, StopJob, ArmTimer, StopWeb,
         BackUpState, Migrate, Clean, CopyPart, FinalizeInstall, Restart, At
<1>4. Following(child[u]) \in Steps BY <1>1, <1>2, <1>3, FollowingIsAStep DEF StoreTypes
<1>5. Advance(u) => child' \in [Updaters -> Steps] BY <1>1, <1>4 DEF Advance, StoreTypes
<1>6. Build(u) \in Builds BY <1>2, WorkerHasBuild
<1>7. CASE CheckInherited(u)
  BY <1>1, <1>5, <1>7 DEF CheckInherited, units, installed, StoreTypes
<1>14. CASE Migrate(u) \/ Clean(u)
  <2>1. "made" \in Auths /\ "cleaned" \in Envs BY DEF Auths, Envs
  <2>2. \/ data' = [data EXCEPT !.auth = "made"]
        \/ data' = [data EXCEPT !.env = IF data.env = "legacy" THEN "cleaned" ELSE data.env]
    BY <1>14 DEF Migrate, Clean
  <2>3. data' \in [writes: 0..MaxWrites, auth: Auths, env: Envs] BY <1>1, <2>1, <2>2 DEF StoreTypes
  <2> QED BY <1>1, <1>5, <1>14, <2>3 DEF Migrate, Clean, units, StoreTypes
<1>8. CASE BackUpCode(u)
  <2>1. backup' \in [Updaters -> Backups]
    <3>1. backup' = [backup EXCEPT ![u].code = code, ![u].env = data.env] BY <1>8 DEF BackUpCode
    <3>2. backup[u] \in Backups /\ code \in [Parts -> Builds] /\ data.env \in Envs
      BY <1>1 DEF StoreTypes
    <3>3. [backup[u] EXCEPT !.code = code, !.env = data.env] \in Backups BY <3>2 DEF Backups
    <3> QED BY <1>1, <3>1, <3>3 DEF StoreTypes
  <2> QED BY <1>1, <1>5, <1>8, <2>1 DEF BackUpCode, units, StoreTypes
<1>9. CASE BackUpState(u)
  <2>1. backup' \in [Updaters -> Backups]
    <3>1. backup' = [backup EXCEPT ![u].writes = data.writes, ![u].auth = data.auth]
      BY <1>9 DEF BackUpState
    <3>2. backup[u] \in Backups /\ data.writes \in Nat /\ data.auth \in Auths
      BY <1>1 DEF StoreTypes
    <3>3. [backup[u] EXCEPT !.writes = data.writes, !.auth = data.auth] \in Backups
      BY <3>2 DEF Backups
    <3> QED BY <1>1, <3>1, <3>3 DEF StoreTypes
  <2> QED BY <1>1, <1>5, <1>9, <2>1 DEF BackUpState, units, StoreTypes
<1>10. ASSUME NEW j \in Jobs, StopTimer(u, j) \/ StopJob(u, j) \/ ArmTimer(u, j)
       PROVE  StoreTypes'
  BY <1>1, <1>5, <1>10 DEF StopTimer, StopJob, ArmTimer, installed, StoreTypes
<1>11. CASE StopWeb(u) \/ Restart(u)
  BY <1>1, <1>5, <1>11 DEF StopWeb, Restart, installed, StoreTypes
<1>12. CASE CopyPart(u)
  <2>1. code' \in [Parts -> Builds] /\ child' \in [Updaters -> Steps]
    BY <1>1, <1>5, <1>6, <1>12 DEF CopyPart, StoreTypes
  <2> QED BY <1>1, <1>12, <2>1 DEF CopyPart, units, StoreTypes
<1>13. CASE FinalizeInstall(u)
  <2>1. info'.channel \in {"stable", "main", "local"} /\ info'.version \in Nat
    BY <1>6, <1>13 DEF FinalizeInstall, BuildsAssumption
  <2> QED BY <1>1, <1>5, <1>13, <2>1 DEF FinalizeInstall, units, StoreTypes
<1> QED BY <1>7, <1>8, <1>9, <1>10, <1>11, <1>12, <1>13, <1>14 DEF Works

\* And so does every other step.
LEMMA StepKeepsTypes ==
    ASSUME UpgradeInv, BuildsAssumption, BoundsAssumption, [Next]_vars
    PROVE  StoreTypes'
<1>1. StoreTypes BY TypesGiven
<1>2. Fault => faults' \in 0..MaxFaults BY <1>1 DEF Fault, StoreTypes, BoundsAssumption
<1>3. CASE UNCHANGED vars BY <1>1, <1>3 DEF vars, StoreTypes
<1>4. ASSUME NEW u \in Updaters, NEW b \in Builds, Acquire(u, b) PROVE StoreTypes'
  BY <1>1, <1>4 DEF Acquire, units, installed, StoreTypes
<1>5. ASSUME NEW u \in Updaters, NEW downgrade \in BOOLEAN, Decide(u, downgrade)
      PROVE  StoreTypes'
  <2>1. "check" \in Steps
    <3>1. Program[1] = "check" /\ DOMAIN Program = 1..16 BY DEF Program
    <3> QED BY <3>1 DEF Steps
  <2>2. child' = child \/ child' = [child EXCEPT ![u] = "check"] BY <1>5 DEF Decide
  <2>3. child' \in [Updaters -> Steps] BY <1>1, <2>1, <2>2 DEF StoreTypes
  <2> QED BY <1>1, <1>5, <2>3 DEF Decide, units, installed, StoreTypes
<1>6. ASSUME NEW u \in Updaters, Return(u) \/ KillParent(u) PROVE StoreTypes'
  BY <1>1, <1>2, <1>6 DEF Return, KillParent, units, installed, StoreTypes
<1>7. ASSUME NEW u \in Updaters, Record(u) PROVE StoreTypes'
  <2>1. parent[u].at = "record" /\ info' = parent[u].build BY <1>7 DEF Record
  <2>2. "ended" \in Ats BY DEF Ats
  <2>3. parent[u] \in Started BY <2>1, <2>2, StartedStep DEF UpgradeInv, LockInv
  <2>4. info' \in Builds BY <2>1, <2>3 DEF Started
  <2>5. info'.channel \in {"stable", "main", "local"} /\ info'.version \in Nat
    BY <2>4 DEF BuildsAssumption
  <2> QED BY <1>1, <1>7, <2>5 DEF Record, units, StoreTypes
<1>8. ASSUME NEW u \in Updaters, Works(u) PROVE StoreTypes'
  BY <1>8, WorkKeepsTypes
<1>9. ASSUME NEW u \in Updaters, Verify(u) PROVE StoreTypes'
  <2>1. child' \in [Updaters -> Steps] BY <1>1, <1>9 DEF Verify, Exit, Steps, StoreTypes
  <2> QED BY <1>1, <1>9, <2>1 DEF Verify, units, installed, StoreTypes
<1>10. ASSUME NEW u \in Updaters, Fails(u) PROVE StoreTypes'
  <2>1. child' \in [Updaters -> Steps] BY <1>1, <1>10 DEF Fails, Exit, Steps, StoreTypes
  <2>2. timers' \subseteq Jobs BY <1>1, <1>10 DEF Fails, StoreTypes, Jobs
  <2> QED BY <1>1, <1>2, <1>10, <2>1, <2>2 DEF Fails, installed, StoreTypes
<1>11. CASE Reboot
  <2>1. child' \in [Updaters -> Steps] BY <1>1, <1>11 DEF Reboot, Steps, StoreTypes
  <2> QED BY <1>1, <1>2, <1>11, <2>1 DEF Reboot, installed, StoreTypes
<1>12. ASSUME NEW j \in Jobs, Fire(j) \/ JobEnds(j) PROVE StoreTypes'
  BY <1>1, <1>12 DEF Fire, JobEnds, installed, StoreTypes
<1>13. CASE WriteState
  <2>1. data' \in [writes: 0..MaxWrites, auth: Auths, env: Envs]
    <3>1. data.writes + 1 \in 0..MaxWrites
      BY <1>1, <1>13 DEF WriteState, StoreTypes, BoundsAssumption
    <3> QED BY <1>1, <1>13, <3>1 DEF WriteState, StoreTypes
  <2> QED BY <1>1, <1>13, <2>1 DEF WriteState, units, StoreTypes
<1>14. CASE Initialize
  <2>1. data' \in [writes: 0..MaxWrites, auth: Auths, env: Envs]
    BY <1>1, <1>14 DEF Initialize, StoreTypes, Auths
  <2> QED BY <1>1, <1>14, <2>1 DEF Initialize, units, StoreTypes
<1> QED BY <1>3, <1>4, <1>5, <1>6, <1>7, <1>8, <1>9, <1>10, <1>11, <1>12, <1>13, <1>14
        DEF Next, Works

-----------------------------------------------------------------------------
(* What is said of an attempt stays true *)

\* Only the step of a parent moves.
LEMMA ParentMoves ==
    ASSUME UpgradeInv, NEW u \in Updaters, NEW at \in {"wait", "record", "ended"},
           at = "record" => child[u] \in Ends, parent[u].at # "none",
           parent' = [parent EXCEPT ![u].at = at],
           UNCHANGED <<child, timers, running, data, code, info, backup>>
    PROVE  \A v \in Updaters : Sound(v)'
<1> SUFFICES ASSUME NEW v \in Updaters PROVE Sound(v)'
    OBVIOUS
<1>1. Sound(v) BY DEF UpgradeInv
<1>2. /\ parent'[v].at \in {parent[v].at, at} /\ (v # u => parent'[v] = parent[v])
      /\ child[v] \notin Ends => parent'[v].build = parent[v].build
                                 /\ parent'[v].remote = parent[v].remote
  <2>1. CASE v # u BY <2>1 DEF UpgradeInv, LockInv, Shapes
  <2>2. CASE v = u
    <3>1. "ended" \in Ats BY DEF Ats
    <3>2. parent[u] \in Started BY <3>1, StartedStep DEF UpgradeInv, LockInv
    <3>3. parent'[u] = [parent[u] EXCEPT !.at = at] BY DEF UpgradeInv, LockInv, Shapes
    <3> QED BY <2>2, <3>2, <3>3 DEF Started
  <2> QED BY <2>1, <2>2
<1>3. Quiet(v)' BY <1>1 DEF Sound, Quiet
<1>4. Saved(v)' BY <1>1 DEF Sound, Saved
<1>5. Decided(v)'
  <2>1. child[v] \in Unrecorded => child[v] \notin Ends BY DEF Unrecorded, Uncopied, Ends
  <2> QED BY <1>1, <1>2, <2>1 DEF Sound, Decided, Build
<1>6. AtWork(v)' BY <1>1, <1>2 DEF Sound, AtWork
<1> QED BY <1>3, <1>4, <1>5, <1>6 DEF Sound

\* Each step of a script, for itself.
LEMMA WorkIsSound ==
    ASSUME UpgradeInv, NEW u \in Updaters, Works(u)
    PROVE  Sound(u)'
<1>1. Sound(u) BY DEF UpgradeInv
<1>2. child[u] \notin Ends
  BY DEF Works, CheckInherited, BackUpCode, StopTimer, StopJob, ArmTimer, StopWeb,
         BackUpState, Migrate, Clean, CopyPart, FinalizeInstall, Restart, At, Ends
<1>3. Advance(u) => child'[u] = Following(child[u])
  BY DEF Advance, UpgradeInv, TypeOK
<1>4. parent' = parent
  BY DEF Works, CheckInherited, BackUpCode, StopTimer, StopJob, ArmTimer, StopWeb,
         BackUpState, Migrate, Clean, CopyPart, FinalizeInstall, Restart, lock
<1>5. AtWork(u)'
  <2>1. parent[u].at \notin {"none", "record"} BY <1>1, <1>2 DEF Sound, AtWork
  <2> QED BY <1>4, <2>1 DEF AtWork
<1>6. ASSUME Quiet(u)', Saved(u)', Decided(u)' PROVE Sound(u)'
  BY <1>5, <1>6 DEF Sound
<1>7. ASSUME child'[u] \notin Unrecorded \cup NoRefreshTimer \cup {"finalize"} PROVE Sound(u)'
  BY <1>6, <1>7
     DEF Quiet, Saved, Decided, Unrecorded, Uncopied, Replacing, NoRefreshTimer, NoRefreshJob,
          NoHealthTimer, NoJobs, Prepared
<1>8. CASE CheckInherited(u)
  <2>1. child'[u] = "back_up_code" /\ child[u] = "check"
    BY <1>3, <1>8, ProgramOrder DEF CheckInherited, At
  <2>2. Quiet(u)'
    BY <2>1 DEF Quiet, NoRefreshTimer, NoRefreshJob, NoHealthTimer, NoJobs, Prepared
  <2>3. Saved(u)' BY <2>1 DEF Saved, Uncopied, Replacing
  <2>4. Decided(u)' BY <1>1, <1>4, <1>8, <2>1
                    DEF CheckInherited, installed, Sound, Decided, Unrecorded, Build
  <2> QED BY <1>6, <2>2, <2>3, <2>4
<1>9. CASE BackUpCode(u)
  <2>1. child'[u] = "timer_refresh" /\ child[u] = "back_up_code"
    BY <1>3, <1>9, ProgramOrder DEF BackUpCode, At
  <2>2. Quiet(u)'
    BY <2>1 DEF Quiet, NoRefreshTimer, NoRefreshJob, NoHealthTimer, NoJobs, Prepared
  <2>3. Saved(u)'
    <3>1. backup' = [backup EXCEPT ![u].code = code, ![u].env = data.env]
          /\ code' = code /\ data' = data
      BY <1>9 DEF BackUpCode
    <3>2. backup'[u] = [backup[u] EXCEPT !.code = code, !.env = data.env]
      BY <3>1 DEF UpgradeInv
    <3>3. backup'[u].code = code /\ backup'[u].env = data.env BY <3>2 DEF UpgradeInv, Backups
    <3> QED BY <2>1, <3>1, <3>3 DEF Saved, Uncopied, Replacing
  <2>4. Decided(u)' BY <1>1, <1>4, <1>9, <2>1
                    DEF BackUpCode, Sound, Decided, Unrecorded, Uncopied, Build
  <2> QED BY <1>6, <2>2, <2>3, <2>4
<1>10. ASSUME backup' = backup, code' = code, data' = data, info' = info,
              child[u] \in Unrecorded, child'[u] \in Unrecorded,
              child'[u] \in Uncopied => child[u] \in Uncopied,
              child'[u] \notin Replacing,
              Quiet(u)'
       PROVE  Sound(u)'
  <2>1. Saved(u)' BY <1>1, <1>10 DEF Sound, Saved, Replacing
  <2>2. Decided(u)' BY <1>1, <1>4, <1>10 DEF Sound, Decided, Build
  <2> QED BY <1>6, <1>10, <2>1, <2>2
<1>11. CASE StopTimer(u, "refresh")
  <2>1. child'[u] = "job_refresh" /\ child[u] = "timer_refresh"
    BY <1>3, <1>11, ProgramOrder DEF StopTimer, At
  <2>2. Quiet(u)'
    BY <1>11, <2>1 DEF StopTimer, Quiet, NoRefreshTimer, NoRefreshJob, NoHealthTimer, NoJobs,
                       Prepared
  <2> QED BY <1>10, <1>11, <2>1, <2>2 DEF StopTimer, installed, Unrecorded, Uncopied, Replacing
<1>12. CASE StopJob(u, "refresh")
  <2>1. child'[u] = "timer_health" /\ child[u] = "job_refresh"
    BY <1>3, <1>12, ProgramOrder DEF StopJob, At
  <2>2. Quiet(u)'
    BY <1>1, <1>12, <2>1 DEF StopJob, Sound, Quiet, NoRefreshTimer, NoRefreshJob,
                             NoHealthTimer, NoJobs, Prepared
  <2> QED BY <1>10, <1>12, <2>1, <2>2 DEF StopJob, installed, Unrecorded, Uncopied, Replacing
<1>13. CASE StopTimer(u, "health")
  <2>1. child'[u] = "job_health" /\ child[u] = "timer_health"
    BY <1>3, <1>13, ProgramOrder DEF StopTimer, At
  <2>2. Quiet(u)'
    BY <1>1, <1>13, <2>1 DEF StopTimer, Sound, Quiet, NoRefreshTimer, NoRefreshJob,
                             NoHealthTimer, NoJobs, Prepared
  <2> QED BY <1>10, <1>13, <2>1, <2>2 DEF StopTimer, installed, Unrecorded, Uncopied, Replacing
<1>14. CASE StopJob(u, "health")
  <2>1. child'[u] = "web" /\ child[u] = "job_health"
    BY <1>3, <1>14, ProgramOrder DEF StopJob, At
  <2>2. Quiet(u)'
    BY <1>1, <1>14, <2>1 DEF StopJob, Sound, Quiet, NoRefreshTimer, NoRefreshJob,
                             NoHealthTimer, NoJobs, Prepared
  <2> QED BY <1>10, <1>14, <2>1, <2>2 DEF StopJob, installed, Unrecorded, Uncopied, Replacing
<1>15. CASE StopWeb(u)
  <2>1. child'[u] = "back_up_state" /\ child[u] = "web"
    BY <1>3, <1>15, ProgramOrder DEF StopWeb, At
  <2>2. Quiet(u)'
    BY <1>1, <1>15, <2>1 DEF StopWeb, Sound, Quiet, NoRefreshTimer, NoRefreshJob,
                             NoHealthTimer, NoJobs, Prepared
  <2> QED BY <1>10, <1>15, <2>1, <2>2 DEF StopWeb, installed, Unrecorded, Uncopied, Replacing
<1>16. CASE BackUpState(u)
  <2>1. child'[u] = "migrate" /\ child[u] = "back_up_state"
    BY <1>3, <1>16, ProgramOrder DEF BackUpState, At
  <2>2. Quiet(u)'
    BY <1>1, <1>16, <2>1 DEF BackUpState, units, Sound, Quiet, NoRefreshTimer, NoRefreshJob,
                             NoHealthTimer, NoJobs, Prepared
  <2>3. Saved(u)'
    <3>1. backup' = [backup EXCEPT ![u].writes = data.writes, ![u].auth = data.auth]
          /\ data' = data /\ code' = code
      BY <1>16 DEF BackUpState
    <3>2. backup'[u] = [backup[u] EXCEPT !.writes = data.writes, !.auth = data.auth]
      BY <3>1 DEF UpgradeInv
    <3>3. /\ backup'[u].writes = data.writes /\ backup'[u].auth = data.auth
          /\ backup'[u].code = backup[u].code /\ backup'[u].env = backup[u].env
      BY <3>2 DEF UpgradeInv, Backups
    <3> QED BY <1>1, <2>1, <3>1, <3>3 DEF Sound, Saved, Uncopied, Replacing
  <2>4. Decided(u)' BY <1>1, <1>4, <1>16, <2>1
                    DEF BackUpState, Sound, Decided, Unrecorded, Uncopied, Build
  <2> QED BY <1>6, <2>2, <2>3, <2>4
<1>17. CASE Migrate(u)
  <2>1. child'[u] = "clean" /\ child[u] = "migrate"
    BY <1>3, <1>17, ProgramOrder DEF Migrate, At
  <2>2. Quiet(u)'
    BY <1>1, <1>17, <2>1 DEF Migrate, units, Sound, Quiet, NoRefreshTimer, NoRefreshJob,
                             NoHealthTimer, NoJobs, Prepared
  <2>3. Saved(u)'
    <3>1. data' = [data EXCEPT !.auth = "made"] /\ backup' = backup /\ code' = code
      BY <1>17 DEF Migrate
    <3>2. data'.writes = data.writes /\ data'.auth = "made" /\ data'.env = data.env
      BY <3>1 DEF UpgradeInv, TypeOK
    <3>3. data.auth \in {"missing", "made"} BY DEF UpgradeInv, TypeOK, Auths
    <3>4. /\ backup[u].writes = data.writes /\ backup[u].auth = data.auth
          /\ backup[u].code = code /\ backup[u].env = data.env
      BY <1>1, <2>1 DEF Sound, Saved, Uncopied, Replacing
    <3> QED BY <2>1, <3>1, <3>2, <3>3, <3>4 DEF Saved
  <2>4. Decided(u)' BY <1>1, <1>4, <1>17, <2>1
                    DEF Migrate, Sound, Decided, Unrecorded, Uncopied, Build
  <2> QED BY <1>6, <2>2, <2>3, <2>4
<1>21. CASE Clean(u)
  <2>1. child'[u] = "copy" /\ child[u] = "clean"
    BY <1>3, <1>21, ProgramOrder DEF Clean, At
  <2>2. Quiet(u)'
    BY <1>1, <1>21, <2>1 DEF Clean, units, Sound, Quiet, NoRefreshTimer, NoRefreshJob,
                             NoHealthTimer, NoJobs, Prepared
  <2>3. Saved(u)'
    <3>1. data' = [data EXCEPT !.env = IF data.env = "legacy" THEN "cleaned" ELSE data.env]
          /\ backup' = backup
      BY <1>21 DEF Clean
    <3>2. /\ data'.writes = data.writes /\ data'.auth = data.auth
          /\ data.env = "legacy" \/ data'.env = data.env
      BY <3>1 DEF UpgradeInv, TypeOK
    <3>3. /\ backup[u].writes = data.writes /\ backup[u].env = data.env /\ data.auth = "made"
          /\ backup[u].auth \in {data.auth, "missing"}
      BY <1>1, <2>1 DEF Sound, Saved, Uncopied, Replacing
    <3> QED BY <2>1, <3>1, <3>2, <3>3 DEF Saved, Uncopied
  <2>4. Decided(u)' BY <1>1, <1>4, <1>21, <2>1
                    DEF Clean, Sound, Decided, Unrecorded, Uncopied, Build
  <2> QED BY <1>6, <2>2, <2>3, <2>4
<1>18. CASE CopyPart(u)
  <2>1. child[u] = "copy" /\ child'[u] \in {"copy", "finalize"}
    BY <1>3, <1>18, ProgramOrder DEF CopyPart, At
  <2>2. Quiet(u)'
    BY <1>1, <1>18, <2>1 DEF CopyPart, units, Sound, Quiet, NoRefreshTimer, NoRefreshJob,
                             NoHealthTimer, NoJobs, Prepared
  <2>3. Saved(u)' BY <1>1, <1>18, <2>1 DEF CopyPart, Sound, Saved, Uncopied, Replacing
  <2>4. Decided(u)' BY <1>1, <1>4, <1>18, <2>1
                    DEF CopyPart, Sound, Decided, Unrecorded, Uncopied, Build
  <2> QED BY <1>6, <2>2, <2>3, <2>4
<1>19. ASSUME Advance(u),
              child[u] \in {"finalize", "arm_refresh", "arm_health", "restart"}
       PROVE  Sound(u)'
  <2>1. child'[u] \in {"arm_refresh", "arm_health", "restart", "verify"}
    BY <1>3, <1>19, ProgramOrder
  <2> QED BY <1>7, <2>1 DEF Unrecorded, Uncopied, NoRefreshTimer, NoRefreshJob, NoHealthTimer,
                            NoJobs, Prepared
<1>20. CASE FinalizeInstall(u) \/ Restart(u) \/ \E j \in Jobs : ArmTimer(u, j)
  BY <1>19, <1>20 DEF FinalizeInstall, Restart, ArmTimer, Jobs, At
<1> QED BY <1>8, <1>9, <1>11, <1>12, <1>13, <1>14, <1>15, <1>16, <1>17, <1>18, <1>20,
           <1>21
        DEF Works, Jobs

\* A bootstrap goes on only with a build that is not the recorded one.
LEMMA DecideIsSound ==
    ASSUME UpgradeInv, NEW u \in Updaters, NEW downgrade \in BOOLEAN, Decide(u, downgrade)
    PROVE  \A v \in Updaters : Sound(v)'
<1>1. parent[u].at = "decide" /\ UNCHANGED <<timers, running, data, code, info, backup>>
  BY DEF Decide, units, installed
<1>2. CASE Ending(u) /\ child' = child
  <2>1. parent' = [parent EXCEPT ![u].at = "ended"] BY <1>2 DEF Ending
  <2> QED BY <1>1, <1>2, <2>1, ParentMoves
<1>3. CASE /\ parent' = [parent EXCEPT ![u].at = "wait"]
           /\ child' = [child EXCEPT ![u] = "check"]
           /\ ~(parent[u].remote /\ UpToDate(parent[u].build))
           /\ ~(parent[u].remote /\ Refused(parent[u].build, downgrade))
  <2> SUFFICES ASSUME NEW v \in Updaters PROVE Sound(v)'
      OBVIOUS
  <2>1. Sound(v) BY DEF UpgradeInv
  <2>2. CASE v # u
    <3>1. child'[v] = child[v] /\ parent'[v] = parent[v]
      BY <1>3, <2>2 DEF UpgradeInv, TypeOK, LockInv, Shapes
    <3>2. Quiet(v)' BY <1>1, <2>1, <3>1 DEF Sound, Quiet
    <3>3. Saved(v)' BY <1>1, <2>1, <3>1 DEF Sound, Saved
    <3>4. Decided(v)' BY <1>1, <2>1, <3>1 DEF Sound, Decided, Build
    <3>5. AtWork(v)' BY <2>1, <3>1 DEF Sound, AtWork
    <3> QED BY <3>2, <3>3, <3>4, <3>5 DEF Sound
  <2>3. CASE v = u
    <3>1. child'[u] = "check" BY <1>3 DEF UpgradeInv, TypeOK
    <3>2. /\ parent'[u].at = "wait" /\ parent'[u].build = parent[u].build
          /\ parent'[u].remote = parent[u].remote
      <4>1. "ended" \in Ats BY DEF Ats
      <4>2. parent[u] \in Started BY <1>1, <4>1, StartedStep DEF UpgradeInv, LockInv
      <4>3. parent'[u] = [parent[u] EXCEPT !.at = "wait"]
        BY <1>3 DEF UpgradeInv, LockInv, Shapes
      <4> QED BY <4>2, <4>3 DEF Started
    <3>3. Quiet(u)'
      BY <3>1 DEF Quiet, NoRefreshTimer, NoRefreshJob, NoHealthTimer, NoJobs, Prepared
    <3>4. Saved(u)' BY <3>1 DEF Saved, Uncopied, Replacing
    <3>5. Decided(u)'
      <4> SUFFICES ASSUME parent[u].remote, info # None, parent[u].build = info PROVE FALSE
          BY <1>1, <3>2 DEF Decided, Build
      <4>1. ~Mismatch BY <1>3 DEF Refused
      <4>2. Before = info BY DEF Before
      <4> QED BY <1>3, <4>1, <4>2 DEF UpToDate
    <3>6. AtWork(u)' BY <3>2 DEF AtWork
    <3> QED BY <2>3, <3>3, <3>4, <3>5, <3>6 DEF Sound
  <2> QED BY <2>2, <2>3
<1> QED BY <1>2, <1>3 DEF Decide

\* The service and its timers do not start what was stopped.
LEMMA ServiceIsSound ==
    ASSUME UpgradeInv, (\E j \in Jobs : Fire(j) \/ JobEnds(j)) \/ WriteState \/ Initialize
    PROVE  \A v \in Updaters : Sound(v)'
<1> SUFFICES ASSUME NEW v \in Updaters PROVE Sound(v)'
    OBVIOUS
<1>1. Sound(v) BY DEF UpgradeInv
<1>2. ASSUME NEW j \in Jobs, Fire(j) \/ JobEnds(j) PROVE Sound(v)'
  <2>1. Quiet(v)'
    <3>1. j \notin running' \/ (j \in timers /\ timers' = timers) BY <1>2 DEF Fire, JobEnds
    <3>2. \A x \in Jobs \cup {"web"} : x # j => (x \in running' <=> x \in running)
      BY <1>2 DEF Fire, JobEnds
    <3>3. child' = child /\ timers' = timers BY <1>2 DEF Fire, JobEnds
    <3> QED BY <1>1, <3>1, <3>2, <3>3 DEF Sound, Quiet, Jobs, NoRefreshTimer, NoRefreshJob,
                                          NoHealthTimer, NoJobs, Prepared
  <2>2. Saved(v)' BY <1>1, <1>2 DEF Fire, JobEnds, installed, Sound, Saved
  <2>3. Decided(v)' BY <1>1, <1>2 DEF Fire, JobEnds, installed, lock, Sound, Decided, Build
  <2>4. AtWork(v)' BY <1>1, <1>2 DEF Fire, JobEnds, lock, Sound, AtWork
  <2> QED BY <2>1, <2>2, <2>3, <2>4 DEF Sound
<1>3. CASE WriteState \/ Initialize
  <2>1. Quiet(v)' BY <1>1, <1>3 DEF WriteState, Initialize, units, Sound, Quiet
  <2>2. Saved(v)'
    <3>1. data'.env = data.env /\ UNCHANGED <<child, backup, code>>
      BY <1>3 DEF WriteState, Initialize, UpgradeInv, TypeOK
    <3>2. ASSUME child[v] \in Prepared PROVE FALSE
      <4>1. PICK x \in running : TRUE BY <1>3 DEF WriteState, Initialize
      <4>2. x \in {"refresh", "health", "web"} BY DEF UpgradeInv, TypeOK, Jobs
      <4> QED BY <1>1, <3>2, <4>1, <4>2 DEF Sound, Quiet, NoRefreshJob, NoHealthTimer, NoJobs
    <3>3. child[v] \notin Replacing BY <3>2 DEF Replacing, Prepared
    <3> QED BY <1>1, <3>1, <3>3 DEF Sound, Saved, Replacing
  <2>3. Decided(v)' BY <1>1, <1>3 DEF WriteState, Initialize, lock, Sound, Decided, Build
  <2>4. AtWork(v)' BY <1>1, <1>3 DEF WriteState, Initialize, lock, Sound, AtWork
  <2> QED BY <2>1, <2>2, <2>3, <2>4 DEF Sound
<1> QED BY <1>2, <1>3

-----------------------------------------------------------------------------
(* The credentials *)

\* A script at work has been decided on.
LEMMA WorkerWasDecided ==
    ASSUME UpgradeInv, NEW u \in Updaters, child[u] \notin Ends
    PROVE  parent[u].at \notin {"none", "decide"}
<1>1. Fresh(u) /\ child[u] # "none" BY DEF UpgradeInv, Ends
<1> QED BY <1>1 DEF Fresh

\* Nothing is backed up before it is an attempt's turn.
LEMMA WorkKeepsFresh ==
    ASSUME UpgradeInv, NEW u \in Updaters, Works(u)
    PROVE  \A v \in Updaters : Fresh(v)'
<1>1. child[u] \notin Ends
  BY DEF Works, CheckInherited, BackUpCode, StopTimer, StopJob, ArmTimer, StopWeb,
         BackUpState, Migrate, Clean, CopyPart, FinalizeInstall, Restart, At, Ends
<1>2. parent' = parent
  BY DEF Works, CheckInherited, BackUpCode, StopTimer, StopJob, ArmTimer, StopWeb,
         BackUpState, Migrate, Clean, CopyPart, FinalizeInstall, Restart, lock
<1>3. Advance(u) \/ child' = child
  BY DEF Works, CheckInherited, BackUpCode, StopTimer, StopJob, ArmTimer, StopWeb,
         BackUpState, Migrate, Clean, CopyPart, FinalizeInstall, Restart
<1>4. parent[u].at \notin {"none", "decide"} BY <1>1, WorkerWasDecided
<1>5. Fresh(u)'
  <2>1. CASE CheckInherited(u)
    <3>1. child[u] = "check" /\ child'[u] = "back_up_code" /\ backup' = backup
      BY <2>1, ProgramOrder DEF CheckInherited, At, Advance, installed, UpgradeInv, TypeOK
    <3> QED BY <1>2, <1>4, <3>1 DEF UpgradeInv, Fresh
  <2>2. CASE ~CheckInherited(u)
    <3>1. child[u] \notin {"none", "check"}
      BY <1>1, <2>2 DEF Works, CheckInherited, BackUpCode, StopTimer, StopJob, ArmTimer, StopWeb,
             BackUpState, Migrate, Clean, CopyPart, FinalizeInstall, Restart, At, Ends
    <3>2. child[u] # "back_up_code" \/ Advance(u)
      BY <2>2 DEF Works, BackUpCode, StopTimer, StopJob, ArmTimer, StopWeb,
             BackUpState, Migrate, Clean, CopyPart, FinalizeInstall, Restart, At
    <3>3. child[u] \in Steps \ Ends BY <1>1 DEF UpgradeInv, TypeOK
    <3>4. child[u] # "verify"
      BY DEF Works, CheckInherited, BackUpCode, StopTimer, StopJob, ArmTimer, StopWeb,
             BackUpState, Migrate, Clean, CopyPart, FinalizeInstall, Restart, At
    <3>5. Following(child[u]) \notin {"none", "check", "back_up_code"}
      BY <3>1, <3>3, <3>4, StepsAre, ProgramOrder DEF Ends
    <3>6. child'[u] \in {child[u], Following(child[u])}
          /\ (child[u] = "back_up_code" => child'[u] = Following(child[u]))
      BY <1>3, <3>2 DEF Advance, UpgradeInv, TypeOK
    <3>7. child'[u] \notin {"none", "check", "back_up_code"} BY <3>1, <3>5, <3>6
    <3> QED BY <1>2, <1>4, <3>7 DEF Fresh
  <2> QED BY <2>1, <2>2
<1>6. ASSUME NEW v \in Updaters, v # u PROVE Fresh(v)'
  <2>1. child'[v] = child[v] BY <1>3, <1>6 DEF Advance, UpgradeInv, TypeOK
  <2>2. backup'[v] = backup[v]
    BY <1>6 DEF Works, CheckInherited, BackUpCode, StopTimer, StopJob, ArmTimer, StopWeb,
         BackUpState, Migrate, Clean, CopyPart, FinalizeInstall, Restart, installed, UpgradeInv
  <2> QED BY <1>2, <2>1, <2>2 DEF UpgradeInv, Fresh
<1> QED BY <1>5, <1>6

LEMMA StepKeepsFresh ==
    ASSUME UpgradeInv, [Next]_vars, NEW v \in Updaters
    PROVE  Fresh(v)'
<1>1. Fresh(v) BY DEF UpgradeInv
<1>2. CASE UNCHANGED vars BY <1>1, <1>2 DEF vars, Fresh
<1>3. ASSUME NEW u \in Updaters, NEW b \in Builds, Acquire(u, b) PROVE Fresh(v)'
  <2>1. parent'[v] = parent[v] \/ parent[v].at = "none"
    BY <1>3 DEF Acquire, UpgradeInv, LockInv, Shapes
  <2> QED BY <1>1, <1>3, <2>1 DEF Acquire, installed, Fresh
<1>4. ASSUME NEW u \in Updaters, NEW downgrade \in BOOLEAN, Decide(u, downgrade)
      PROVE  Fresh(v)'
  <2>1. CASE v # u
    <3>1. parent'[v] = parent[v] /\ child'[v] = child[v] /\ backup' = backup
      BY <1>4, <2>1 DEF Decide, Ending, installed, UpgradeInv, TypeOK, LockInv, Shapes
    <3> QED BY <1>1, <3>1 DEF Fresh
  <2>2. CASE v = u
    <3>1. parent[u].at = "decide" /\ backup' = backup BY <1>4 DEF Decide, installed
    <3>2. backup[u].env = "unsaved" BY <1>1, <2>2, <3>1 DEF Fresh
    <3>3. \E at \in {"wait", "ended"} : parent' = [parent EXCEPT ![u].at = at]
      BY <1>4 DEF Decide, Ending
    <3>4. parent'[u].at \notin {"none", "decide"}
      <4>1. PICK at \in {"wait", "ended"} : parent' = [parent EXCEPT ![u].at = at] BY <3>3
      <4>2. at \in Ats BY DEF Ats
      <4>3. parent'[u] = [parent[u] EXCEPT !.at = at] BY <4>1 DEF UpgradeInv, LockInv, Shapes
      <4>4. [parent[u] EXCEPT !.at = at].at = at
        BY <3>1, <4>2, StartedStep DEF UpgradeInv, LockInv
      <4> QED BY <4>3, <4>4
    <3> QED BY <2>2, <3>1, <3>2, <3>4 DEF Fresh
  <2> QED BY <2>1, <2>2
<1>5. ASSUME NEW u \in Updaters, Return(u) \/ Record(u) \/ KillParent(u) PROVE Fresh(v)'
  <2>1. child' = child /\ backup' = backup /\ parent[u].at # "none"
    BY <1>5 DEF Return, Record, KillParent, installed
  <2>2. parent' = parent \/ \E at \in {"record", "ended"} : parent' = [parent EXCEPT ![u].at = at]
    BY <1>5 DEF Return, Record, KillParent, Ending
  <2>3. parent'[v] = parent[v] \/ parent'[v].at \in {"record", "ended"}
    <3>1. CASE parent' = parent BY <3>1
    <3>2. ASSUME NEW at \in {"record", "ended"}, parent' = [parent EXCEPT ![u].at = at]
          PROVE  parent'[v] = parent[v] \/ parent'[v].at \in {"record", "ended"}
      <4>1. CASE v # u BY <3>2, <4>1 DEF UpgradeInv, LockInv, Shapes
      <4>2. CASE v = u
        <5>1. at \in Ats BY DEF Ats
        <5>2. parent'[u] = [parent[u] EXCEPT !.at = at] BY <3>2 DEF UpgradeInv, LockInv, Shapes
        <5>3. [parent[u] EXCEPT !.at = at].at = at
          BY <2>1, <5>1, StartedStep DEF UpgradeInv, LockInv
        <5> QED BY <4>2, <5>2, <5>3
      <4> QED BY <4>1, <4>2
    <3> QED BY <2>2, <3>1, <3>2
  <2> QED BY <1>1, <2>1, <2>3 DEF Fresh
<1>6. ASSUME NEW u \in Updaters, Works(u) PROVE Fresh(v)' BY <1>6, WorkKeepsFresh
<1>7. ASSUME NEW u \in Updaters, Verify(u) \/ Fails(u) PROVE Fresh(v)'
  <2>1. /\ child[u] \notin Ends /\ parent' = parent /\ backup' = backup
        /\ Exit(u, "ended") \/ Exit(u, "failed")
    BY <1>7 DEF Verify, Fails, At, Ends, installed
  <2>2. parent[u].at \notin {"none", "decide"} BY <2>1, WorkerWasDecided
  <2>3. child'[v] = child[v] \/ (v = u /\ child'[v] \in {"ended", "failed"})
    BY <2>1 DEF Exit, UpgradeInv, TypeOK
  <2> QED BY <1>1, <2>1, <2>2, <2>3 DEF Fresh
<1>8. CASE Reboot
  <2>1. child'[v] = child[v] \/ child'[v] = "failed" BY <1>8 DEF Reboot
  <2>2. child[v] = "none" => child'[v] = "none" BY <1>8 DEF Reboot, Ends
  <2>3. parent'[v] = parent[v] \/ parent'[v].at = "ended"
    <3>1. CASE parent[v].at \in {"none", "ended"} BY <1>8, <3>1 DEF Reboot
    <3>2. CASE parent[v].at \notin {"none", "ended"}
      <4>1. parent'[v] = [parent[v] EXCEPT !.at = "ended"] BY <1>8, <3>2 DEF Reboot
      <4>2. "ended" \in Ats BY DEF Ats
      <4>3. [parent[v] EXCEPT !.at = "ended"].at = "ended"
        BY <3>2, <4>2, StartedStep DEF UpgradeInv, LockInv
      <4> QED BY <4>1, <4>3
    <3> QED BY <3>1, <3>2
  <2>4. backup' = backup BY <1>8 DEF Reboot, installed
  <2> QED BY <1>1, <2>1, <2>2, <2>3, <2>4 DEF Fresh
<1>9. CASE (\E j \in Jobs : Fire(j) \/ JobEnds(j)) \/ WriteState \/ Initialize
  BY <1>1, <1>9 DEF Fire, JobEnds, WriteState, Initialize, lock, installed, Fresh
<1> QED BY <1>2, <1>3, <1>4, <1>5, <1>6, <1>7, <1>8, <1>9 DEF Next, Works

\* The credentials are moved only where they go, and the backup that has them is
\* not written a second time.
LEMMA StepKeepsCredentials ==
    ASSUME UpgradeInv, [Next]_vars
    PROVE  CredentialsKept'
<1>1. CredentialsKept /\ data \in [writes: 0..MaxWrites, auth: Auths, env: Envs]
  BY DEF UpgradeInv, TypeOK
<1>2. ASSUME UNCHANGED <<data, backup>> PROVE CredentialsKept'
  BY <1>1, <1>2 DEF CredentialsKept, Credentials
<1>3. ASSUME data'.auth \in {data.auth, "made"}, data'.env = data.env, backup' = backup
      PROVE  CredentialsKept'
  BY <1>1, <1>3 DEF CredentialsKept, Credentials
<1>4. ASSUME NEW u \in Updaters, BackUpCode(u) PROVE CredentialsKept'
  <2>1. /\ child[u] = "back_up_code" /\ data' = data
        /\ backup' = [backup EXCEPT ![u].code = code, ![u].env = data.env]
    BY <1>4 DEF BackUpCode, At
  <2>2. Fresh(u) /\ backup \in [Updaters -> Backups] BY DEF UpgradeInv
  <2>3. backup[u].env = "unsaved" BY <2>1, <2>2 DEF Fresh
  <2>4. ASSUME NEW w \in Updaters, backup[w].env = "legacy" PROVE backup'[w].env = "legacy"
    <3>1. w # u BY <2>3, <2>4
    <3>2. backup'[w] = backup[w] BY <2>1, <2>2, <3>1
    <3> QED BY <2>4, <3>2
  <2> QED BY <1>1, <2>1, <2>4 DEF CredentialsKept, Credentials
<1>5. ASSUME NEW u \in Updaters, BackUpState(u) PROVE CredentialsKept'
  <2>1. /\ data' = data
        /\ backup' = [backup EXCEPT ![u].writes = data.writes, ![u].auth = data.auth]
    BY <1>5 DEF BackUpState
  <2>2. ASSUME NEW w \in Updaters PROVE backup'[w].env = backup[w].env
    <3>1. CASE w # u BY <2>1, <3>1 DEF UpgradeInv
    <3>2. CASE w = u
      <4>1. backup'[u] = [backup[u] EXCEPT !.writes = data.writes, !.auth = data.auth]
        BY <2>1 DEF UpgradeInv
      <4>2. backup[u] \in Backups BY DEF UpgradeInv
      <4>3. backup'[u].env = backup[u].env BY <4>1, <4>2 DEF Backups
      <4> QED BY <3>2, <4>3
    <3> QED BY <3>1, <3>2
  <2> QED BY <1>1, <2>1, <2>2 DEF CredentialsKept, Credentials
<1>6. ASSUME NEW u \in Updaters, Migrate(u) PROVE CredentialsKept'
  <2>1. data' = [data EXCEPT !.auth = "made"] /\ backup' = backup BY <1>6 DEF Migrate
  <2> QED BY <1>1, <1>3, <2>1
<1>7. ASSUME NEW u \in Updaters, Clean(u) PROVE CredentialsKept'
  <2>1. /\ child[u] = "clean" /\ backup' = backup
        /\ data' = [data EXCEPT !.env = IF data.env = "legacy" THEN "cleaned" ELSE data.env]
    BY <1>7 DEF Clean, At
  <2>2. data.auth = "made" /\ backup[u].env = data.env
    BY <2>1 DEF UpgradeInv, Sound, Saved, Uncopied
  <2>3. data'.auth = "made" BY <1>1, <2>1, <2>2
  <2>4. CASE data.env = "legacy" BY <2>1, <2>2, <2>3, <2>4 DEF CredentialsKept, Credentials
  <2>5. CASE data.env # "legacy"
    <3>1. data'.env = data.env BY <1>1, <2>1, <2>5
    <3> QED BY <1>1, <2>1, <2>3, <3>1 DEF CredentialsKept, Credentials
  <2> QED BY <2>4, <2>5
<1>8. CASE WriteState \/ Initialize
  <2>1. data'.auth \in {data.auth, "made"} /\ data'.env = data.env /\ backup' = backup
    BY <1>1, <1>8 DEF WriteState, Initialize
  <2> QED BY <1>3, <2>1
<1>9. CASE \/ UNCHANGED vars \/ Reboot \/ \E j \in Jobs : Fire(j) \/ JobEnds(j)
           \/ \E u \in Updaters :
                \/ \E b \in Builds : Acquire(u, b)
                \/ \E downgrade \in BOOLEAN : Decide(u, downgrade)
                \/ Return(u) \/ Record(u) \/ CheckInherited(u)
                \/ \E j \in Jobs : StopTimer(u, j) \/ StopJob(u, j) \/ ArmTimer(u, j)
                \/ StopWeb(u) \/ CopyPart(u) \/ FinalizeInstall(u) \/ Restart(u)
                \/ Verify(u) \/ Fails(u) \/ KillParent(u)
  <2>1. UNCHANGED <<data, backup>>
    BY <1>9 DEF vars, Reboot, Fire, JobEnds, Acquire, Decide, Return, Record, CheckInherited,
           StopTimer, StopJob, ArmTimer, StopWeb, CopyPart, FinalizeInstall, Restart, Verify,
           Fails, KillParent, installed
  <2> QED BY <1>2, <2>1
<1> QED BY <1>4, <1>5, <1>6, <1>7, <1>8, <1>9 DEF Next

-----------------------------------------------------------------------------

LEMMA StepKeepsUpgrade ==
    ASSUME BuildsAssumption, BoundsAssumption
    PROVE  UpgradeInv /\ [Next]_vars => UpgradeInv'
<1> SUFFICES ASSUME UpgradeInv, [Next]_vars PROVE UpgradeInv'
    OBVIOUS
<1>1. LockInv' BY StepKeepsLock DEF UpgradeInv
<1>2. StoreTypes' BY StepKeepsTypes
<1>3. TypeOK' /\ (backup \in [Updaters -> Backups])'
  <2>1. Shapes' BY <1>1 DEF LockInv
  <2>2. TypeOK' BY <1>2, <2>1, TypesFollow, PTL
  <2> QED BY <1>2, <2>2 DEF StoreTypes
<1>4. (\A u \in Updaters : Sound(u))'
  <2> DEFINE Goal == \A u \in Updaters : Sound(u)'
  <2>1. CASE UNCHANGED vars
    BY <2>1 DEF vars, UpgradeInv, Sound, Quiet, Saved, Decided, AtWork, Build, Ends
  <2>2. ASSUME NEW u \in Updaters, NEW b \in Builds, Acquire(u, b) PROVE Goal
    <3> SUFFICES ASSUME NEW v \in Updaters PROVE Sound(v)'
        OBVIOUS
    <3>1. child'[v] \in Ends BY <2>2 DEF Acquire, UpgradeInv, LockInv, ChildHolds
    <3> QED BY <3>1, EndsAreSound
  <2>3. ASSUME NEW u \in Updaters, NEW downgrade \in BOOLEAN, Decide(u, downgrade) PROVE Goal
    BY <2>3, DecideIsSound
  <2>4. ASSUME NEW u \in Updaters, Return(u) \/ KillParent(u) PROVE Goal
    <3>1. /\ UNCHANGED <<child, timers, running, data, code, info, backup>>
          /\ parent[u].at # "none"
          /\ \E at \in {"record", "ended"} :
                /\ parent' = [parent EXCEPT ![u].at = at]
                /\ at = "record" => child[u] \in Ends
      BY <2>4 DEF Return, KillParent, Ending, units, installed, Ends
    <3> QED BY <3>1, ParentMoves
  <2>5. ASSUME NEW u \in Updaters, Record(u) PROVE Goal
    <3> SUFFICES ASSUME NEW v \in Updaters PROVE Sound(v)'
        OBVIOUS
    <3>1. child'[v] \in Ends BY <2>5, WorkerIsAlone DEF Record
    <3> QED BY <3>1, EndsAreSound
  <2>6. ASSUME NEW u \in Updaters, Works(u) PROVE Goal
    <3>1. Sound(u)' BY <2>6, WorkIsSound
    <3>2. Advance(u) \/ child' = child
      BY <2>6 DEF Works, CheckInherited, BackUpCode, StopTimer, StopJob, ArmTimer, StopWeb,
             BackUpState, Migrate, Clean, CopyPart, FinalizeInstall, Restart
    <3>3. child[u] \notin Ends
      BY <2>6 DEF Works, CheckInherited, BackUpCode, StopTimer, StopJob, ArmTimer, StopWeb,
             BackUpState, Migrate, Clean, CopyPart, FinalizeInstall, Restart, At, Ends
    <3>4. child' = [child EXCEPT ![u] = Following(child[u])]
          \/ child' = [child EXCEPT ![u] = child[u]]
      BY <3>2 DEF Advance, UpgradeInv, TypeOK
    <3> QED BY <3>1, <3>3, <3>4, WorkerStep
  <2>7. ASSUME NEW u \in Updaters, Verify(u) \/ Fails(u) PROVE Goal
    <3>1. child[u] \notin Ends /\ (Exit(u, "ended") \/ Exit(u, "failed"))
      BY <2>7 DEF Verify, Fails, At, Ends
    <3>2. child'[u] \in Ends BY <3>1 DEF Exit, UpgradeInv, TypeOK, Ends
    <3>3. Sound(u)' BY <3>2, EndsAreSound
    <3> QED BY <3>1, <3>3, WorkerStep DEF Exit
  <2>8. CASE Reboot
    <3> SUFFICES ASSUME NEW v \in Updaters PROVE Sound(v)'
        OBVIOUS
    <3>1. child'[v] \in Ends BY <2>8 DEF Reboot, Ends
    <3> QED BY <3>1, EndsAreSound
  <2>9. CASE (\E j \in Jobs : Fire(j) \/ JobEnds(j)) \/ WriteState \/ Initialize
    BY <2>9, ServiceIsSound
  <2> QED BY <2>1, <2>2, <2>3, <2>4, <2>5, <2>6, <2>7, <2>8, <2>9 DEF Next, Works
<1>5. (\A u \in Updaters : Fresh(u))' BY StepKeepsFresh
<1>6. CredentialsKept' BY StepKeepsCredentials
<1> QED BY <1>1, <1>3, <1>4, <1>5, <1>6 DEF UpgradeInv

\* A backup of what is replaced, made when only the migration still writes, the
\* credentials, and a decision that is as true as when it was made.
LEMMA UpgradeFollows == UpgradeInv => TypeOK /\ UpgradesSound
<1> SUFFICES ASSUME UpgradeInv PROVE TypeOK /\ UpgradesSound
    OBVIOUS
<1>1. BackupIsWhatWasReplaced BY DEF UpgradeInv, Sound, Saved, Uncopied, Replacing,
                                       BackupIsWhatWasReplaced, Envs, TypeOK
<1>2. RepeatedAttemptGoesOn
  <2> SUFFICES ASSUME NEW u \in Updaters, At(u, "copy"), parent[u].remote, info # None,
                      UpToDate(Build(u))
               PROVE  FALSE
      BY DEF RepeatedAttemptGoesOn
  <2>1. Build(u) # info BY DEF UpgradeInv, Sound, Decided, Unrecorded, At
  <2> QED BY <2>1 DEF UpToDate, Before
<1>3. OneUpgrade BY OneUpgradeFollows DEF UpgradeInv
<1> QED BY <1>1, <1>2, <1>3 DEF UpgradesSound, CutOffIsRecoverable, UpgradeInv

\* Two upgrades never work at once, and wherever one is cut off there is a backup
\* of what it was replacing or migrating, and a way to go on.
THEOREM UpgradesAlwaysSound ==
    ASSUME BuildsAssumption, BoundsAssumption
    PROVE  Spec => [](TypeOK /\ UpgradesSound)
<1>1. Init => UpgradeInv
  <2> SUFFICES ASSUME Init PROVE UpgradeInv
      OBVIOUS
  <2>1. LockInv /\ StoreTypes BY InitLock, InitTypes
  <2>2. TypeOK BY <2>1, TypesFollow DEF LockInv
  <2>3. ASSUME NEW u \in Updaters PROVE Sound(u)
    <3>1. child[u] = "none" BY DEF Init
    <3> QED BY <3>1 DEF Sound, Quiet, Saved, Decided, AtWork, Ends, Unrecorded, Uncopied, Replacing,
                        NoRefreshTimer, NoRefreshJob, NoHealthTimer, NoJobs, Prepared
  <2>4. ASSUME NEW u \in Updaters PROVE Fresh(u)
    BY DEF Init, Untouched, Fresh
  <2>5. CredentialsKept
    <3>1. data \in [writes: {0}, auth: Auths, env: {"legacy", "clean"}] /\ Credentials
      BY DEF Init
    <3> QED BY <3>1 DEF CredentialsKept
  <2> QED BY <2>1, <2>2, <2>3, <2>4, <2>5 DEF StoreTypes, UpgradeInv
<1>2. UpgradeInv /\ [Next]_vars => UpgradeInv' BY StepKeepsUpgrade
<1>3. UpgradeInv => TypeOK /\ UpgradesSound BY UpgradeFollows
<1> QED BY <1>1, <1>2, <1>3, PTL DEF Spec

=============================================================================
