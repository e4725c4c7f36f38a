------------------------ MODULE TemporaryLinksProofs ------------------------
(***************************************************************************)
(* Links end with their outputs and live their time, and a cleanup that scans *)
(* everything leaves nothing old, for any number of workers, outputs, links,  *)
(* faults and times.                                                         *)
(*                                                                         *)
(* LinksInv is inductive.  Beside the types it says that a name is used once *)
(* and what is being revoked is gone for good, that one cleanup goes on at a  *)
(* time, and that it has met, or has still before it, every file that was old *)
(* when it read the time, unless its scan was cut short.  Naming, beside it,  *)
(* says that an output has two names while it is published, and only then or  *)
(* since its publication was stopped.                                        *)
(***************************************************************************)
EXTENDS TemporaryLinks, TLAPS

-----------------------------------------------------------------------------
(* The invariant *)

Moments == 0..clock
Files == [at: Moments, twice: BOOLEAN]
Entries ==
    {Free, Ended} \cup
    {e \in [state: {"live"}, file: Names, created: Moments, expires: Nat] :
        e.expires = e.created + Lifetime}
Sweeps == [mode: {"sweep", "swept"}, now: Moments, seen: SUBSET Names, passed: SUBSET Names,
           cut: BOOLEAN]
WorkStates ==
    {Idle} \cup Sweeps \cup [mode: {"named"}, file: Names]
    \cup [mode: {"link"}, file: Names, now: Moments]
    \cup [mode: {"resolve"}, id: Ids, now: Moments]
    \cup [mode: {"serve"}, file: Names] \cup [mode: {"clean"}, now: Moments]
    \cup [mode: {"revoke"}, file: Names, rest: {Idle} \cup Sweeps]
LinkTypes ==
    /\ clock \in 0..MaxClock /\ marker \in -1..MaxClock /\ faults \in 0..MaxFaults
    /\ outputs \in [Names -> {None} \cup Files]
    /\ links \in [Ids -> Entries]
    /\ work \in [Workers -> WorkStates]

\* Names are used once, and what is being revoked is gone for good.
UsedOnce ==
    /\ \A f \in Names : Present(f) => f \in used
    /\ \A w \in Workers : Does(w, "revoke") =>
           work[w].file \in used /\ ~Present(work[w].file)

\* One cleanup at a time, which has met every file that was old when it read the
\* time or has it still before it, unless its scan was cut short.
OneCleanup == \A v, w \in Workers : Cleaning(v) /\ Cleaning(w) => v = w
Met(files, sweep) ==
    /\ ~sweep.cut =>
         \A f \in Names : files[f] # None /\ sweep.now - files[f].at >= Retention =>
             f \in sweep.seen \cup sweep.passed
    /\ sweep.mode = "swept" => sweep.seen = {}
SweepsMeet ==
    \A w \in Workers :
        /\ work[w] \in Sweeps => Met(outputs, work[w])
        /\ Does(w, "revoke") /\ work[w].rest \in Sweeps => Met(outputs, work[w].rest)

LinksInv ==
    LinkTypes /\ UsedOnce /\ OneCleanup /\ SweepsMeet /\ LinksEndWithOutput

\* Pruning ends or drops only links whose time is over, and makes none.
LEMMA PruningsEnd ==
    ASSUME NEW now, NEW table \in Prunings(links, now), links \in [Ids -> Entries]
    PROVE  /\ table \in [Ids -> Entries]
           /\ \A id \in Ids : IsLive(id) /\ table[id] # links[id] => links[id].expires <= now
           /\ \A id \in Ids : table[id].state = "live" =>
                  table[id] = links[id] /\ ~(table[id].expires <= now)
<1> DEFINE ended == [id \in Ids |-> IF Expired(links[id], now) THEN Ended ELSE links[id]]
           tombs == {id \in Ids : ended[id] = Ended}
<1>1. \/ table = ended
      \/ \E gone \in SUBSET tombs : table = Without(ended, gone)
  BY DEF Prunings, kSubset
<1>2. Free \in Entries /\ Ended \in Entries /\ Free.state = "free" /\ Ended.state = "ended"
  BY DEF Entries, Free, Ended
<1>3. ended \in [Ids -> Entries] BY <1>2
<1>4. \A id \in Ids : /\ IsLive(id) /\ ended[id] # links[id] => links[id].expires <= now
                      /\ ended[id].state = "live" =>
                             ended[id] = links[id] /\ ~(links[id].expires <= now)
                      /\ IsLive(id) /\ ended[id] = Ended => links[id].expires <= now
  BY <1>2 DEF Expired, IsLive
<1> HIDE DEF ended
<1>5. CASE table = ended BY <1>3, <1>4, <1>5
<1>6. CASE \E gone \in SUBSET tombs : table = Without(ended, gone)
  <2>1. PICK gone \in SUBSET tombs : table = Without(ended, gone) BY <1>6
  <2>2. \A id \in Ids : table[id] = IF id \in gone THEN Free ELSE ended[id]
    BY <2>1 DEF Without
  <2>3. table \in [Ids -> Entries] BY <1>2, <1>3, <2>1 DEF Without
  <2>4. \A id \in gone : ended[id] = Ended BY <2>1
  <2> QED BY <1>2, <1>4, <2>2, <2>3, <2>4
<1> QED BY <1>1, <1>5, <1>6

LEMMA InitLinks ==
    ASSUME LinksAssumption, BoundsAssumption, Init
    PROVE  LinksInv
<1>1. LinkTypes
  <2>1. 0 \in 0..MaxClock /\ -1 \in -1..MaxClock /\ 0 \in 0..MaxFaults BY DEF BoundsAssumption
  <2>2. outputs \in [Names -> {None} \cup Files] BY DEF Init
  <2>3. links \in [Ids -> Entries] BY DEF Init, Entries
  <2>4. work \in [Workers -> WorkStates] BY DEF Init, WorkStates
  <2> QED BY <2>1, <2>2, <2>3, <2>4 DEF Init, LinkTypes
<1>2. \A w \in Workers : work[w] = Idle /\ Idle.mode = "idle" BY DEF Init, Idle
<1>3. UsedOnce BY <1>2 DEF Init, UsedOnce, Present, Does
<1>4. OneCleanup BY <1>2 DEF OneCleanup, Cleaning, Does
<1>5. SweepsMeet
  <2>1. \A f \in Names : ~Present(f) BY DEF Init, Present
  <2>2. Idle \notin Sweeps BY DEF Idle, Sweeps
  <2> QED BY <1>2, <2>1, <2>2 DEF SweepsMeet, Does
<1>6. LinksEndWithOutput BY DEF Init, LinksEndWithOutput, IsLive, Free
<1> QED BY <1>1, <1>3, <1>4, <1>5, <1>6 DEF LinksInv

-----------------------------------------------------------------------------
(* Types *)

\* What was typed before a tick is typed after it.
LEMMA SetsGrow ==
    ASSUME clock \in Nat, clock' \in {clock, clock + 1}
    PROVE  /\ Moments \subseteq Moments' /\ Files \subseteq Files' /\ Entries \subseteq Entries'
           /\ Sweeps \subseteq Sweeps' /\ WorkStates \subseteq WorkStates'
<1>1. Moments \subseteq Moments' BY DEF Moments
<1>2. Files \subseteq Files' BY <1>1 DEF Files
<1>3. Entries \subseteq Entries' BY <1>1 DEF Entries, Free, Ended
<1>4. Sweeps \subseteq Sweeps' BY <1>1 DEF Sweeps
<1>5. WorkStates \subseteq WorkStates' BY <1>1, <1>4 DEF WorkStates, Idle
<1> QED BY <1>1, <1>2, <1>3, <1>4, <1>5

\* What a worker that is at work knows.
LEMMA Known ==
    ASSUME LinkTypes, NEW w \in Workers
    PROVE  /\ Does(w, "named") => work[w].file \in Names
           /\ Does(w, "link") => work[w].file \in Names /\ work[w].now \in Moments
           /\ Does(w, "resolve") => work[w].id \in Ids /\ work[w].now \in Moments
           /\ Does(w, "clean") => work[w].now \in Moments
           /\ Does(w, "revoke") => work[w].file \in Names
                                   /\ work[w].rest \in {Idle} \cup Sweeps
           /\ Does(w, "sweep") \/ Does(w, "swept") => work[w] \in Sweeps
           /\ work[w] \in Sweeps => Does(w, "sweep") \/ Does(w, "swept")
           /\ Does(w, "idle") => work[w] = Idle
<1>1. work[w] \in WorkStates BY DEF LinkTypes
<1>2. Idle.mode = "idle" BY DEF Idle
<1>3. CASE work[w] = Idle BY <1>2, <1>3 DEF Does, Sweeps
<1>4. CASE work[w] \in Sweeps BY <1>4 DEF Does, Sweeps
<1>5. CASE work[w] \in [mode: {"named"}, file: Names] BY <1>5 DEF Does, Sweeps
<1>6. CASE work[w] \in [mode: {"link"}, file: Names, now: Moments] BY <1>6 DEF Does, Sweeps
<1>7. CASE work[w] \in [mode: {"resolve"}, id: Ids, now: Moments] BY <1>7 DEF Does, Sweeps
<1>8. CASE work[w] \in [mode: {"revoke"}, file: Names, rest: {Idle} \cup Sweeps]
  BY <1>8 DEF Does, Sweeps
<1>9. CASE work[w] \in [mode: {"serve"}, file: Names] BY <1>9 DEF Does, Sweeps
<1>10. CASE work[w] \in [mode: {"clean"}, now: Moments] BY <1>10 DEF Does, Sweeps
<1> QED BY <1>1, <1>3, <1>4, <1>5, <1>6, <1>7, <1>8, <1>9, <1>10 DEF WorkStates

\* A worker takes a step to another state of the right type.
LEMMA WorkerMoves ==
    ASSUME LinkTypes, NEW w \in Workers, NEW state \in WorkStates, To(w, state)
    PROVE  /\ work' \in [Workers -> WorkStates] /\ work'[w] = state
           /\ \A v \in Workers \ {w} : work'[v] = work[v]
BY DEF LinkTypes, To

\* An output that comes is of this moment; the others stay what they are or go.
Come(old, new) ==
    \A f \in Names : new[f] # None =>
        new[f].at = clock \/ (old[f] # None /\ new[f].at = old[f].at)
LEMMA StepTypes ==
    ASSUME LinkTypes, clock' = clock, NEW w \in Workers, NEW state \in WorkStates, To(w, state),
           marker' \in -1..MaxClock, faults' \in 0..MaxFaults,
           outputs' \in [Names -> {None} \cup Files], links' \in [Ids -> Entries]
    PROVE  LinkTypes'
<1>1. clock \in Nat BY DEF LinkTypes
<1>2. /\ Files \subseteq Files' /\ Entries \subseteq Entries' /\ WorkStates \subseteq WorkStates'
  BY <1>1, SetsGrow
<1>3. work' \in [Workers -> WorkStates] BY WorkerMoves
<1> QED BY <1>2, <1>3 DEF LinkTypes

-----------------------------------------------------------------------------
(* What a worker's step has to do to keep each part of the invariant. *)

LEMMA KeepsUsedOnce ==
    ASSUME LinkTypes, UsedOnce, NEW w \in Workers, NEW state \in WorkStates, To(w, state),
           used \subseteq used',
           \A f \in Names : outputs'[f] # None =>
               outputs[f] # None \/ (f \in used' /\ f \notin used),
           state.mode = "revoke" => state.file \in used' /\ outputs'[state.file] = None
    PROVE  UsedOnce'
<1>1. work'[w] = state /\ \A v \in Workers \ {w} : work'[v] = work[v] BY WorkerMoves
<1>2. \A f \in Names : outputs'[f] # None => f \in used' BY DEF UsedOnce, Present
<1>3. ASSUME NEW v \in Workers, work'[v].mode = "revoke"
      PROVE  work'[v].file \in used' /\ outputs'[work'[v].file] = None
  <2>1. CASE v = w BY <1>1, <1>3, <2>1
  <2>2. CASE v # w
    <3>1. work'[v] = work[v] BY <1>1, <2>2
    <3>2. work[v].file \in used /\ outputs[work[v].file] = None /\ work[v].file \in Names
      BY <1>3, <3>1, Known DEF UsedOnce, Does, Present
    <3> QED BY <3>1, <3>2
  <2> QED BY <2>1, <2>2
<1> QED BY <1>2, <1>3 DEF UsedOnce, Present, Does

\* A state of a worker in the middle of a cleanup.
OfCleanup(state) ==
    state.mode \in {"sweep", "swept"} \/ (state.mode = "revoke" /\ state.rest # Idle)
LEMMA KeepsOneCleanup ==
    ASSUME LinkTypes, OneCleanup, NEW w \in Workers, NEW state \in WorkStates, To(w, state),
           OfCleanup(state) => Cleaning(w) \/ \A v \in Workers : ~Cleaning(v)
    PROVE  OneCleanup'
<1>1. work'[w] = state /\ \A v \in Workers \ {w} : work'[v] = work[v] BY WorkerMoves
<1>2. Cleaning(w)' <=> OfCleanup(state) BY <1>1 DEF Cleaning, OfCleanup, Does
<1>3. ASSUME NEW v \in Workers \ {w} PROVE Cleaning(v)' <=> Cleaning(v)
  BY <1>1 DEF Cleaning, Does
<1> QED BY <1>2, <1>3 DEF OneCleanup

LEMMA MetKept ==
    ASSUME LinksAssumption, LinkTypes, NEW sweep \in Sweeps, Met(outputs, sweep),
           NEW files \in [Names -> {None} \cup Files], Come(outputs, files)
    PROVE  Met(files, sweep)
<1>1. sweep.now \in Nat /\ sweep.now <= clock /\ Retention \in Nat \ {0} /\ clock \in Nat
  BY DEF LinksAssumption, LinkTypes, Sweeps, Moments
<1>2. ASSUME NEW f \in Names, files[f] # None, sweep.now - files[f].at >= Retention, ~sweep.cut
      PROVE  f \in sweep.seen \cup sweep.passed
  <2>1. files[f].at # clock BY <1>1, <1>2
  <2>2. outputs[f] # None /\ outputs[f].at = files[f].at BY <1>2, <2>1 DEF Come
  <2> QED BY <1>2, <2>2 DEF Met
<1> QED BY <1>2 DEF Met

LEMMA KeepsSweepsMeet ==
    ASSUME LinksAssumption, LinkTypes, SweepsMeet, clock' = clock, NEW w \in Workers,
           NEW state \in WorkStates, To(w, state),
           outputs' \in [Names -> {None} \cup Files], Come(outputs, outputs'),
           state \in Sweeps => Met(outputs', state),
           state.mode = "revoke" /\ state.rest \in Sweeps => Met(outputs', state.rest)
    PROVE  SweepsMeet'
<1>1. work'[w] = state /\ \A v \in Workers \ {w} : work'[v] = work[v] BY WorkerMoves
<1>2. Sweeps' = Sweeps BY DEF Sweeps, Moments
<1>3. ASSUME NEW v \in Workers
      PROVE  /\ work'[v] \in Sweeps => Met(outputs', work'[v])
             /\ work'[v].mode = "revoke" /\ work'[v].rest \in Sweeps =>
                    Met(outputs', work'[v].rest)
  <2>1. CASE v = w BY <1>1, <2>1
  <2>2. CASE v # w
    <3>1. work'[v] = work[v] BY <1>1, <2>2
    <3>2. work[v] \in Sweeps => Met(outputs', work[v]) BY MetKept DEF SweepsMeet
    <3>3. work[v].mode = "revoke" /\ work[v].rest \in Sweeps => Met(outputs', work[v].rest)
      BY MetKept DEF SweepsMeet, Does
    <3> QED BY <3>1, <3>2, <3>3
  <2> QED BY <2>1, <2>2
<1>4. \A s : Met(outputs, s)' <=> Met(outputs', s) BY DEF Met
<1> QED BY <1>2, <1>3 DEF SweepsMeet, Does, Met

\* Of links, those that come have their file or are spared; of files, those that
\* go are about to be revoked, and a revocation is done or spared.
LEMMA KeepsEnds ==
    ASSUME LinkTypes, LinksEndWithOutput, NEW w \in Workers, NEW state \in WorkStates,
           To(w, state), spared \subseteq spared', links' \in [Ids -> Entries],
           \A id \in Ids : links'[id].state = "live" =>
               \/ links'[id] = links[id]
               \/ outputs'[links'[id].file] # None \/ links'[id].file \in spared',
           \A f \in Names : outputs[f] # None /\ outputs'[f] = None =>
               state.mode = "revoke" /\ state.file = f,
           Does(w, "revoke") =>
               \/ work[w].file \in spared'
               \/ \A id \in Ids : links'[id].state = "live" => links'[id].file # work[w].file
    PROVE  LinksEndWithOutput'
<1>1. work'[w] = state /\ \A v \in Workers \ {w} : work'[v] = work[v] BY WorkerMoves
<1> SUFFICES ASSUME NEW id \in Ids, links'[id].state = "live", outputs'[links'[id].file] = None,
                    links'[id].file \notin spared'
             PROVE  \E v \in Workers : work'[v].mode = "revoke" /\ work'[v].file = links'[id].file
    BY DEF LinksEndWithOutput, IsLive, Present, Does
<1>2. links'[id] = links[id] OBVIOUS
<1>3. links[id].file \in Names
  <2>1. links[id] \in Entries BY DEF LinkTypes
  <2> QED BY <1>2, <2>1 DEF Entries, Free, Ended
<1>4. CASE outputs[links[id].file] # None BY <1>1, <1>2, <1>3, <1>4
<1>5. CASE outputs[links[id].file] = None
  <2>1. PICK v \in Workers : Does(v, "revoke") /\ work[v].file = links[id].file
    BY <1>2, <1>5 DEF LinksEndWithOutput, IsLive, Present
  <2>2. v # w BY <1>2, <2>1
  <2> QED BY <1>1, <1>2, <2>1, <2>2 DEF Does
<1> QED BY <1>4, <1>5

-----------------------------------------------------------------------------
(* The steps of a generation *)

LEMMA Times ==
    ASSUME LinksAssumption, LinkTypes
    PROVE  /\ clock \in Nat /\ clock \in Moments /\ Lifetime \in Nat
           /\ \A w \in Workers : work[w].mode \in {"link", "resolve"} => work[w].now \in Moments
BY Known DEF LinksAssumption, LinkTypes, Moments, Does

LEMMA PublishKeeps ==
    ASSUME LinksAssumption, LinksInv, NEW w \in Workers, NEW f \in Names, Publish(w, f)
    PROVE  LinksInv'
<1> DEFINE state == [mode |-> "named", file |-> f]
<1>1. LinkTypes /\ UsedOnce /\ OneCleanup /\ SweepsMeet /\ LinksEndWithOutput BY DEF LinksInv
<1>2. state \in WorkStates /\ state \notin Sweeps /\ ~OfCleanup(state) /\ state.mode # "revoke"
  BY DEF WorkStates, Sweeps, OfCleanup
<1>3. To(w, state) BY DEF Publish
<1>4. work[w].mode = "idle" BY DEF Publish, Does
<1> HIDE DEF state
<1>5. [at |-> clock, twice |-> TRUE] \in Files BY <1>1, Times DEF Files
<1>6. outputs' \in [Names -> {None} \cup Files] BY <1>1, <1>5 DEF LinkTypes, Publish
<1>7. /\ outputs'[f].at = clock /\ outputs'[f] # None
      /\ \A g \in Names \ {f} : outputs'[g] = outputs[g]
  <2>1. outputs'[f] = [at |-> clock, twice |-> TRUE] BY <1>1 DEF LinkTypes, Publish
  <2>2. [at |-> clock, twice |-> TRUE] \in [at: Nat, twice: BOOLEAN] BY <1>1, Times
  <2>3. outputs'[f] # None BY <2>1, <2>2 DEF LinksAssumption
  <2> QED BY <1>1, <2>1, <2>3 DEF LinkTypes, Publish
<1>8. LinkTypes' BY <1>1, <1>2, <1>3, <1>6, StepTypes DEF Publish, LinkTypes
<1>9. UsedOnce' BY <1>1, <1>2, <1>3, <1>7, KeepsUsedOnce DEF Publish
<1>10. OneCleanup' BY <1>1, <1>2, <1>3, KeepsOneCleanup
<1>11. SweepsMeet'
  <2>1. Come(outputs, outputs') BY <1>7 DEF Come
  <2> QED BY <1>1, <1>2, <1>3, <1>6, <2>1, KeepsSweepsMeet DEF Publish
<1>12. LinksEndWithOutput'
  BY <1>1, <1>2, <1>3, <1>4, <1>7, KeepsEnds DEF Publish, LinkTypes, Does
<1> QED BY <1>8, <1>9, <1>10, <1>11, <1>12 DEF LinksInv

LEMMA DropKeeps ==
    ASSUME LinksAssumption, LinksInv, NEW w \in Workers, DropTemporary(w)
    PROVE  LinksInv'
<1> DEFINE f == work[w].file
           state == [mode |-> "link", file |-> f, now |-> clock]
<1>1. LinkTypes /\ UsedOnce /\ OneCleanup /\ SweepsMeet /\ LinksEndWithOutput BY DEF LinksInv
<1>2. f \in Names BY <1>1, Known DEF DropTemporary
<1>3. state \in WorkStates /\ state \notin Sweeps /\ ~OfCleanup(state) /\ state.mode # "revoke"
  BY <1>1, <1>2, Times DEF WorkStates, Sweeps, OfCleanup
<1>4. To(w, state) BY DEF DropTemporary
<1>5. work[w].mode = "named" BY DEF DropTemporary, Does
<1>6. /\ outputs' \in [Names -> {None} \cup Files]
      /\ \A g \in Names : (outputs'[g] = None <=> outputs[g] = None)
                           /\ (outputs[g] # None => outputs'[g].at = outputs[g].at)
  <2>1. CASE outputs[f] = None BY <1>1, <2>1 DEF DropTemporary, LinkTypes, Present
  <2>2. CASE outputs[f] # None
    <3> DEFINE new == [outputs[f] EXCEPT !.twice = FALSE]
    <3>1. outputs' = [outputs EXCEPT ![f] = new] BY <2>2 DEF DropTemporary, Present
    <3>2. outputs[f] \in Files BY <1>1, <1>2, <2>2 DEF LinkTypes
    <3>3. new \in Files /\ new.at = outputs[f].at BY <3>2 DEF Files
    <3>4. new # None
      <4>1. new \in [at: Nat, twice: BOOLEAN] BY <1>1, <3>3, Times DEF Files, Moments
      <4> QED BY <4>1 DEF LinksAssumption
    <3> HIDE DEF new
    <3> QED BY <1>1, <1>2, <2>2, <3>1, <3>3, <3>4 DEF LinkTypes
  <2> QED BY <2>1, <2>2
<1> HIDE DEF state, f
<1>7. LinkTypes' BY <1>1, <1>3, <1>4, <1>6, StepTypes DEF DropTemporary, LinkTypes
<1>8. UsedOnce' BY <1>1, <1>3, <1>4, <1>6, KeepsUsedOnce DEF DropTemporary, history
<1>9. OneCleanup' BY <1>1, <1>3, <1>4, KeepsOneCleanup
<1>10. SweepsMeet'
  <2>1. Come(outputs, outputs') BY <1>6 DEF Come
  <2> QED BY <1>1, <1>3, <1>4, <1>6, <2>1, KeepsSweepsMeet DEF DropTemporary
<1>11. LinksEndWithOutput'
  BY <1>1, <1>3, <1>4, <1>5, <1>6, KeepsEnds DEF DropTemporary, LinkTypes, history, Does
<1> QED BY <1>7, <1>8, <1>9, <1>10, <1>11 DEF LinksInv

\* The steps that leave the outputs alone, and go to a state that is no cleanup.
LEMMA QuietKeeps ==
    ASSUME LinksAssumption, LinksInv, NEW w \in Workers, NEW state \in WorkStates,
           To(w, state), UNCHANGED <<clock, outputs, used>>,
           state \in Sweeps => Met(outputs, state), state.mode # "revoke",
           OfCleanup(state) => Cleaning(w) \/ \A v \in Workers : ~Cleaning(v),
           marker' \in -1..MaxClock, faults' \in 0..MaxFaults,
           spared \subseteq spared', links' \in [Ids -> Entries],
           \A id \in Ids : links'[id].state = "live" =>
               \/ links'[id] = links[id]
               \/ outputs[links'[id].file] # None \/ links'[id].file \in spared',
           Does(w, "revoke") =>
               \/ work[w].file \in spared'
               \/ \A id \in Ids : links'[id].state = "live" => links'[id].file # work[w].file
    PROVE  LinksInv'
<1>1. LinkTypes /\ UsedOnce /\ OneCleanup /\ SweepsMeet /\ LinksEndWithOutput BY DEF LinksInv
<1>2. outputs' \in [Names -> {None} \cup Files] BY <1>1 DEF LinkTypes
<1>3. LinkTypes' BY <1>1, <1>2, StepTypes
<1>4. UsedOnce' BY <1>1, KeepsUsedOnce
<1>5. OneCleanup' BY <1>1, KeepsOneCleanup
<1>6. SweepsMeet'
  <2>1. Come(outputs, outputs') BY DEF Come
  <2> QED BY <1>1, <1>2, <2>1, KeepsSweepsMeet
<1>7. LinksEndWithOutput' BY <1>1, KeepsEnds
<1> QED BY <1>3, <1>4, <1>5, <1>6, <1>7 DEF LinksInv

LEMMA IdleIsQuiet ==
    /\ Idle \in WorkStates /\ Idle \notin Sweeps /\ Idle.mode = "idle" /\ ~OfCleanup(Idle)
BY DEF Idle, WorkStates, Sweeps, OfCleanup

LEMMA CreateKeeps ==
    ASSUME LinksAssumption, LinksInv, NEW w \in Workers, Create(w)
    PROVE  LinksInv'
<1>1. LinkTypes BY DEF LinksInv
<1> DEFINE file == work[w].file
           now == work[w].now
<1>2. file \in Names /\ now \in Moments /\ work[w].mode = "link"
  BY <1>1, Known DEF Create, Does
<1>3. PICK table \in Prunings(links, now), id \in Ids :
        links' = [table EXCEPT ![id] = Live(file, now)]
  BY DEF Create
<1>4. /\ table \in [Ids -> Entries]
      /\ \A i \in Ids : table[i].state = "live" => table[i] = links[i]
  BY <1>1, PruningsEnd DEF LinkTypes
<1>5. Live(file, now) \in Entries /\ Live(file, now).file = file
  <2>1. now + Lifetime \in Nat BY <1>1, <1>2, Times DEF Moments
  <2>2. Live(file, now) = [state |-> "live", file |-> file, created |-> now,
                           expires |-> now + Lifetime]
    BY DEF Live
  <2> HIDE DEF file, now
  <2>3. Live(file, now) \in [state: {"live"}, file: Names, created: Moments, expires: Nat]
    BY <1>2, <2>1, <2>2
  <2> QED BY <2>2, <2>3 DEF Entries
<1>6. To(w, Idle) /\ UNCHANGED <<clock, outputs, marker, faults, used>> BY DEF Create
<1>7. spared' = IF outputs[file] # None THEN spared ELSE spared \cup {file} BY DEF Create, Present
<1> HIDE DEF file, now
<1>8. links' \in [Ids -> Entries] BY <1>3, <1>4, <1>5
<1>9. \A i \in Ids : links'[i].state = "live" => links'[i] = links[i] \/ links'[i].file = file
  BY <1>3, <1>4, <1>5
<1>10. \A i \in Ids : links'[i].state = "live" =>
           \/ links'[i] = links[i]
           \/ outputs[links'[i].file] # None \/ links'[i].file \in spared'
  BY <1>7, <1>9
<1> QED BY <1>1, <1>2, <1>6, <1>7, <1>8, <1>10, IdleIsQuiet, QuietKeeps DEF LinkTypes, Does

LEMMA AskKeeps ==
    ASSUME LinksAssumption, LinksInv, NEW w \in Workers, NEW id \in Ids, Ask(w, id)
    PROVE  LinksInv'
<1> DEFINE state == [mode |-> "resolve", id |-> id, now |-> clock]
<1>1. LinkTypes BY DEF LinksInv
<1>2. state \in WorkStates /\ state \notin Sweeps /\ ~OfCleanup(state) /\ state.mode # "revoke"
  BY <1>1, Times DEF WorkStates, Sweeps, OfCleanup
<1>3. To(w, state) BY DEF Ask
<1>4. work[w].mode = "idle" BY DEF Ask, Does
<1> HIDE DEF state
<1> QED BY <1>1, <1>2, <1>3, <1>4, QuietKeeps DEF Ask, LinkTypes, history, Does

LEMMA ResolveKeeps ==
    ASSUME LinksAssumption, LinksInv, NEW w \in Workers, Resolve(w)
    PROVE  LinksInv'
<1> DEFINE entry == links[work[w].id]
           serve == [mode |-> "serve", file |-> entry.file]
<1>1. LinkTypes BY DEF LinksInv
<1>2. work[w].mode = "resolve" /\ work[w].id \in Ids BY <1>1, Known DEF Resolve, Does
<1>3. links' \in [Ids -> Entries] /\ \A i \in Ids : links'[i].state = "live" => links'[i] = links[i]
  <2>1. Ended \in Entries /\ Ended.state = "ended" BY DEF Entries, Ended
  <2> QED BY <1>1, <2>1 DEF Resolve, LinkTypes
<1>4. UNCHANGED <<clock, outputs, marker, faults, used, spared, torn>> BY DEF Resolve, history
<1>5. PICK state : /\ To(w, state)
                   /\ state \in {Idle} \cup (IF entry.state = "live" THEN {serve} ELSE {})
  BY DEF Resolve
<1>6. /\ state \in WorkStates /\ state \notin Sweeps /\ ~OfCleanup(state)
      /\ state.mode # "revoke"
  <2>1. CASE state = Idle BY <2>1, IdleIsQuiet
  <2>2. CASE entry.state = "live" /\ state = serve
    <3>1. entry \in Entries BY <1>1, <1>2 DEF LinkTypes
    <3>2. entry.file \in Names BY <2>2, <3>1 DEF Entries, Free, Ended
    <3> QED BY <2>2, <3>2 DEF WorkStates, Sweeps, OfCleanup
  <2> QED BY <1>5, <2>1, <2>2
<1> QED BY <1>1, <1>2, <1>3, <1>4, <1>5, <1>6, QuietKeeps DEF LinkTypes, Does

LEMMA ServeKeeps ==
    ASSUME LinksAssumption, LinksInv, NEW w \in Workers, Serve(w)
    PROVE  LinksInv'
<1>1. LinkTypes BY DEF LinksInv
<1>2. work[w].mode = "serve" BY DEF Serve, Does
<1> QED BY <1>1, <1>2, IdleIsQuiet, QuietKeeps DEF Serve, LinkTypes, history, Does

-----------------------------------------------------------------------------
(* Deletions and the cleanup *)

LEMMA ConsiderKeeps ==
    ASSUME LinksAssumption, LinksInv, NEW w \in Workers, ConsiderCleanup(w)
    PROVE  LinksInv'
<1> DEFINE state == [mode |-> "clean", now |-> clock]
<1>1. LinkTypes BY DEF LinksInv
<1>2. state \in WorkStates /\ state \notin Sweeps /\ ~OfCleanup(state) /\ state.mode # "revoke"
  BY <1>1, Times DEF WorkStates, Sweeps, OfCleanup
<1>3. To(w, state) BY DEF ConsiderCleanup
<1>4. work[w].mode = "idle" BY DEF ConsiderCleanup, Does
<1> HIDE DEF state
<1> QED BY <1>1, <1>2, <1>3, <1>4, QuietKeeps DEF ConsiderCleanup, LinkTypes, history, Does

LEMMA BeginKeeps ==
    ASSUME LinksAssumption, LinksInv, NEW w \in Workers, BeginCleanup(w)
    PROVE  LinksInv'
<1> DEFINE state == [mode |-> "sweep", now |-> work[w].now, seen |-> {f \in Names : Present(f)},
                     passed |-> {}, cut |-> FALSE]
<1>1. LinkTypes BY DEF LinksInv
<1>2. work[w].mode = "clean" /\ work[w].now \in Moments BY <1>1, Known DEF BeginCleanup, Does
<1>3. state \in WorkStates /\ state.mode # "revoke" BY <1>2 DEF WorkStates, Sweeps
<1>4. Met(outputs, state) BY DEF Met, Present
<1>5. To(w, state) \/ To(w, Idle) BY DEF BeginCleanup
<1>6. \A v \in Workers : ~Cleaning(v) BY DEF BeginCleanup
<1> HIDE DEF state
<1>7. UNCHANGED <<clock, outputs, links, marker, faults, used, spared, torn>>
  BY DEF BeginCleanup, history
<1>8. CASE To(w, state)
  BY <1>1, <1>2, <1>3, <1>4, <1>6, <1>7, <1>8, QuietKeeps DEF LinkTypes, Does
<1>9. CASE To(w, Idle)
  BY <1>1, <1>2, <1>7, <1>9, IdleIsQuiet, QuietKeeps DEF LinkTypes, Does
<1> QED BY <1>5, <1>8, <1>9

LEMMA ExhaustKeeps ==
    ASSUME LinksAssumption, LinksInv, NEW w \in Workers, Exhaust(w)
    PROVE  LinksInv'
<1> DEFINE state == [work[w] EXCEPT !.seen = {}, !.cut = TRUE]
<1>1. LinkTypes BY DEF LinksInv
<1>2. work[w] \in Sweeps /\ work[w].mode = "sweep" BY <1>1, Known DEF Exhaust, Does
<1>3. state \in Sweeps /\ state.mode = "sweep" /\ state.cut BY <1>2 DEF Sweeps
<1>4. To(w, state) BY DEF Exhaust
<1>5. UNCHANGED <<clock, outputs, links, marker, faults, used, spared, torn>>
  BY DEF Exhaust, history
<1> HIDE DEF state
<1>6. Met(outputs, state) BY <1>3 DEF Met
<1>7. state \in WorkStates BY <1>3 DEF WorkStates
<1>8. Cleaning(w) BY <1>2 DEF Cleaning, Does
<1> QED BY <1>1, <1>2, <1>3, <1>4, <1>5, <1>6, <1>7, <1>8, QuietKeeps DEF LinkTypes, Does

LEMMA RevokeKeeps ==
    ASSUME LinksAssumption, LinksInv, NEW w \in Workers, Revoke(w)
    PROVE  LinksInv'
<1> DEFINE rest == work[w].rest
           file == work[w].file
<1>1. LinkTypes /\ SweepsMeet BY DEF LinksInv
<1>2. work[w].mode = "revoke" /\ rest \in {Idle} \cup Sweeps /\ file \in Names
  BY <1>1, Known DEF Revoke, Does
<1>3. rest \in WorkStates /\ rest.mode # "revoke"
  BY <1>2, IdleIsQuiet DEF WorkStates, Sweeps
<1>4. rest \in Sweeps => Met(outputs, rest) BY <1>1, <1>2 DEF SweepsMeet, Does
<1>5. OfCleanup(rest) => Cleaning(w)
  <2>1. OfCleanup(rest) => rest # Idle BY IdleIsQuiet
  <2> QED BY <1>2, <2>1 DEF Cleaning, Does
<1>6. To(w, rest) /\ UNCHANGED <<clock, outputs, marker, faults, used, spared>>
  BY DEF Revoke, history
<1>7. /\ links' \in [Ids -> Entries]
      /\ \A i \in Ids : links'[i].state = "live" => links'[i] = links[i] /\ links'[i].file # file
  <2>1. Ended \in Entries /\ Ended.state = "ended" BY DEF Entries, Ended
  <2> QED BY <1>1, <2>1 DEF Revoke, Revoked, LinkTypes
<1> HIDE DEF rest
<1> QED BY <1>1, <1>3, <1>4, <1>5, <1>6, <1>7, QuietKeeps DEF LinkTypes

LEMMA PruneKeeps ==
    ASSUME LinksAssumption, LinksInv, NEW w \in Workers, Prune(w)
    PROVE  LinksInv'
<1> DEFINE state == [work[w] EXCEPT !.mode = "swept"]
<1>1. LinkTypes /\ SweepsMeet BY DEF LinksInv
<1>2. work[w] \in Sweeps /\ work[w].mode = "sweep" /\ work[w].seen = {}
  BY <1>1, Known DEF Prune, Does
<1>3. /\ state \in Sweeps /\ state.mode = "swept" /\ state.now = work[w].now
      /\ state.seen = {} /\ state.passed = work[w].passed /\ state.cut = work[w].cut
  BY <1>2 DEF Sweeps
<1>4. To(w, state) /\ UNCHANGED <<clock, outputs, marker, faults, used, spared>>
  BY DEF Prune, history
<1> HIDE DEF state
<1>5. Met(outputs, state)
  <2>1. Met(outputs, work[w]) BY <1>1, <1>2 DEF SweepsMeet
  <2> QED BY <1>2, <1>3, <2>1 DEF Met
<1>6. state \in WorkStates BY <1>3 DEF WorkStates
<1>7. Cleaning(w) BY <1>2 DEF Cleaning, Does
<1>8. /\ links' \in [Ids -> Entries]
      /\ \A i \in Ids : links'[i].state = "live" => links'[i] = links[i]
  BY <1>1, PruningsEnd DEF Prune, LinkTypes
<1> QED BY <1>1, <1>2, <1>3, <1>4, <1>5, <1>6, <1>7, <1>8, QuietKeeps DEF LinkTypes, Does

LEMMA MarkKeeps ==
    ASSUME LinksAssumption, BoundsAssumption, LinksInv, NEW w \in Workers, Mark(w)
    PROVE  LinksInv'
<1>1. LinkTypes BY DEF LinksInv
<1>2. work[w] \in Sweeps /\ work[w].mode = "swept" BY <1>1, Known DEF Mark, Does
<1>3. marker' \in -1..MaxClock
  BY <1>1 DEF Mark, LinkTypes, BoundsAssumption
<1> QED BY <1>1, <1>2, <1>3, IdleIsQuiet, QuietKeeps DEF Mark, LinkTypes, history, Does

LEMMA StopKeeps ==
    ASSUME LinksAssumption, BoundsAssumption, LinksInv, NEW w \in Workers, Stop(w)
    PROVE  LinksInv'
<1>1. LinkTypes BY DEF LinksInv
<1>2. faults' \in 0..MaxFaults BY <1>1 DEF Stop, Fault, LinkTypes, BoundsAssumption
<1>3. spared \subseteq spared' /\ (Does(w, "revoke") => work[w].file \in spared') BY DEF Stop
<1> QED BY <1>1, <1>2, <1>3, IdleIsQuiet, QuietKeeps DEF Stop, LinkTypes

\* A file is removed, and its links are about to be revoked.
LEMMA RemovalKeeps ==
    ASSUME LinksAssumption, LinksInv, NEW w \in Workers, NEW f \in Names,
           NEW rest \in {Idle} \cup Sweeps, To(w, [mode |-> "revoke", file |-> f, rest |-> rest]),
           outputs[f] # None, RemoveFile(f), ~Does(w, "revoke"),
           UNCHANGED <<clock, links, marker, faults, used, spared>>,
           rest # Idle => Cleaning(w),
           rest \in Sweeps => Met(outputs', rest)
    PROVE  LinksInv'
<1> DEFINE state == [mode |-> "revoke", file |-> f, rest |-> rest]
<1>1. LinkTypes /\ UsedOnce /\ OneCleanup /\ SweepsMeet /\ LinksEndWithOutput BY DEF LinksInv
<1>2. /\ state \in WorkStates /\ state \notin Sweeps /\ state.mode = "revoke" /\ state.file = f
      /\ state.rest = rest /\ (OfCleanup(state) => rest # Idle)
  BY DEF WorkStates, Sweeps, OfCleanup
<1> HIDE DEF state
<1>3. To(w, state) BY DEF state
<1>4. /\ outputs' \in [Names -> {None} \cup Files] /\ outputs'[f] = None
      /\ \A g \in Names \ {f} : outputs'[g] = outputs[g]
  BY <1>1 DEF RemoveFile, LinkTypes
<1>5. LinkTypes' BY <1>1, <1>2, <1>3, <1>4, StepTypes DEF LinkTypes
<1>6. UsedOnce'
  <2>1. f \in used BY <1>1 DEF UsedOnce, Present
  <2> QED BY <1>1, <1>2, <1>3, <1>4, <2>1, KeepsUsedOnce
<1>7. OneCleanup' BY <1>1, <1>2, <1>3, KeepsOneCleanup
<1>8. SweepsMeet'
  <2>1. Come(outputs, outputs') BY <1>4 DEF Come
  <2> QED BY <1>1, <1>2, <1>3, <1>4, <2>1, KeepsSweepsMeet
<1>9. LinksEndWithOutput' BY <1>1, <1>2, <1>3, <1>4, KeepsEnds DEF LinkTypes
<1> QED BY <1>5, <1>6, <1>7, <1>8, <1>9 DEF LinksInv

LEMMA DeleteKeeps ==
    ASSUME LinksAssumption, LinksInv, NEW w \in Workers, NEW f \in Names, Delete(w, f)
    PROVE  LinksInv'
<1>1. Idle \in {Idle} \cup Sweeps /\ Idle \notin Sweeps BY IdleIsQuiet
<1> QED BY <1>1, RemovalKeeps DEF Delete, history, Present, Does

\* A cleanup after it met a file.
After(w, f) ==
    [work[w] EXCEPT !.seen = @ \ {f}, !.passed = @ \cup
                    IF Present(f) /\ outputs[f].twice THEN {f} ELSE {}]

\* A cleanup meets a file: what was old it removes, unless it has two names.
LEMMA SweepMeets ==
    ASSUME LinksAssumption, LinksInv, NEW w \in Workers, Does(w, "sweep"),
           NEW f \in work[w].seen, NEW files,
           files \in [Names -> {None} \cup Files],
           \A g \in Names \ {f} : files[g] = outputs[g],
           IF Old(f, work[w].now) THEN files[f] = None ELSE files[f] = outputs[f]
    PROVE  After(w, f) \in Sweeps /\ After(w, f).mode = "sweep" /\ Met(files, After(w, f))
<1> DEFINE rest == After(w, f)
<1>1. LinkTypes /\ SweepsMeet BY DEF LinksInv
<1>2. work[w] \in Sweeps /\ work[w].mode = "sweep" /\ f \in Names
  BY <1>1, Known DEF Does, Sweeps
<1>3. Met(outputs, work[w]) BY <1>1, <1>2 DEF SweepsMeet
<1> DEFINE passed == IF Present(f) /\ outputs[f].twice THEN {f} ELSE {}
<1>4. /\ rest.mode = "sweep" /\ rest.now = work[w].now /\ rest.seen = work[w].seen \ {f}
      /\ rest.passed = work[w].passed \cup passed /\ rest.cut = work[w].cut
  BY <1>2 DEF Sweeps, After
<1>5. rest \in Sweeps
  <2>1. passed \subseteq Names BY <1>2
  <2> HIDE DEF passed
  <2>2. rest = [work[w] EXCEPT !.seen = @ \ {f}, !.passed = @ \cup passed] BY DEF passed, After
  <2> QED BY <1>2, <2>1, <2>2 DEF Sweeps
<1>6. ASSUME NEW g \in Names, files[g] # None, rest.now - files[g].at >= Retention, ~rest.cut
      PROVE  g \in rest.seen \cup rest.passed
  <2>1. CASE g # f
    <3>1. g \in work[w].seen \cup work[w].passed BY <1>3, <1>4, <1>6, <2>1 DEF Met
    <3> QED BY <1>4, <2>1, <3>1
  <2>2. CASE g = f
    <3>1. files[f] = outputs[f] /\ ~Old(f, work[w].now) BY <1>6, <2>2
    <3>2. outputs[f].twice
      <4>1. outputs[f] \in Files BY <1>1, <1>2, <1>6, <2>2, <3>1 DEF LinkTypes
      <4> QED BY <1>4, <1>6, <2>2, <3>1, <4>1 DEF Old, Present, Files
    <3>3. f \in passed BY <1>6, <2>2, <3>1, <3>2 DEF Present
    <3> QED BY <1>4, <2>2, <3>3
  <2> QED BY <2>1, <2>2
<1> QED BY <1>4, <1>5, <1>6 DEF Met

LEMMA SweepKeeps ==
    ASSUME LinksAssumption, LinksInv, NEW w \in Workers, Sweep(w)
    PROVE  LinksInv'
<1>1. LinkTypes BY DEF LinksInv
<1>2. PICK f \in work[w].seen :
        LET passed == Present(f) /\ outputs[f].twice
            rest == [work[w] EXCEPT !.seen = @ \ {f}, !.passed = @ \cup IF passed THEN {f} ELSE {}]
        IN  IF Old(f, work[w].now)
            THEN RemoveFile(f) /\ To(w, [mode |-> "revoke", file |-> f, rest |-> rest])
            ELSE UNCHANGED outputs /\ To(w, rest)
  BY DEF Sweep
<1> DEFINE rest == After(w, f)
<1>3. work[w] \in Sweeps /\ Does(w, "sweep") /\ f \in Names /\ ~Does(w, "revoke")
  BY <1>1, Known DEF Does, Sweep, Sweeps
<1>4. outputs' \in [Names -> {None} \cup Files] /\ (\A g \in Names \ {f} : outputs'[g] = outputs[g])
      /\ IF Old(f, work[w].now) THEN outputs'[f] = None ELSE outputs'[f] = outputs[f]
  BY <1>1, <1>2, <1>3 DEF RemoveFile, LinkTypes
<1>5. rest \in Sweeps /\ rest.mode = "sweep" /\ Met(outputs', rest)
  <2> DEFINE files == outputs'
  <2>2. files \in [Names -> {None} \cup Files] /\ (\A g \in Names \ {f} : files[g] = outputs[g])
        /\ IF Old(f, work[w].now) THEN files[f] = None ELSE files[f] = outputs[f]
    BY <1>4
  <2> HIDE DEF files
  <2>3. rest \in Sweeps /\ rest.mode = "sweep" /\ Met(files, rest)
    BY <1>3, <2>2, SweepMeets
  <2> QED BY <2>3 DEF files
<1>6. Cleaning(w) BY <1>3 DEF Cleaning
<1>7. UNCHANGED <<clock, links, marker, faults, used, spared>> BY DEF Sweep, history
<1>8. CASE Old(f, work[w].now)
  <2>1. RemoveFile(f) /\ To(w, [mode |-> "revoke", file |-> f, rest |-> rest])
    BY <1>2, <1>8 DEF After
  <2>2. outputs[f] # None BY <1>8 DEF Old, Present
  <2> HIDE DEF rest
  <2> QED BY <1>3, <1>5, <1>6, <1>7, <2>1, <2>2, RemovalKeeps
<1>9. CASE ~Old(f, work[w].now)
  <2>1. outputs' = outputs /\ To(w, rest) BY <1>2, <1>9 DEF After
  <2> HIDE DEF rest
  <2>2. rest \in WorkStates /\ rest.mode # "revoke" BY <1>5 DEF WorkStates
  <2> QED BY <1>1, <1>3, <1>5, <1>6, <1>7, <2>1, <2>2, QuietKeeps DEF LinkTypes
<1> QED BY <1>8, <1>9

-----------------------------------------------------------------------------
(* The theorems *)

LEMMA TickKeeps ==
    ASSUME BoundsAssumption, LinksInv, Tick
    PROVE  LinksInv'
<1>1. LinkTypes /\ UsedOnce /\ OneCleanup /\ SweepsMeet /\ LinksEndWithOutput BY DEF LinksInv
<1>2. UNCHANGED <<outputs, links, marker, work, faults, used, spared>> /\ clock' \in 0..MaxClock
      /\ clock' = clock + 1 /\ clock \in Nat
  BY <1>1 DEF Tick, history, LinkTypes, BoundsAssumption
<1>3. LinkTypes' BY <1>1, <1>2, SetsGrow DEF LinkTypes
<1>4. UsedOnce' BY <1>1, <1>2 DEF UsedOnce, Present, Does
<1>5. OneCleanup' BY <1>1, <1>2 DEF OneCleanup, Cleaning, Does
<1>6. SweepsMeet'
  <2>1. ASSUME NEW s \in {Idle} \cup Sweeps, s \in Sweeps' PROVE s \in Sweeps
    BY <2>1, IdleIsQuiet DEF Sweeps
  <2>2. ASSUME NEW w \in Workers, work[w] \in Sweeps' PROVE work[w] \in Sweeps
    BY <1>1, <2>2, Known DEF Sweeps, Does
  <2>3. ASSUME NEW w \in Workers, Does(w, "revoke"), work[w].rest \in Sweeps'
        PROVE  work[w].rest \in Sweeps
    BY <1>1, <2>1, <2>3, Known
  <2> QED BY <1>1, <1>2, <2>2, <2>3 DEF SweepsMeet, Does, Met
<1>7. LinksEndWithOutput' BY <1>1, <1>2 DEF LinksEndWithOutput, IsLive, Present, Does
<1> QED BY <1>3, <1>4, <1>5, <1>6, <1>7 DEF LinksInv

LEMMA StepKeepsLinks ==
    ASSUME LinksAssumption, BoundsAssumption, LinksInv, [Next]_vars
    PROVE  LinksInv'
<1>1. ASSUME NEW w \in Workers, NEW f \in Names, Publish(w, f) PROVE LinksInv'
  BY <1>1, PublishKeeps
<1>2. ASSUME NEW w \in Workers, NEW f \in Names, Delete(w, f) PROVE LinksInv'
  BY <1>2, DeleteKeeps
<1>3. ASSUME NEW w \in Workers, DropTemporary(w) PROVE LinksInv' BY <1>3, DropKeeps
<1>4. ASSUME NEW w \in Workers, Create(w) PROVE LinksInv' BY <1>4, CreateKeeps
<1>5. ASSUME NEW w \in Workers, NEW id \in Ids, Ask(w, id) PROVE LinksInv' BY <1>5, AskKeeps
<1>6. ASSUME NEW w \in Workers, Resolve(w) PROVE LinksInv' BY <1>6, ResolveKeeps
<1>7. ASSUME NEW w \in Workers, BeginCleanup(w) PROVE LinksInv' BY <1>7, BeginKeeps
<1>8. ASSUME NEW w \in Workers, Sweep(w) PROVE LinksInv' BY <1>8, SweepKeeps
<1>9. ASSUME NEW w \in Workers, Revoke(w) PROVE LinksInv' BY <1>9, RevokeKeeps
<1>10. ASSUME NEW w \in Workers, Prune(w) PROVE LinksInv' BY <1>10, PruneKeeps
<1>11. ASSUME NEW w \in Workers, Mark(w) PROVE LinksInv' BY <1>11, MarkKeeps
<1>12. ASSUME NEW w \in Workers, Stop(w) PROVE LinksInv' BY <1>12, StopKeeps
<1>13. CASE Tick BY <1>13, TickKeeps
<1>14. ASSUME NEW w \in Workers, Serve(w) PROVE LinksInv' BY <1>14, ServeKeeps
<1>15. ASSUME NEW w \in Workers, ConsiderCleanup(w) PROVE LinksInv' BY <1>15, ConsiderKeeps
<1>16. ASSUME NEW w \in Workers, Exhaust(w) PROVE LinksInv' BY <1>16, ExhaustKeeps
<1>17. CASE UNCHANGED vars
  BY <1>17 DEF vars, history, LinksInv, LinkTypes, UsedOnce, OneCleanup, SweepsMeet,
               LinksEndWithOutput, Moments, Files, Entries, Sweeps, WorkStates, Met, Cleaning,
               Present, Does, IsLive
<1> QED BY <1>1, <1>2, <1>3, <1>4, <1>5, <1>6, <1>7, <1>8, <1>9, <1>10, <1>11, <1>12, <1>13,
           <1>14, <1>15, <1>16, <1>17 DEF Next

LEMMA LinksAreTyped == LinkTypes => TypeOK
<1> SUFFICES ASSUME LinkTypes PROVE TypeOK OBVIOUS
<1>1. ASSUME NEW w \in Workers
      PROVE  work[w].mode \in {"idle", "named", "link", "resolve", "serve", "revoke", "clean",
                               "sweep", "swept"}
  <2>1. work[w] \in WorkStates BY DEF LinkTypes
  <2> QED BY <2>1, IdleIsQuiet DEF WorkStates, Sweeps
<1>2. \A f \in Names : Present(f) => outputs[f].at \in 0..clock
  BY DEF LinkTypes, Present, Files, Moments
<1>3. \A id \in Ids : links[id].state \in {"free", "ended", "live"}
  <2>1. \A id \in Ids : links[id] \in Entries BY DEF LinkTypes
  <2> QED BY <2>1 DEF Entries, Free, Ended
<1> QED BY <1>1, <1>2, <1>3 DEF TypeOK, LinkTypes

LEMMA LinksAlwaysInv ==
    ASSUME LinksAssumption, BoundsAssumption
    PROVE  Spec => []LinksInv
<1>1. Init => LinksInv BY InitLinks
<1>2. LinksInv /\ [Next]_vars => LinksInv' BY StepKeepsLinks
<1> QED BY <1>1, <1>2, PTL DEF Spec

\* Deleting an output ends its links, for any number of workers, outputs, links and
\* kills: a link to a missing file is about to be revoked, unless its revocation
\* failed or it was made after the deletion (app.py's delete and the cleanup of
\* core/retention.py remove the file first).
THEOREM OutputsTakeTheirLinks ==
    ASSUME LinksAssumption, BoundsAssumption
    PROVE  Spec => [](TypeOK /\ LinksEndWithOutput)
<1>1. LinksInv => TypeOK /\ LinksEndWithOutput BY LinksAreTyped DEF LinksInv
<1> QED BY <1>1, LinksAlwaysInv, PTL

LEMMA TimesOfStep ==
    ASSUME LinksAssumption, LinksInv, [Next]_vars
    PROVE  LinksLiveTheirTime
<1> SUFFICES ASSUME NEW id \in Ids, IsLive(id), links'[id] # links[id]
             PROVE  links[id].expires <= clock \/ ~Present(links[id].file)
    BY DEF LinksLiveTheirTime
<1>1. LinkTypes /\ UsedOnce BY DEF LinksInv
<1>2. links[id].expires \in Nat /\ clock \in Nat
  <2>1. links[id] \in Entries BY <1>1 DEF LinkTypes
  <2> QED BY <1>1, <2>1, Times DEF Entries, Free, Ended, IsLive
<1>3. ASSUME NEW now \in Moments, NEW table \in Prunings(links, now), table[id] # links[id]
      PROVE  links[id].expires <= clock
  <2>1. links[id].expires <= now BY <1>1, <1>3, PruningsEnd DEF LinkTypes
  <2> QED BY <1>2, <2>1 DEF Moments
<1>4. ASSUME NEW w \in Workers, Create(w) PROVE links[id].expires <= clock
  <2>1. work[w].now \in Moments BY <1>1, <1>4, Times DEF Create, Does
  <2>2. PICK table \in Prunings(links, work[w].now), i \in Ids :
          table[i] = Free /\ links' = [table EXCEPT ![i] = Live(work[w].file, work[w].now)]
    BY <1>4 DEF Create
  <2>3. table[id] # links[id]
    <3>1. table \in [Ids -> Entries] BY <1>1, <2>2, PruningsEnd DEF LinkTypes
    <3>2. CASE i = id BY <2>2, <3>2 DEF IsLive, Free
    <3>3. CASE i # id BY <2>2, <3>1, <3>3
    <3> QED BY <3>2, <3>3
  <2> QED BY <1>3, <2>1, <2>2, <2>3
<1>5. ASSUME NEW w \in Workers, Resolve(w) PROVE links[id].expires <= clock
  <2>1. work[w].now \in Moments BY <1>1, <1>5, Times DEF Resolve, Does
  <2>2. Expired(links[id], work[w].now) BY <1>1, <1>5 DEF Resolve, LinkTypes
  <2> QED BY <1>2, <2>1, <2>2 DEF Expired, Moments
<1>6. ASSUME NEW w \in Workers, Revoke(w) PROVE ~Present(links[id].file)
  <2>1. links[id].file = work[w].file BY <1>1, <1>6 DEF Revoke, Revoked, LinkTypes
  <2> QED BY <1>1, <1>6, <2>1 DEF Revoke, UsedOnce
<1>7. ASSUME NEW w \in Workers, Prune(w) PROVE links[id].expires <= clock
  <2>1. work[w] \in Sweeps BY <1>1, <1>7, Known DEF Prune
  <2>2. work[w].now \in Moments BY <2>1 DEF Sweeps
  <2> QED BY <1>3, <1>7, <2>2 DEF Prune
<1>8. CASE Tick BY <1>8 DEF Tick
<1>9. CASE UNCHANGED vars BY <1>9 DEF vars
<1>10. ASSUME NEW w \in Workers, NEW f \in Names, Publish(w, f) \/ Delete(w, f) PROVE FALSE
  BY <1>10 DEF Publish, Delete
<1>11. ASSUME NEW w \in Workers, NEW i \in Ids, Ask(w, i) PROVE FALSE BY <1>11 DEF Ask
<1>12. ASSUME NEW w \in Workers,
              \/ DropTemporary(w) \/ Serve(w) \/ ConsiderCleanup(w) \/ BeginCleanup(w)
              \/ Sweep(w) \/ Exhaust(w) \/ Mark(w) \/ Stop(w)
       PROVE  FALSE
  BY <1>12 DEF DropTemporary, Serve, ConsiderCleanup, BeginCleanup, Sweep, Exhaust, Mark, Stop
<1> QED BY <1>4, <1>5, <1>6, <1>7, <1>8, <1>9, <1>10, <1>11, <1>12 DEF Next

\* Which step of a worker it is that takes it where.
LEMMA WhoMoves ==
    ASSUME [Next]_vars, NEW w \in Workers, LinkTypes
    PROVE  /\ Does(w, "resolve") /\ Does(w, "serve")' => Resolve(w)
           /\ Does(w, "sweep") /\ Does(w, "swept")' => Prune(w)
           /\ Completes(w) => Mark(w)
<1>1. CASE work'[w] = work[w] BY <1>1 DEF Does, Completes
<1>2. ASSUME NEW v \in Workers, v # w, NEW state, To(v, state) PROVE work'[w] = work[w]
  BY <1>2 DEF To, LinkTypes
<1>3. ASSUME NEW v \in Workers, v # w,
             \/ DropTemporary(v) \/ Create(v) \/ Resolve(v) \/ Serve(v) \/ ConsiderCleanup(v)
             \/ BeginCleanup(v) \/ Revoke(v) \/ Prune(v) \/ Mark(v)
      PROVE  work'[w] = work[w]
  BY <1>2, <1>3 DEF DropTemporary, Create, Resolve, Serve, ConsiderCleanup, BeginCleanup,
                    Revoke, Prune, Mark
<1>4. ASSUME NEW v \in Workers, v # w, Sweep(v) \/ Exhaust(v) \/ Stop(v)
      PROVE  work'[w] = work[w]
  BY <1>2, <1>4 DEF Sweep, Exhaust, Stop
<1>5. ASSUME NEW v \in Workers, v # w, NEW f \in Names, Publish(v, f) \/ Delete(v, f)
      PROVE  work'[w] = work[w]
  BY <1>2, <1>5 DEF Publish, Delete
<1>6. ASSUME NEW v \in Workers, v # w, NEW id \in Ids, Ask(v, id) PROVE work'[w] = work[w]
  BY <1>2, <1>6 DEF Ask
<1>7. ASSUME Tick \/ UNCHANGED vars PROVE work'[w] = work[w] BY <1>7 DEF Tick, vars
<1>8. work[w].mode \in {"idle", "named", "link", "clean"} =>
         ~Does(w, "resolve") /\ ~Does(w, "sweep") /\ ~Does(w, "swept")
  BY DEF Does
<1>9. ASSUME NEW f \in Names, Publish(w, f) \/ Delete(w, f) PROVE work[w].mode = "idle"
  BY <1>9 DEF Publish, Delete, Does
<1>10. ASSUME NEW id \in Ids, Ask(w, id) PROVE work[w].mode = "idle" BY <1>10 DEF Ask, Does
<1>11. ASSUME DropTemporary(w) \/ Create(w) \/ ConsiderCleanup(w) \/ BeginCleanup(w)
       PROVE  work[w].mode \in {"idle", "named", "link", "clean"}
  BY <1>11 DEF DropTemporary, Create, ConsiderCleanup, BeginCleanup, Does
<1>12. ASSUME Serve(w) \/ Revoke(w)
       PROVE  ~Does(w, "resolve") /\ ~Does(w, "sweep") /\ ~Does(w, "swept")
  BY <1>12 DEF Serve, Revoke, Does
<1>13. ASSUME Sweep(w) \/ Exhaust(w) PROVE Does(w, "sweep") /\ ~Does(w, "swept")'
  <2>1. Does(w, "sweep") BY <1>13 DEF Sweep, Exhaust
  <2>2. work[w] \in Sweeps BY <2>1, Known
  <2>3. CASE Exhaust(w)
    <3>1. work'[w] = [work[w] EXCEPT !.seen = {}, !.cut = TRUE]
      BY <2>3 DEF Exhaust, To, LinkTypes
    <3> QED BY <2>1, <2>2, <3>1 DEF Does, Sweeps
  <2>4. CASE Sweep(w)
    <3>1. PICK f \in work[w].seen :
             work'[w] \in {After(w, f), [mode |-> "revoke", file |-> f, rest |-> After(w, f)]}
      <4>1. PICK f \in work[w].seen :
              \/ To(w, [mode |-> "revoke", file |-> f, rest |-> After(w, f)])
              \/ To(w, After(w, f))
        BY <2>4 DEF Sweep, After
      <4>2. \A state : To(w, state) => work'[w] = state BY DEF To, LinkTypes
      <4> QED BY <4>1, <4>2
    <3>2. After(w, f).mode = "sweep" BY <2>1, <2>2, <3>1 DEF After, Does, Sweeps
    <3> QED BY <2>1, <3>1, <3>2 DEF Does
  <2> QED BY <1>13, <2>1, <2>3, <2>4
<1>14. ASSUME Stop(w) PROVE ~Does(w, "serve")' /\ ~Does(w, "swept")' /\ ~Completes(w)
  <2>1. work'[w] = Idle /\ faults' = faults + 1 BY <1>14 DEF Stop, To, Fault, LinkTypes
  <2>2. faults' # faults BY <2>1 DEF LinkTypes
  <2> QED BY <2>1, <2>2, IdleIsQuiet DEF Does, Completes
<1>15. ASSUME Resolve(w) \/ Prune(w) \/ Mark(w)
       PROVE  /\ Resolve(w) => ~Does(w, "sweep") /\ ~Does(w, "swept")
              /\ Prune(w) => ~Does(w, "resolve") /\ ~Does(w, "swept")
              /\ Mark(w) => ~Does(w, "resolve") /\ ~Does(w, "sweep")
  BY <1>15 DEF Resolve, Prune, Mark, Does
<1> DEFINE Ours == \/ work'[w] = work[w] \/ Stop(w) \/ Sweep(w) \/ Exhaust(w)
                   \/ Resolve(w) \/ Prune(w) \/ Mark(w)
                   \/ ~Does(w, "resolve") /\ ~Does(w, "sweep") /\ ~Does(w, "swept")
<1>16. Ours
  <2>1. ASSUME NEW v \in Workers, NEW f \in Names, Publish(v, f) \/ Delete(v, f) PROVE Ours
    BY <1>5, <1>8, <1>9, <2>1
  <2>2. ASSUME NEW v \in Workers, NEW id \in Ids, Ask(v, id) PROVE Ours
    BY <1>6, <1>8, <1>10, <2>2
  <2>3. ASSUME NEW v \in Workers, DropTemporary(v) \/ Create(v) \/ ConsiderCleanup(v)
                                  \/ BeginCleanup(v)
        PROVE  Ours
    BY <1>3, <1>8, <1>11, <2>3
  <2>4. ASSUME NEW v \in Workers, Serve(v) \/ Revoke(v) PROVE Ours BY <1>3, <1>12, <2>4
  <2>5. ASSUME NEW v \in Workers, Resolve(v) \/ Prune(v) \/ Mark(v) PROVE Ours BY <1>3, <2>5
  <2>6. ASSUME NEW v \in Workers, Sweep(v) \/ Exhaust(v) \/ Stop(v) PROVE Ours BY <1>4, <2>6
  <2> HIDE DEF Ours
  <2>7. ASSUME Tick \/ UNCHANGED vars PROVE Ours BY <1>7, <2>7 DEF Ours
  <2> QED BY <2>1, <2>2, <2>3, <2>4, <2>5, <2>6, <2>7 DEF Next
<1> QED BY <1>1, <1>13, <1>14, <1>15, <1>16 DEF Completes, Does

LEMMA EndsOfStep ==
    ASSUME LinksAssumption, LinksInv, [Next]_vars
    PROVE  LinksEndInTime
<1>1. LinkTypes BY DEF LinksInv
<1>2. ASSUME NEW w \in Workers, Does(w, "resolve"), Does(w, "serve")'
      PROVE  /\ IsLive(work[w].id) /\ work'[w].file = links[work[w].id].file
             /\ work[w].now < links[work[w].id].created + Lifetime
  <2> DEFINE entry == links[work[w].id]
  <2>1. Resolve(w) BY <1>1, <1>2, WhoMoves
  <2>2. work[w].id \in Ids /\ work[w].now \in Nat BY <1>1, <1>2, Known, Times DEF Moments
  <2>3. work'[w] = IF entry.state = "live" /\ ~Expired(entry, work[w].now)
                   THEN [mode |-> "serve", file |-> entry.file] ELSE Idle
    BY <1>1, <2>1 DEF Resolve, To, LinkTypes
  <2>4. entry.state = "live" /\ ~Expired(entry, work[w].now) /\ work'[w].file = entry.file
    BY <1>2, <2>3, IdleIsQuiet DEF Does
  <2>5. entry.expires = entry.created + Lifetime /\ entry.expires \in Nat
    <3>1. entry \in Entries BY <1>1, <2>2 DEF LinkTypes
    <3> QED BY <2>4, <3>1 DEF Entries, Free, Ended
  <2> HIDE DEF entry
  <2>6. work[w].now < entry.expires BY <2>2, <2>4, <2>5 DEF Expired
  <2> QED BY <2>4, <2>5, <2>6 DEF entry, IsLive
<1>3. ASSUME NEW w \in Workers, Does(w, "sweep"), Does(w, "swept")', NEW id \in Ids, IsLive(id)'
      PROVE  work[w].now < links'[id].created + Lifetime
  <2>1. Prune(w) BY <1>1, <1>3, WhoMoves
  <2>2. work[w].now \in Nat BY <1>1, <1>3, Known, Times DEF Sweeps, Moments
  <2>3. links' \in Prunings(links, work[w].now) BY <2>1 DEF Prune
  <2>4. links'[id] = links[id] /\ ~(links'[id].expires <= work[w].now)
    BY <1>1, <1>3, <2>3, PruningsEnd DEF LinkTypes, IsLive
  <2>5. links[id].expires = links[id].created + Lifetime /\ links[id].expires \in Nat
    <3>1. links[id] \in Entries BY <1>1 DEF LinkTypes
    <3> QED BY <1>3, <2>4, <3>1 DEF IsLive, Entries, Free, Ended
  <2> QED BY <2>2, <2>4, <2>5
<1> QED BY <1>2, <1>3 DEF LinksEndInTime

-----------------------------------------------------------------------------
(* Outputs with two names *)

Named(f) == Present(f) /\ outputs[f].twice
Naming ==
    /\ \A w \in Workers : Does(w, "named") => work[w].file \in used
    /\ \A v, w \in Workers : Does(v, "named") /\ Does(w, "named") /\ work[v].file = work[w].file
                             => v = w
    /\ \A f \in Names : Named(f) => f \in torn \/ \E w \in Workers : Publishing(w, f)
    /\ \A f \in Names, w \in Workers : Publishing(w, f) /\ Present(f) => outputs[f].twice

\* The steps of a worker that publishes nothing, before or after: outputs only go.
LEMMA OthersKeepNaming ==
    ASSUME Naming, LinkTypes, NEW w \in Workers, NEW state, To(w, state), ~Does(w, "named"),
           state.mode # "named", UNCHANGED used, UNCHANGED torn,
           \A f \in Names : outputs'[f] = outputs[f] \/ outputs'[f] = None
    PROVE  Naming'
<1>1. work'[w] = state /\ \A v \in Workers \ {w} : work'[v] = work[v] BY DEF To, LinkTypes
<1>2. \A v \in Workers : /\ Does(v, "named")' <=> Does(v, "named")
                         /\ Does(v, "named") => work'[v] = work[v]
  BY <1>1 DEF Does
<1>3. \A f \in Names : Named(f)' => Named(f) BY DEF Named, Present
<1>4. \A f \in Names, v \in Workers : Publishing(v, f)' <=> Publishing(v, f)
  BY <1>2 DEF Publishing
<1>5. \A f \in Names : Present(f)' => Present(f) /\ outputs'[f] = outputs[f] BY DEF Present
<1> QED BY <1>2, <1>3, <1>4, <1>5 DEF Naming

LEMMA StepKeepsNaming ==
    ASSUME LinksAssumption, LinksInv, Naming, [Next]_vars
    PROVE  Naming'
<1>1. LinkTypes /\ UsedOnce BY DEF LinksInv
<1>2. Idle.mode = "idle" BY DEF Idle
<1>3. ASSUME NEW w \in Workers, NEW f \in Names, Publish(w, f) PROVE Naming'
  <2> DEFINE state == [mode |-> "named", file |-> f]
  <2>1. work'[w] = state /\ \A v \in Workers \ {w} : work'[v] = work[v]
    BY <1>1, <1>3 DEF Publish, To, LinkTypes
  <2>2. ~Does(w, "named") /\ f \notin used /\ used' = used \cup {f} /\ torn' = torn
    BY <1>3 DEF Publish, Does
  <2>3. outputs'[f].twice /\ \A g \in Names \ {f} : outputs'[g] = outputs[g]
    BY <1>1, <1>3 DEF Publish, LinkTypes
  <2>4. \A v \in Workers \ {w} : Does(v, "named") => work[v].file # f BY <2>2 DEF Naming
  <2>5. Does(w, "named")' /\ work'[w].file = f BY <2>1 DEF Does
  <2>6. \A v \in Workers \ {w} : Does(v, "named")' <=> Does(v, "named") BY <2>1 DEF Does
  <2>7. \A v \in Workers : Does(v, "named")' => work'[v].file \in used'
    BY <2>1, <2>2, <2>5, <2>6 DEF Naming
  <2>8. \A v, x \in Workers : Does(v, "named")' /\ Does(x, "named")'
                              /\ work'[v].file = work'[x].file => v = x
    BY <2>1, <2>4, <2>5, <2>6 DEF Naming
  <2>9. \A g \in Names : Named(g)' => g \in torn' \/ \E v \in Workers : Publishing(v, g)'
    <3> SUFFICES ASSUME NEW g \in Names, Named(g)'
                 PROVE  g \in torn' \/ \E v \in Workers : Publishing(v, g)'
        OBVIOUS
    <3>1. CASE g = f BY <2>5, <3>1 DEF Publishing
    <3>2. CASE g # f
      <4>1. Named(g) BY <2>3, <3>2 DEF Named, Present
      <4>2. g \in torn \/ \E v \in Workers : Publishing(v, g) BY <4>1 DEF Naming
      <4>3. \A v \in Workers : Publishing(v, g) => Publishing(v, g)'
        BY <2>1, <2>2, <2>6 DEF Publishing
      <4> QED BY <2>2, <4>2, <4>3
    <3> QED BY <3>1, <3>2
  <2>10. \A g \in Names, v \in Workers : Publishing(v, g)' /\ Present(g)' => outputs'[g].twice
    <3> SUFFICES ASSUME NEW g \in Names, NEW v \in Workers, Publishing(v, g)', Present(g)'
                 PROVE  outputs'[g].twice
        OBVIOUS
    <3>1. CASE g = f BY <2>3, <3>1
    <3>2. CASE g # f
      <4>1. v # w BY <2>5, <3>2 DEF Publishing
      <4>2. Publishing(v, g) BY <2>1, <2>6, <4>1 DEF Publishing
      <4>3. Present(g) /\ outputs'[g] = outputs[g] BY <2>3, <3>2 DEF Present
      <4> QED BY <4>2, <4>3 DEF Naming
    <3> QED BY <3>1, <3>2
  <2> QED BY <2>7, <2>8, <2>9, <2>10 DEF Naming
<1>4. ASSUME NEW w \in Workers, DropTemporary(w) PROVE Naming'
  <2>0. PICK f : f = work[w].file OBVIOUS
  <2>1. Does(w, "named") /\ f \in Names /\ UNCHANGED <<used, torn>>
    BY <1>1, <1>4, <2>0, Known DEF DropTemporary, history
  <2>2. /\ work'[w] = [mode |-> "link", file |-> f, now |-> clock]
        /\ \A v \in Workers \ {w} : work'[v] = work[v]
    BY <1>1, <1>4, <2>0 DEF DropTemporary, To, LinkTypes
  <2>3. ~Does(w, "named")' BY <2>2 DEF Does
  <2>4. /\ \A g \in Names \ {f} : outputs'[g] = outputs[g]
        /\ Present(f)' => ~outputs'[f].twice
    <3>1. CASE outputs[f] = None BY <1>4, <2>0, <3>1 DEF DropTemporary, Present
    <3>2. CASE outputs[f] # None
      <4>1. outputs[f] \in Files BY <1>1, <2>1, <3>2 DEF LinkTypes
      <4>2. outputs' = [outputs EXCEPT ![f] = [outputs[f] EXCEPT !.twice = FALSE]]
        BY <1>4, <2>0, <3>2 DEF DropTemporary, Present
      <4>3. [outputs[f] EXCEPT !.twice = FALSE].twice = FALSE BY <4>1 DEF Files
      <4> QED BY <1>1, <2>1, <4>2, <4>3 DEF LinkTypes
    <3> QED BY <3>1, <3>2
  <2>5. \A v \in Workers \ {w} : Does(v, "named") => work[v].file # f
    BY <2>0, <2>1 DEF Naming
  <2>6. \A v \in Workers : Does(v, "named")' <=> v # w /\ Does(v, "named")
    BY <2>2, <2>3 DEF Does
  <2>7. \A g \in Names, v \in Workers : Publishing(v, g)' <=> v # w /\ Publishing(v, g)
    BY <2>2, <2>6 DEF Publishing
  <2>8. \A g \in Names : Named(g)' => g \in torn' \/ \E v \in Workers : Publishing(v, g)'
    <3> SUFFICES ASSUME NEW g \in Names, Named(g)'
                 PROVE  g \in torn' \/ \E v \in Workers : Publishing(v, g)'
        OBVIOUS
    <3>1. g # f BY <2>4 DEF Named
    <3>2. Named(g) BY <2>4, <3>1 DEF Named, Present
    <3>3. g \in torn \/ \E v \in Workers : Publishing(v, g) BY <3>2 DEF Naming
    <3>4. ~Publishing(w, g) BY <2>0, <3>1 DEF Publishing
    <3> QED BY <2>1, <2>7, <3>3, <3>4
  <2>9. \A g \in Names, v \in Workers : Publishing(v, g)' /\ Present(g)' => outputs'[g].twice
    <3> SUFFICES ASSUME NEW g \in Names, NEW v \in Workers, Publishing(v, g)', Present(g)'
                 PROVE  outputs'[g].twice
        OBVIOUS
    <3>1. v # w /\ Publishing(v, g) BY <2>7
    <3>2. g # f BY <2>5, <3>1 DEF Publishing
    <3>3. Present(g) /\ outputs'[g] = outputs[g] BY <2>4, <3>2 DEF Present
    <3> QED BY <3>1, <3>3 DEF Naming
  <2> QED BY <2>1, <2>2, <2>6, <2>8, <2>9 DEF Naming
<1>5. ASSUME NEW w \in Workers, Stop(w) PROVE Naming'
  <2>1. /\ work'[w] = Idle /\ (\A v \in Workers \ {w} : work'[v] = work[v])
        /\ UNCHANGED <<outputs, used>>
    BY <1>1, <1>5 DEF Stop, To, LinkTypes
  <2>2. torn \subseteq torn' /\ (Does(w, "named") => work[w].file \in torn') BY <1>5 DEF Stop
  <2>3. \A v \in Workers : Does(v, "named")' <=> v # w /\ Does(v, "named")
    BY <1>2, <2>1 DEF Does
  <2>4. \A g \in Names, v \in Workers : Publishing(v, g)' <=> v # w /\ Publishing(v, g)
    BY <2>1, <2>3 DEF Publishing
  <2>5. \A g \in Names : Named(g)' => g \in torn' \/ \E v \in Workers : Publishing(v, g)'
    <3> SUFFICES ASSUME NEW g \in Names, Named(g)
                 PROVE  g \in torn' \/ \E v \in Workers : Publishing(v, g)'
        BY <2>1 DEF Named, Present
    <3>1. g \in torn \/ \E v \in Workers : Publishing(v, g) BY DEF Naming
    <3>2. Publishing(w, g) => g \in torn' BY <2>2 DEF Publishing
    <3> QED BY <2>2, <2>4, <3>1, <3>2
  <2> QED BY <2>1, <2>3, <2>4, <2>5 DEF Naming, Present
<1>6. ASSUME NEW w \in Workers, NEW f \in Names, Delete(w, f) PROVE Naming'
  <2>1. \A g \in Names : outputs'[g] = outputs[g] \/ outputs'[g] = None
    BY <1>1, <1>6 DEF Delete, RemoveFile, LinkTypes
  <2> QED BY <1>1, <1>6, <2>1, OthersKeepNaming DEF Delete, history, Does
<1>7. ASSUME NEW w \in Workers, NEW id \in Ids, Ask(w, id) PROVE Naming'
  BY <1>1, <1>7, OthersKeepNaming DEF Ask, history, Does
<1>8. ASSUME NEW w \in Workers,
             Create(w) \/ Serve(w) \/ Mark(w) \/ ConsiderCleanup(w)
      PROVE  Naming'
  <2>1. UNCHANGED <<outputs, used, torn>> /\ ~Does(w, "named")
    BY <1>8 DEF Create, Serve, Mark, ConsiderCleanup, history, Does
  <2>2. To(w, Idle) \/ To(w, [mode |-> "clean", now |-> clock])
    BY <1>8 DEF Create, Serve, Mark, ConsiderCleanup
  <2> QED BY <1>1, <1>2, <2>1, <2>2, OthersKeepNaming
<1>9. ASSUME NEW w \in Workers, Resolve(w) PROVE Naming'
  <2>1. UNCHANGED <<outputs, used, torn>> /\ ~Does(w, "named") BY <1>9 DEF Resolve, history, Does
  <2>2. PICK state : To(w, state) /\ state.mode # "named" BY <1>2, <1>9 DEF Resolve
  <2> QED BY <1>1, <2>1, <2>2, OthersKeepNaming
<1>10. ASSUME NEW w \in Workers, BeginCleanup(w) PROVE Naming'
  <2>1. UNCHANGED <<outputs, used, torn>> /\ ~Does(w, "named")
    BY <1>10 DEF BeginCleanup, history, Does
  <2>2. PICK state : To(w, state) /\ state.mode # "named" BY <1>2, <1>10 DEF BeginCleanup
  <2> QED BY <1>1, <2>1, <2>2, OthersKeepNaming
<1>11. ASSUME NEW w \in Workers, Revoke(w) PROVE Naming'
  <2>1. UNCHANGED <<outputs, used, torn>> /\ Does(w, "revoke") /\ To(w, work[w].rest)
    BY <1>11 DEF Revoke, history
  <2>2. ~Does(w, "named") /\ work[w].rest.mode # "named"
    BY <1>1, <1>2, <2>1, Known DEF Does, Sweeps
  <2> QED BY <1>1, <2>1, <2>2, OthersKeepNaming
<1>12. ASSUME NEW w \in Workers, Prune(w) \/ Exhaust(w) PROVE Naming'
  <2>1. UNCHANGED <<outputs, used, torn>> /\ Does(w, "sweep") BY <1>12 DEF Prune, Exhaust, history
  <2>2. work[w] \in Sweeps /\ ~Does(w, "named") BY <1>1, <2>1, Known DEF Does
  <2>3. /\ [work[w] EXCEPT !.mode = "swept"].mode # "named"
        /\ [work[w] EXCEPT !.seen = {}, !.cut = TRUE].mode # "named"
    BY <2>2 DEF Sweeps
  <2>4. PICK state : To(w, state) /\ state.mode # "named" BY <1>12, <2>3 DEF Prune, Exhaust
  <2> QED BY <1>1, <2>1, <2>2, <2>4, OthersKeepNaming
<1>13. ASSUME NEW w \in Workers, Sweep(w) PROVE Naming'
  <2>1. UNCHANGED <<used, torn>> /\ Does(w, "sweep") BY <1>13 DEF Sweep, history
  <2>2. work[w] \in Sweeps /\ ~Does(w, "named") BY <1>1, <2>1, Known DEF Does
  <2>3. PICK f \in work[w].seen :
          IF Old(f, work[w].now)
          THEN RemoveFile(f) /\ To(w, [mode |-> "revoke", file |-> f, rest |-> After(w, f)])
          ELSE UNCHANGED outputs /\ To(w, After(w, f))
    BY <1>13 DEF Sweep, After
  <2>4. After(w, f).mode # "named" BY <2>1, <2>2 DEF After, Does, Sweeps
  <2>5. \A g \in Names : outputs'[g] = outputs[g] \/ outputs'[g] = None
    BY <1>1, <2>3 DEF RemoveFile, LinkTypes
  <2>6. PICK state : To(w, state) /\ state.mode # "named" BY <2>3, <2>4
  <2> QED BY <1>1, <2>1, <2>2, <2>5, <2>6, OthersKeepNaming
<1>14. CASE Tick \/ UNCHANGED vars
  BY <1>14 DEF Tick, vars, history, Naming, Named, Publishing, Present, Does
<1> QED BY <1>3, <1>4, <1>5, <1>6, <1>7, <1>8, <1>9, <1>10, <1>11, <1>12, <1>13, <1>14 DEF Next

LEMMA InitNaming == Init => Naming
BY DEF Init, Naming, Named, Publishing, Present, Does, Idle

-----------------------------------------------------------------------------
(* What cleanups do to outputs *)

LEMMA OutputsOfStep ==
    ASSUME LinksAssumption, LinksInv, Naming, [Next]_vars
    PROVE  OutputsLiveTheirTime
<1> SUFFICES ASSUME NEW f \in Names, Present(f), outputs'[f] = None
             PROVE  \/ \E w \in Workers :
                          Does(w, "idle") /\ Does(w, "revoke")' /\ work'[w].file = f
                    \/ clock - outputs[f].at >= Retention /\ \A w \in Workers : ~Publishing(w, f)
    BY DEF OutputsLiveTheirTime, Present
<1>1. LinkTypes BY DEF LinksInv
<1>2. ASSUME NEW w \in Workers, NEW g \in Names, Delete(w, g)
      PROVE  Does(w, "idle") /\ Does(w, "revoke")' /\ work'[w].file = f
  <2>1. g = f BY <1>1, <1>2 DEF Delete, RemoveFile, LinkTypes, Present
  <2>2. work'[w] = [mode |-> "revoke", file |-> g, rest |-> Idle]
    BY <1>1, <1>2 DEF Delete, To, LinkTypes
  <2> QED BY <1>2, <2>1, <2>2 DEF Delete, Does
<1>3. ASSUME NEW w \in Workers, Sweep(w)
      PROVE  clock - outputs[f].at >= Retention /\ ~outputs[f].twice
  <2>1. work[w] \in Sweeps BY <1>1, <1>3, Known DEF Sweep
  <2>2. Old(f, work[w].now)
    <3>1. PICK g \in work[w].seen :
            IF Old(g, work[w].now) THEN RemoveFile(g) ELSE UNCHANGED outputs
      BY <1>3 DEF Sweep
    <3>2. Old(g, work[w].now) /\ RemoveFile(g) BY <3>1 DEF Present
    <3>3. g = f BY <1>1, <3>2 DEF RemoveFile, LinkTypes, Present
    <3> QED BY <3>2, <3>3
  <2>3. /\ outputs[f].at \in Nat /\ work[w].now \in 0..clock /\ clock \in Nat
        /\ Retention \in Nat
    <3>1. outputs[f] \in Files BY <1>1 DEF LinkTypes, Present
    <3> QED BY <1>1, <2>1, <3>1, Times DEF Sweeps, Files, Moments, LinksAssumption
  <2> QED BY <2>2, <2>3 DEF Old
<1>4. ASSUME NEW w \in Workers, NEW g \in Names, Publish(w, g) PROVE FALSE
  <2>1. outputs'[f] = outputs[f] \/ outputs'[f] = [at |-> clock, twice |-> TRUE]
    BY <1>1, <1>4 DEF Publish, LinkTypes
  <2>2. [at |-> clock, twice |-> TRUE] \in [at: Nat, twice: BOOLEAN] BY <1>1, Times
  <2> QED BY <2>1, <2>2 DEF LinksAssumption, Present
<1>5. ASSUME NEW w \in Workers, DropTemporary(w) PROVE FALSE
  <2>1. outputs'[f] = outputs[f] \/ outputs'[f] = [outputs[f] EXCEPT !.twice = FALSE]
    BY <1>1, <1>5 DEF DropTemporary, LinkTypes
  <2>2. outputs[f] \in Files BY <1>1 DEF LinkTypes, Present
  <2>3. [outputs[f] EXCEPT !.twice = FALSE] \in Files BY <2>2 DEF Files
  <2>4. Files \subseteq [at: Nat, twice: BOOLEAN] BY <1>1, Times DEF Files, Moments
  <2> QED BY <2>1, <2>3, <2>4 DEF LinksAssumption, Present
<1>6. ASSUME NEW w \in Workers, NEW id \in Ids, Ask(w, id) PROVE FALSE BY <1>6 DEF Ask, Present
<1>7. ASSUME NEW w \in Workers,
             \/ Create(w) \/ Resolve(w) \/ Serve(w) \/ ConsiderCleanup(w) \/ BeginCleanup(w)
             \/ Exhaust(w) \/ Revoke(w) \/ Prune(w) \/ Mark(w) \/ Stop(w)
      PROVE  FALSE
  BY <1>7 DEF Create, Resolve, Serve, ConsiderCleanup, BeginCleanup, Exhaust, Revoke, Prune, Mark,
              Stop, Present
<1>8. CASE Tick \/ UNCHANGED vars BY <1>8 DEF Tick, vars, Present
<1>9. ~outputs[f].twice => \A w \in Workers : ~Publishing(w, f) BY DEF Naming
<1> QED BY <1>2, <1>3, <1>4, <1>5, <1>6, <1>7, <1>8, <1>9 DEF Next

LEMMA RetentionOfStep ==
    ASSUME LinksAssumption, LinksInv, Naming, [Next]_vars
    PROVE  RetentionHolds
<1>1. ASSUME NEW w \in Workers, Completes(w), ~work[w].cut, NEW f \in Names,
             Present(f), work[w].now - outputs[f].at >= Retention
      PROVE  f \in work[w].passed
  <2>1. work[w] \in Sweeps /\ work[w].mode = "swept"
    BY <1>1, Known DEF LinksInv, Completes, Does
  <2>2. Met(outputs, work[w]) BY <2>1 DEF LinksInv, SweepsMeet
  <2> QED BY <1>1, <2>1, <2>2 DEF Met, Present
<1>2. \A f \in Names : Present(f) /\ outputs[f].twice =>
          f \in torn \/ \E w \in Workers : Publishing(w, f)
  BY DEF Naming, Named
<1> QED BY <1>1, <1>2 DEF RetentionHolds

\* Links and outputs end neither early nor late, for any number of workers, times
\* and kills: a link ends only when its time is over or its output is gone and is
\* served to no request that came later; an output goes by its owner or old; and a
\* cleanup that scanned everything leaves nothing that was old when it read the
\* time, except what it met with two names (temporary_links.py, retention.py).
THEOREM TimesAreKept ==
    ASSUME LinksAssumption, BoundsAssumption
    PROVE  Spec => TimesHold
<1>1. LinksInv /\ Naming /\ [Next]_vars => [LinkTimes]_vars
  BY TimesOfStep, EndsOfStep, OutputsOfStep, RetentionOfStep DEF LinkTimes
<1>2. Init => Naming BY InitNaming
<1>3. LinksInv /\ Naming /\ [Next]_vars => Naming' BY StepKeepsNaming
<1> QED BY <1>1, <1>2, <1>3, LinksAlwaysInv, PTL DEF Spec, TimesHold

=============================================================================
