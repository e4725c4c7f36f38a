---------------------------- MODULE Notifications ----------------------------
(***************************************************************************)
(* Telegram notifications: core/notifications.py, notification_events.py    *)
(* and telegram.py.                                                         *)
(*                                                                         *)
(* A delivery reads the settings under the lock, sends without any lock,     *)
(* and records its result under the lock again.  Administrators save and     *)
(* remove the settings, and test them, at any time; scans collect events and *)
(* deliver them once, when they are over.                                    *)
(***************************************************************************)
EXTENDS Integers, FiniteSets

CONSTANTS
    Users, Scanner,   \* web processes and the scan
    Chats,            \* complete provider settings: a token and a chat
    Kinds,            \* categories of events
    None,
    MaxClock,
    MaxRevision,      \* bound on saves
    MaxFaults         \* bound on failing writes and kills

NamesAssumption == None \notin Users \cup {Scanner}
BoundsAssumption == MaxClock \in Nat /\ MaxRevision \in Nat /\ MaxFaults \in Nat

VARIABLES
    clock,
    state,    \* notifications.json
    holder,   \* who holds notifications.lock
    work,     \* what each process does
    batch,    \* events the scan collected
    failing,  \* whether each kind has a failing source, endpoint or job
    faults

vars == <<clock, state, holder, work, batch, failing, faults>>

Processes == Users \cup {Scanner}
Provider == [enabled: BOOLEAN, chat: Chats \cup {None}]
NoDelivery == [at |-> -1, ok |-> FALSE, success |-> -1]
Defaults == [revision |-> 0, provider |-> [enabled |-> FALSE, chat |-> None],
             events |-> Kinds, delivery |-> NoDelivery]

\* validate: an enabled provider is complete, and a recorded delivery agrees with
\* itself.
Valid(s) ==
    /\ s.provider \in Provider /\ (s.provider.enabled => s.provider.chat # None)
    /\ s.events \subseteq Kinds
    /\ s.delivery.at = -1 => s.delivery = NoDelivery
    /\ s.delivery.ok => s.delivery.success = s.delivery.at
    /\ s.delivery.success <= s.delivery.at

Idle == [mode |-> "idle"]
TypeOK ==
    /\ clock \in 0..MaxClock /\ Valid(state) /\ state.revision \in 0..MaxRevision
    /\ holder \in Processes \cup {None}
    /\ \A p \in Processes : work[p].mode \in {"idle", "write", "undo", "send", "record"}
    /\ batch \subseteq Kinds /\ failing \subseteq Kinds /\ faults \in 0..MaxFaults

Init ==
    /\ clock = 0 /\ state = Defaults /\ holder = None
    /\ work = [p \in Processes |-> Idle]
    /\ batch = {} /\ failing = {} /\ faults = 0

To(p, w) == work' = [work EXCEPT ![p] = w]
Fault == faults < MaxFaults /\ faults' = faults + 1
Locked(p) == holder = p

-----------------------------------------------------------------------------
(* _commit: one replacement, undone when it fails after it took effect. *)

WriteThen(p, new) ==
    /\ Valid(new) /\ holder' = p
    /\ To(p, [mode |-> "write", new |-> new, old |-> state])
Write(p) ==
    /\ work[p].mode = "write"
    /\ state' = work[p].new /\ holder' = None /\ To(p, Idle)
    /\ UNCHANGED <<clock, batch, failing, faults>>
WriteFails(p) ==
    /\ work[p].mode = "write" /\ Fault
    /\ state' \in {state, work[p].new}
    /\ To(p, [work[p] EXCEPT !.mode = "undo"])
    /\ UNCHANGED <<clock, holder, batch, failing>>
Undo(p) ==
    /\ work[p].mode = "undo"
    /\ \/ state' = work[p].old /\ UNCHANGED faults
       \/ Fault /\ UNCHANGED state
    /\ holder' = None /\ To(p, Idle)
    /\ UNCHANGED <<clock, batch, failing>>

-----------------------------------------------------------------------------
(* The settings page *)

Free(p) == work[p] = Idle /\ holder = None
Changed(new) == [new EXCEPT !.revision = @ + 1]
\* An empty field keeps the token or chat that is stored.
Save(p, enabled, events, chat) ==
    /\ Free(p) /\ state.revision < MaxRevision
    /\ LET provider == [enabled |-> enabled,
                        chat |-> IF chat = None THEN state.provider.chat ELSE chat]
           new == [state EXCEPT !.provider = provider, !.events = events]
       IN  new # state /\ WriteThen(p, Changed(new))
    /\ UNCHANGED <<clock, state, batch, failing, faults>>
Remove(p) ==
    /\ Free(p) /\ state.revision < MaxRevision
    /\ WriteThen(p, Changed([state EXCEPT !.provider = Defaults.provider]))
    /\ UNCHANGED <<clock, state, batch, failing, faults>>

-----------------------------------------------------------------------------
(* A scan: an event when what a check committed crosses zero. *)

Boundary(k) == /\ failing' = IF k \in failing THEN failing \ {k} ELSE failing \cup {k}
               /\ batch' = batch \cup {k}
Commit(k) ==
    /\ work[Scanner] = Idle
    /\ Boundary(k)
    /\ UNCHANGED <<clock, state, holder, work, faults>>
\* A manual check crosses it without an event.
Manual(k) ==
    /\ failing' = IF k \in failing THEN failing \ {k} ELSE failing \cup {k}
    /\ UNCHANGED <<clock, state, holder, work, batch, faults>>

-----------------------------------------------------------------------------
(* deliver *)

Snapshot(p, eligible) ==
    /\ Free(p) /\ state.provider.chat # None /\ eligible
    /\ To(p, [mode |-> "send", provider |-> state.provider, revision |-> state.revision,
              at |-> clock])
Deliver ==
    /\ batch # {}
    /\ \/ Snapshot(Scanner, state.provider.enabled /\ batch \cap state.events # {})
       \/ /\ state.provider.enabled /\ batch \cap state.events = {}
          /\ Free(Scanner) /\ UNCHANGED work
       \/ /\ ~state.provider.enabled
          /\ work[Scanner] = Idle /\ UNCHANGED work
    /\ batch' = {}
    /\ UNCHANGED <<clock, state, holder, failing, faults>>
Test(p) ==
    /\ Snapshot(p, TRUE)
    /\ UNCHANGED <<clock, state, holder, batch, failing, faults>>

\* Telegram.send: accepted, or any of its errors within its deadline.
Send(p) ==
    /\ work[p].mode = "send"
    /\ \E ok \in BOOLEAN : To(p, [mode |-> "record", ok |-> ok, at |-> work[p].at,
                                  provider |-> work[p].provider, revision |-> work[p].revision])
    /\ UNCHANGED <<clock, state, holder, batch, failing, faults>>

Recorded(w) ==
    [state EXCEPT !.delivery = [at |-> w.at, ok |-> w.ok,
                                success |-> IF w.ok THEN w.at ELSE @.success]]
CurrentByTime(w) == state.delivery.at <= w.at
Current(w) == state.revision = w.revision /\ state.delivery.at <= w.at
Record(p) ==
    /\ work[p].mode = "record" /\ holder = None
    /\ IF Current(work[p]) THEN WriteThen(p, Recorded(work[p])) ELSE To(p, Idle) /\ UNCHANGED holder
    /\ UNCHANGED <<clock, state, batch, failing, faults>>

-----------------------------------------------------------------------------

\* A killed process loses its delivery or its record, and a scan what it collected,
\* also between its last check and the delivery.
Kill(p) ==
    /\ Fault
    /\ work[p] # Idle \/ (p = Scanner /\ batch # {})
    /\ To(p, Idle)
    /\ holder' = IF Locked(p) THEN None ELSE holder
    /\ batch' = IF p = Scanner THEN {} ELSE batch
    /\ UNCHANGED <<clock, state, failing>>

\* The clock may be set back.
Tick ==
    /\ clock' \in (0..MaxClock) \ {clock}
    /\ UNCHANGED <<state, holder, work, batch, failing, faults>>

Next ==
    \/ \E p \in Processes : Write(p) \/ WriteFails(p) \/ Undo(p) \/ Send(p) \/ Record(p) \/ Kill(p)
    \/ \E p \in Users, on \in BOOLEAN, kinds \in SUBSET Kinds, chat \in Chats \cup {None} :
          Save(p, on, kinds, chat)
    \/ \E p \in Users : Remove(p) \/ Test(p)
    \/ \E k \in Kinds : Commit(k) \/ Manual(k)
    \/ Deliver
    \/ Tick

Spec == Init /\ [][Next]_vars

-----------------------------------------------------------------------------

\* A result is recorded beside the provider it was obtained with: a delivery that
\* took its time never reports on settings saved, or removed, meanwhile.
RecordsOwnProvider ==
    \A p \in Processes :
        work[p].mode = "record" /\ work'[p].mode = "write" =>
            state.provider = work[p].provider

\* Deliveries that finish out of order, or under a clock that was set back, never
\* overwrite a younger result; only a failed record is undone to the one before.
AttemptsAdvance ==
    state'.delivery.at < state.delivery.at =>
        \E p \in Processes : work[p].mode = "undo" /\ state' = work[p].old
DeliveriesRecorded == [][RecordsOwnProvider /\ AttemptsAdvance]_vars

=============================================================================
