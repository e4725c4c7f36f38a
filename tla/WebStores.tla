----------------------------- MODULE WebStores -----------------------------
(***************************************************************************)
(* The smaller stores, the engine runner and the lock order of the service   *)
(* side by side.  They share nothing: a behaviour is one of one part.        *)
(***************************************************************************)
EXTENDS Integers

CONSTANTS
    None,
    Workers, Names, Ids, Lifetime, Retention, Interval, MaxTombstones, LinkClock, LinkFaults,
    Users, Scanner, Chats, Kinds, TelegramClock, MaxRevision, TelegramFaults,
    Databases, MaxUploads, GeoFaults,
    Count, BatchSize, Attempts,
    Holders

VARIABLES
    part,  \* the module this behaviour is of
    outputs, links, marker, used, spared, torn,
    state, holder, batch, failing,
    database, settings, locked, writer, reader, writes, pairs,
    rejected, stage, rest, chunks, valid, attempt, asked, results, engine,
    path, waiting,
    clock, work, faults

temporary == <<outputs, links, marker, used, spared, torn>>
telegram == <<state, holder, batch, failing>>
geoip == <<database, settings, locked, writer, reader, writes, pairs>>
probe == <<rejected, stage, rest, chunks, valid, attempt, asked, results, engine>>
locks == <<path, waiting>>
vars == <<part, temporary, telegram, geoip, probe, locks, clock, work, faults>>

Links == INSTANCE TemporaryLinksProofs WITH MaxClock <- LinkClock, MaxFaults <- LinkFaults
Telegram == INSTANCE Notifications WITH
    MaxClock <- TelegramClock, MaxFaults <- TelegramFaults
Geo == INSTANCE GeoStore WITH MaxWrites <- MaxUploads, MaxFaults <- GeoFaults
Probe == INSTANCE MihomoProbe
Order == INSTANCE LockOrder WITH Processes <- Holders

ASSUME WebStoresAssumption ==
    /\ Links!LinksAssumption /\ Links!BoundsAssumption
    /\ Telegram!NamesAssumption /\ Telegram!BoundsAssumption
    /\ Probe!ProbeAssumption /\ Geo!BoundsAssumption

-----------------------------------------------------------------------------

Unused == "unused"
NoLinks == /\ outputs = Unused /\ links = Unused /\ marker = Unused /\ used = Unused
           /\ spared = Unused /\ torn = Unused
NoTelegram == state = Unused /\ holder = Unused /\ batch = Unused /\ failing = Unused
NoGeoip == /\ database = Unused /\ settings = Unused /\ locked = Unused /\ writer = Unused
           /\ reader = Unused /\ writes = Unused /\ pairs = Unused
NoProbe == /\ rejected = Unused /\ stage = Unused /\ rest = Unused /\ chunks = Unused
           /\ valid = Unused /\ attempt = Unused /\ asked = Unused /\ results = Unused
           /\ engine = Unused
NoLocks == path = Unused /\ waiting = Unused

Init ==
    \/ part = "links" /\ Links!Init /\ NoTelegram /\ NoGeoip /\ NoProbe /\ NoLocks
    \/ part = "notifications" /\ Telegram!Init /\ NoLinks /\ NoGeoip /\ NoProbe /\ NoLocks
    \/ /\ part = "geoip" /\ Geo!Init /\ NoLinks /\ NoTelegram /\ NoProbe /\ NoLocks
       /\ clock = Unused /\ work = Unused
    \/ /\ part = "probe" /\ Probe!Init /\ NoLinks /\ NoTelegram /\ NoGeoip /\ NoLocks
       /\ clock = Unused /\ faults = Unused
    \/ /\ part = "locks" /\ Order!Init /\ NoLinks /\ NoTelegram /\ NoGeoip /\ NoProbe
       /\ clock = Unused /\ work = Unused /\ faults = Unused

Next ==
    \/ /\ part = "links" /\ Links!Next
       /\ UNCHANGED <<part, telegram, geoip, probe, locks>>
    \/ /\ part = "notifications" /\ Telegram!Next
       /\ UNCHANGED <<part, temporary, geoip, probe, locks>>
    \/ /\ part = "geoip" /\ Geo!Next
       /\ UNCHANGED <<part, temporary, telegram, probe, locks, clock, work>>
    \/ /\ part = "probe" /\ Probe!Next
       /\ UNCHANGED <<part, temporary, telegram, geoip, locks, clock, faults>>
    \/ /\ part = "locks" /\ Order!Next
       /\ UNCHANGED <<part, temporary, telegram, geoip, probe, clock, work, faults>>

Spec == Init /\ [][Next]_vars

-----------------------------------------------------------------------------
(* The properties of the modules, each with the types of its module once. *)

\* Deleting an output ends its links.
LinksEndWithOutput == part = "links" => Links!TypeOK /\ Links!LinksEndWithOutput

\* Links and outputs end neither early nor, by request or cleanup, late.
TimesHold == [][part = "links" => Links!LinkTimes]_vars

\* A delivery is recorded beside the settings it used, and after no younger one.
DeliveriesRecorded ==
    [][part = "notifications" =>
          /\ Telegram!TypeOK
          /\ Telegram!RecordsOwnProvider /\ Telegram!AttemptsAdvance]_vars

\* A lookup answers from a database its settings describe.
AnswersFromAPair == part = "geoip" => Geo!TypeOK /\ Geo!AnswersFromAPair

\* A completed check judged every node, with one engine at a time.
EveryNodeJudged ==
    part = "probe" => Probe!TypeOK /\ Probe!EveryNodeJudged /\ Probe!OneEngine

\* Processes never wait for each other's locks in a circle.
NoCircle == part = "locks" => Order!TypeOK /\ Order!NoCircle

=============================================================================
