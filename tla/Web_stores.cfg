SPECIFICATION Spec
CONSTANTS
    None = None
    Workers = {w1, w2}
    Names = {f, g}
    Ids = {i, j}
    Users = {u}
    Scanner = s
    Chats = {c, d}
    Kinds = {k}
    Databases = {a, b}
    Holders <- Everyone
    Lifetime = 2
    Retention = 1
    Interval = 1
    MaxTombstones = 1
    LinkClock = 2
    LinkFaults = 1
    TelegramClock = 1
    MaxRevision = 2
    TelegramFaults = 2
    MaxUploads = 3
    GeoFaults = 2
    Count = 5
    BatchSize = 3
    Attempts = 2
INVARIANTS
    LinksEndWithOutput
    AnswersFromAPair
    EveryNodeJudged
    NoCircle
PROPERTIES
    TimesHold
    DeliveriesRecorded
CHECK_DEADLOCK FALSE
