CONSTANTS
    EventBuffer = 2
    MaxWebhooks = 1
    Workers = {w1, w2}
    WorkBuffer = 1
    MaxEdits = 1
    Torn = Torn
    NoLoad = NoLoad
    Clients = {s1, s2}
SPECIFICATION FairStart
CHECK_DEADLOCK FALSE
INVARIANTS
    DrainedFirst
    AuditComplete
    MirrorPoolUnused
PROPERTIES
    ShutdownCompletes
    ConfigCurrent
