CONSTANTS
    MaxEntries = 1
    TTL = 0
    t1 = t1
    t2 = t2
    Star = Star
    p1 = p1
    p2 = p2
    c1 = c1
    c2 = c2
    Home <- MCHome
    Proxies = {p1, p2}
    Clients = {c1, c2}
    Tables = {t1, t2}
    Keys = {"k1", "k2"}
    ReadsOf <- MCReadsOf
    Writes <- MCWrites
    Flushes = {Star}
    MaxCommits = 1
    MaxPending = 1
SPECIFICATION FairSpec
INVARIANTS
    TypeOK
    IndexExact
    StaleOnlyIfLate
PROPERTIES
    EventuallyFresh
