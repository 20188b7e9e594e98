CONSTANTS
    r1 = r1
    r2 = r2
    Addrs = {r1, r2}
    Callers = {s1}
    ReaderLists <- Lists
    MaxReloads = 0
    IndexCycle = 2
    MaxLSN = 2
SPECIFICATION CausalSpec
INVARIANTS
    ReadYourCommits
