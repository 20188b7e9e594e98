CONSTANTS
    r1 = r1
    r2 = r2
    Addrs = {r1, r2}
    Callers = {s1}
    ReaderLists <- Lists
    MaxReloads = 2
    IndexCycle = 2
    WindowSize = 2
    HalfOpenMax = 2
    ThresholdNum = 1
    ThresholdDen = 2
SPECIFICATION LoadedSpec
INVARIANTS
    WindowsSound
    NextComplete
PROPERTIES
    HealthPreserved
    Recovery
