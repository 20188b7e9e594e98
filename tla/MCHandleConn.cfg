CONSTANTS
    u1 = u1
    d1 = d1
    Users = {u1, u2}
    DBs = {d1}
    Sessions = {s1, s2, s3}
    Conns = {c1}
    NoConn = NoConn
    NoTracker = NoTracker
    NoLogin = NoLogin
    Limits <- MCLimits
    MaxCancels = 1
SPECIFICATION Spec
SYMMETRY Symmetry
INVARIANTS
    TypeOK
    NeverOvercounted
    CountsExact
PROPERTIES
    LimitsRespected
    
