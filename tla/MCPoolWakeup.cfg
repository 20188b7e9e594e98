CONSTANTS
    Borrowers = {b1, b2, b3, b4}
    Warmers = {w1, w2}
    Checker = checker
    Conns = {c1, c2}
    NoConn = NoConn
    MinConnections = 0
    MaxConnections = 2
    DialsMayFail = FALSE
SPECIFICATION Spec
SYMMETRY Symmetry
INVARIANTS
    NoLostWakeup
