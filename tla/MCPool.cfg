CONSTANTS
    Borrowers = {b1, b2, b3}
    Warmers = {w1}
    Checker = checker
    Conns = {c1, c2}
    NoConn = NoConn
    MinConnections = 1
    MaxConnections = 2
    DialsMayFail = TRUE
SPECIFICATION FairSpec
INVARIANTS
    TypeOK
    SlotAccounting
    SocketBound
    Exclusive
    ClosedIsEmpty
PROPERTIES
    NoEscape
    CloseUnblocks
    CloseDrains
    LeaseSpec
