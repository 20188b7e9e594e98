CONSTANTS
    Names = {"", "n"}
    Sessions = {s1}
    Conns = {c1, c2, c3}
    NoConn = NoConn
    MaxConnections = 1
    MaxReloads = 1
    Queries <- DriverQueries
    CompatMode = "pin"
    AdminSwitches = {"readonly", "maintenance"}
    Abrupt = FALSE
    Batches <- DriverBatches
    Modes = {"proxy", "multiplex"}
SPECIFICATION ExtSpec
SYMMETRY Symmetry
INVARIANTS
    
    ExtOneHolder
    PoolsClean
    ExtTxAgreement
    ParsedAvailable
    WritesOnWriter
    
