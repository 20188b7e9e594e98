CONSTANTS
    Names = {"", "n"}
    Sessions = {s1}
    Conns = {c1, c2, c3}
    NoConn = NoConn
    MaxConnections = 1
    MaxReloads = 0
    Queries <- DriverQueries
    CompatMode = "allow"
    AdminSwitches = {}
    Abrupt = FALSE
    Batches <- PipelinedBatches
    Modes = {"proxy"}
SPECIFICATION ExtSpec
SYMMETRY Symmetry
INVARIANTS
    PoolsClean
