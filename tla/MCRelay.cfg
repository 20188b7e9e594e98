CONSTANTS
    Names = {}
    Sessions = {s1, s2}
    Conns = {c1, c2}
    NoConn = NoConn
    MaxConnections = 1
    MaxReloads = 1
    Queries <- SettingQueries
    CompatMode = "pin"
    AdminSwitches = {"maintenance"}
    Abrupt = TRUE
SPECIFICATION Spec
SYMMETRY Symmetry
INVARIANTS
    StateReset
PROPERTIES
    NoLostSlot
