SPECIFICATION FairSpec
CONSTANTS
    Addr = {a1, a2}
    None = None
    MaxSockets = 6
    Budgets <- Few
    MaxIds = 3
    KeepAlive = 3
    SilenceLimit = 4
    RepairEvery = 1
    MigrateTimeout = 2
    IdleTimeout = 9
    MaxRepairs = 2
INVARIANTS
    SocketsHeld
    MappingLossHealed
PROPERTIES
    SettlesOnAddress
    SilenceEnds
CHECK_DEADLOCK FALSE
