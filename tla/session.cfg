SPECIFICATION WholeSpec
CONSTANTS
    Adapter = {"lan", "lte"}
    MaxCrash = 2
    MaxMoves = 1
    t = t
    u = u
    Flow <- Flows2
    Udp <- UdpFlows
    Streams = 1
    Buffer = {1, 2, 3}
    ChSize = 1
    OutSize = 1
    InSize = 1
    BatchSize = 1
    MaxPackets = 2
INVARIANTS
    SettingsRecoverable
    QuietWhenStopped
    BuffersKept
    GoroutinesEnd
    FlowsGetThrough
PROPERTIES
    Reconnects
CHECK_DEADLOCK FALSE
