SPECIFICATION ExitsSpec
CONSTANTS
    a = a
    b = b
    f1 = f1
    f2 = f2
    AutoTag = AutoTag
    Direct = Direct
    Node <- Two
    Master = a
    Tagged <- Two
    Flow = {f1, f2}
    Label = {b, AutoTag}
    DefaultHops = 3
    MaxConns = 2
    MaxEvents = 1
    Neighbour = {1, 2}
    Picker = {"p1", "p2"}
    Cost = {20, 50}
    HoldWindows = 3
    Cooldown = 1
    StaleAfter = 1
    MinGain = 5
    MaxBreaks = 1
INVARIANTS
    NoLeakedConn
    LinksFollowRegistry
    LabelHonoured
PROPERTIES
    ReplicasDropDisabled
    LeavesLost
CHECK_DEADLOCK FALSE
