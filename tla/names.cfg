SPECIFICATION FairSpec
CONSTANTS
    None = None
    Domain = {"site", "far"}
    Real = {cdn, own, six}
    cdn = cdn
    own = own
    six = six
    Size = 1
    PoolTTL = 3
    Program = {"p1", "p2"}
    Upstream = {"u1", "u2"}
    Zone <- Two
    Rules <- Chain
    Default = "direct"
    AnswerTTL = 2
    RecordTTL = 4
    Ttls <- Times
    Sizes = {1, 2}
    Started <- AtFirst
    MaxPatches = 1
PROPERTIES
    FlowsGoWhereAsked
    UpstreamTakesOver
    LeasesKept
CHECK_DEADLOCK FALSE
