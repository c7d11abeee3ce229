SPECIFICATION MobileFairSpec
CONSTANTS
    MaxStarts = 2
    PairSize = 1
    InSize = 1
    Scenarios <- Small
PROPERTIES
    StopReleases
CHECK_DEADLOCK FALSE
