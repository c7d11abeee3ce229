SPECIFICATION QuotaFairSpec
CONSTANTS
    Node = {"m", "r"}
    Master = "m"
    Checker = {"c1"}
    Plan <- Plans
    MaxTotal = 2
    MaxLate = 2
    MaxEvents = 1
PROPERTIES
    OverrunRefused
    PeriodAhead
    Reopens
CHECK_DEADLOCK FALSE
