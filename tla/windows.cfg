SPECIFICATION BalanceSpec
CONSTANTS
    Neighbour = {1, 2}
    Picker = {"p1", "p2"}
    Cost = {20, 50}
    HoldWindows = 3
    Cooldown = 1
    StaleAfter = 1
    MinGain = 5
    MaxBreaks = 1
PROPERTIES
    WindowsInARow
CHECK_DEADLOCK FALSE
