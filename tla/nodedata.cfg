SPECIFICATION DataSpec
CONSTANTS
    w1 = w1
    w2 = w2
    Write = {w1, w2}
    TableOf <- TwoTables
    MaxGen = 3
    MaxCrash = 2
    MaxStage = 2
    n1 = n1
    n2 = n2
    Node <- Two
    FirstMaster = n1
    MaxBytes = 2
    MaxLoss = 1
    MaxPromote = 1
    MaxRestart = 1
INVARIANTS
    LiveFilesStay
    LossesExplained
PROPERTIES
    RestartNotOlder
    ReportsConverge
CHECK_DEADLOCK FALSE
