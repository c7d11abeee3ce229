SPECIFICATION FairSpec
CONSTANTS
    n1 = n1
    n2 = n2
    n3 = n3
    None = None
    Node <- Two
    FirstMaster = n1
    Discipline = "acting"
    MaxEpoch = 3
    MaxBusy = 3
PROPERTIES
    KeepsItsMasters
    ReplicasSync
    PromotionSpreads
