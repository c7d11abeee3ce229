SPECIFICATION Spec
CONSTANTS
    n1 = n1
    n2 = n2
    n3 = n3
    None = None
    Node <- Two
    FirstMaster = n1
    Discipline = "any"
    MaxEpoch = 2
    MaxBusy = 3
INVARIANT
    OneWriterPerEpoch
