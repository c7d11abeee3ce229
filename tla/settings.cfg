SPECIFICATION FairSpec
CONSTANTS
    Node = {"n1", "n2"}
    Known = {"t1"}
    Flags <- Built
    Edits <- Typed
    Bundles <- Linked
    Registries <- Published
    Budgets <- Small
INVARIANTS
    LinksHeld
PROPERTIES
    FileIsRegister
    SubscriptionArrives
CHECK_DEADLOCK FALSE
