SPECIFICATION FairSpec
CONSTANTS
    c1 = c1
    c2 = c2
    k1 = k1
    k2 = k2
    None = None
    Client = {c1, c2}
    Conn = {k1, k2}
    Admin = {"a1", "a2"}
    Sid = {"s1", "s2"}
    Pool = 2
    Limits = {0, 1}
    Budgets <- Small
    Patches <- Ask
INVARIANTS
    TrafficAccounted
    
    AddressesKept
    EditsKept
PROPERTIES
    SlotsReturn
CHECK_DEADLOCK FALSE
