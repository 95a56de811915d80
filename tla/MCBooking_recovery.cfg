CONSTANTS
    a = a
    b = b
    s1 = s1
    s2 = s2
    i1 = i1
    i2 = i2
    None = None
    Seats = {s1, s2}
    Sessions = {a, b}
    Instances = {i1, i2}
    Requests <- TwoServers
    FaultKinds = {"crash", "stop"}
    MaxFaults = 3

SPECIFICATION FairSpec

INVARIANTS
    SaleIsBeingMarked
PROPERTIES
    SoldEventuallyMarked
    MarkersStay
