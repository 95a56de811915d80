CONSTANTS
    a = a
    b = b
    s1 = s1
    s2 = s2
    i1 = i1
    i2 = i2
    None = None
    Seats = {s1}
    Sessions = {a, b}
    Instances = {i1}
    Requests <- OneServer
    FaultKinds = {"redisWipe"}
    MaxFaults = 1

SPECIFICATION FairSpec

PROPERTY
    SoldEventuallyMarked
