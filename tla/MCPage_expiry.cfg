CONSTANTS
    a = a
    s1 = s1
    s2 = s2
    i1 = i1
    v1 = v1
    None = None
    Seats = {s1, s2}
    Sessions = {a}
    Instances = {i1}
    Requests <- TwoSeats
    FaultKinds = {}
    MaxFaults = 0
    Browsers = {v1}
    BufferSize = 2
    MaxPending = 1
    ReuseSlots = FALSE
    FeedMayFail = FALSE
    Me = a
    Tab = v1
    NetworkMayFail = FALSE

SPECIFICATION PageSpec

PROPERTIES
    ExpiryToastTrue
