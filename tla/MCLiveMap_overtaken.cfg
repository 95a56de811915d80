CONSTANTS
    a = a
    b = b
    s1 = s1
    i1 = i1
    v1 = v1
    None = None
    Seats = {s1}
    Sessions = {a, b}
    Instances = {i1}
    Requests <- TwoSessions
    FaultKinds = {}
    MaxFaults = 0
    Browsers = {v1}
    BufferSize = 2
    MaxPending = 2
    ReuseSlots = FALSE
    FeedMayFail = FALSE

SPECIFICATION LiveSpec

PROPERTIES
    SnapshotKeepsSales
