CONSTANTS
    a = a
    b = b
    s1 = s1
    i1 = i1
    v1 = v1
    None = None
    Seats = {s1}
    Sessions = {a}
    Instances = {i1}
    Requests <- OneSession
    FaultKinds = {"error", "redisWipe", "crash", "stop", "lostReply"}
    MaxFaults = 1
    Browsers = {v1}
    BufferSize = 2
    MaxPending = 2
    ReuseSlots = FALSE
    FeedMayFail = TRUE

SPECIFICATION LiveFairSpec

INVARIANTS
    LiveTypeOK
    ViewSound
    ResyncExact
PROPERTIES
    SalesReachWatchers
    EventsStayOnTheWay
    SaleHasTheLastWord
