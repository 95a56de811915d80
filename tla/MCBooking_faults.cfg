CONSTANTS
    a = a
    b = b
    s1 = s1
    s2 = s2
    i1 = i1
    i2 = i2
    None = None
    Seats = {s1}
    Sessions = {a, b}
    Instances = {i1}
    Requests <- OneServer
    FaultKinds = {"error", "lostReply", "redisWipe", "crash", "stop"}
    MaxFaults = 3

SPECIFICATION Spec

INVARIANTS
    TypeOK
    NoDoubleBooking
    SuccessMeansOwner
    OneSale
    MarkerSound
    AnswersTrue
PROPERTIES
    TruthfulRejection
    HoldsAreKept
    SaleSpec
