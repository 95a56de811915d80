CONSTANTS
    r1 = r1
    r2 = r2
    s1 = s1
    a1 = a1
    Requests = {r1, r2}
    NoRequest = NoRequest
    Sessions = {s1}
    NoSession = NoSession
    Addresses = {a1}
    NoBucket = NoBucket
    PerMinute = 1
    Minute = 2
    Burst = 2
    IdleMinutes = 2
    MaxDelay = 1
    MaxTime = 8

SPECIFICATION Spec

INVARIANTS
    TypeOK
    Throttled
    KeptWhileNeeded
PROPERTIES
    BucketsSpec
