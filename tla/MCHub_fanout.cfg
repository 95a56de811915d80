CONSTANTS
    c1 = c1
    c2 = c2
    events = events
    expiries = expiries
    Clients = {c1, c2}
    Broadcasters = {events, expiries}
    BufferSize = 1
    MaxBroadcasts = 2
    SnapshotMayFail = TRUE

SPECIFICATION FairSpec

INVARIANTS
    TypeOK
    NoPanic
    NoSilentGap
    NothingLeaks
    BroadcastNeverWaits
PROPERTIES
    SlowOrGoneClientsEnd

\* All connections may be over and all broadcasts made.
CHECK_DEADLOCK FALSE
