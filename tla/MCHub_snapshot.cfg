CONSTANTS
    c1 = c1
    c2 = c2
    events = events
    expiries = expiries
    Clients = {c1, c2}
    Broadcasters = {events, expiries}
    BufferSize = 1
    MaxBroadcasts = 2
    SnapshotMayFail = FALSE

SPECIFICATION Spec

INVARIANT
    ServedWithSnapshot

CHECK_DEADLOCK FALSE
