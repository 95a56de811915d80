CONSTANTS
    i1 = i1
    i2 = i2
    i3 = i3
    s1 = s1
    s2 = s2
    Nobody = Nobody
    Orphan = Orphan
    Instances = {i1, i2, i3}
    Venue = {s1, s2}
    MaxFaults = 2

SPECIFICATION FairSpec

CHECK_DEADLOCK FALSE

INVARIANTS
    TypeOK
    OneEvent
    ServesVenue
    WaitsEnd
PROPERTIES
    VenueSpec
    AllComeUp
