\* two producers and two consumers on two slots; constructing a value may throw,
\* which leaves its slot wedged, so calls may spin for ever
SPECIFICATION Spec
CONSTANTS
    Producers = {p1, p2}
    Consumers = {c1, c2}
    Capacity = 2
    CanThrow = TRUE
    PushQuota = 3
    PopQuota = 3
SYMMETRY ThreadSymmetry
INVARIANTS TypeOK SlotsExclusive LifetimesOK DestructorExact TicketOrder
PROPERTIES FailureIsHonest
CHECK_DEADLOCK FALSE
