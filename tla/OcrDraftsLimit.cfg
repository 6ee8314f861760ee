SPECIFICATION Spec
CONSTANTS
    Drafts = {d1, d2, d3}
    Requests = {q1, q2}
    Workers = {}
    LastDay = 1
    DailyLimit = 1
    TTL = 1
    MaxDeliveries = 1
    MaxCrashes = 0
    Free = Free
SYMMETRY Interchangeable
INVARIANT
    OvershootBounded
