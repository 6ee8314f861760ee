SPECIFICATION Spec
CONSTANTS
    Drafts = {d1}
    Requests = {q1}
    Workers = {w1}
    LastDay = 2
    DailyLimit = 1
    TTL = 1
    MaxDeliveries = 2
    MaxCrashes = 1
    Free = Free
INVARIANT
    PhotoIsThere
