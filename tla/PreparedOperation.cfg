\* One row: two threads act on it for two sessions of one employee, with two calls.
\* The runtime: two turns at once, two offers of one planning step, two writes, one
\* turn that dies; its clock stands still, so that no offer expires.
SPECIFICATION MCSpec
CONSTANTS
    s1 = s1
    s2 = s2
    s3 = s3
    e1 = e1
    e2 = e2
    Sessions = {s1, s2}
    Employee <- EmployeeOf
    Requests = {r1}
    Calls = {c1, c2}
    PendingIds = {p1}
    Threads = {t1, t2}
    TTL = 1
    MaxTime = 1
    MaxRevision = 1
    MaxFaults = 1
    NoRow = NoRow
    Conversations = {v1, v2}
    Projects = {w1}
    RequestIds = {}
    Nothing = Nothing
    Cut = Cut
    Turns = {n1, n2}
    MaxSteps = 1
    Lifetime = 1
    MaxClock = 0
    MaxOffers = 2
    MaxWrites = 2
    MaxStops = 1
INVARIANTS
    TypeOK
    WrittenOnceAsFrozen
    ConsentInTime
    SentWithAuthority
    CompletedIsWritten
    OneClaimant
    WrittenAsOffered
PROPERTIES
    FrozenForGood
    KeepsPromise
SYMMETRY ActionSymmetry
CHECK_DEADLOCK FALSE
