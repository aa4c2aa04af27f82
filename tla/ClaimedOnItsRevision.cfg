\* A catalog revision published between prepare and confirm.
SPECIFICATION Spec
CONSTANTS
    s1 = s1
    s2 = s2
    s3 = s3
    e1 = e1
    e2 = e2
    Sessions = {s1, s2}
    Employee <- EmployeeOf
    Requests = {r1}
    Calls = {c1, c2}
    PendingIds = {p1}
    Threads = {t1, t2}
    TTL = 1
    MaxTime = 1
    MaxRevision = 1
    MaxFaults = 1
    NoRow = NoRow
PROPERTY
    ClaimedOnItsRevision
CHECK_DEADLOCK FALSE
