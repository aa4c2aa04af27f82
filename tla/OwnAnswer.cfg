\* Two users whose browsers chose the same request_id.
SPECIFICATION Spec
CONSTANTS
    c1 = c1
    c2 = c2
    Users = {u1, u2}
    Commands = {c1, c2}
    Writer <- WriterOf
    Requests = {r1}
    Threads = {t1, t2}
    TTL = 1
    Capacity = 2
    MaxTime = 1
    MaxDocs = 2
    MaxCrashes = 0
    Torn = Torn
INVARIANT
    OwnAnswer
CHECK_DEADLOCK FALSE
