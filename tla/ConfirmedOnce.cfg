\* One command, confirmed on two threads with one request_id.
SPECIFICATION Spec
CONSTANTS
    c1 = c1
    c2 = c2
    Users = {u1}
    Commands = {c1}
    Writer <- WriterOf
    Requests = {r1}
    Threads = {t1, t2}
    TTL = 1
    Capacity = 2
    MaxTime = 1
    MaxDocs = 2
    MaxCrashes = 0
    Torn = Torn
INVARIANT
    ConfirmedOnce
CHECK_DEADLOCK FALSE
