\* Two actions confirmed on two threads, through a crash: one that drafts a material
\* request and one of a plain writer, through expiry and purge, or a buying and an
\* approval action, with two session files that are full with one result.  The
\* review: two items, two decisions, two handlers, any number of crashes.
SPECIFICATION MCSpec
CONSTANTS
    c1 = c1
    c2 = c2
    Users = {u1}
    Commands = {c1, c2}
    Writer <- WriterOf
    Requests = {r1, r2}
    Threads = {t1, t2}
    TTL = 1
    Capacity = 2
    MaxTime = 3
    MaxDocs = 2
    MaxCrashes = 1
    Torn = Torn
    Clusters = {k1, k2}
    Choices = {d1, d2}
    Handlers = {t1, t2}
    Undecided = Undecided
    Missing = Missing
    Unreadable = Unreadable
INVARIANTS
    TypeOK
    ResultIsReal
    NoRerun
    SavedAloneIsKept
PROPERTIES
    CompletedForGood
    AnsweredOnce
SYMMETRY Symmetry
CHECK_DEADLOCK FALSE
