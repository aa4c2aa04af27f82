\* One draft, confirmed three times on one thread; nothing else happens.
SPECIFICATION MCSpec
CONSTANTS
    A = A
    B = B
    MaxLine = 1
    Contents = {A, B}
    First <- FirstOf
    Threads = {t1}
    MaxCode = 2
    MaxRevision = 1
    MaxConfirms = 3
    MaxDrafts = 1
    Foreign = {A}
    MaxFaults = 0
    Free = Free
    Readers = {t1}
    MaxCommits = 1
    MaxEdition = 1
    MaxRows = 1
    MaxFailures = 0
    Unset = Unset
    MaxJobs = 1
    MaxPages = 1
INVARIANT
    PublishedStaysPut
CHECK_DEADLOCK FALSE
