\* The intake: one analysis of one or two drafts, two handler threads, two
\* confirmations, and one Item of somebody else or one restart.  The
\* catalog: two transactions after the first, two handler threads, one failure.  The
\* tariff: two jobs of two pages.
SPECIFICATION MCSpec
CONSTANTS
    A = A
    B = B
    MaxLine = 2
    Contents = {A, B}
    First <- FirstOf
    Threads = {t1, t2}
    MaxCode = 3
    MaxRevision = 1
    MaxConfirms = 2
    MaxDrafts = 2
    Foreign = {A}
    MaxFaults = 1
    Free = Free
    Readers = {t1, t2}
    MaxCommits = 3
    MaxEdition = 2
    MaxRows = 2
    MaxFailures = 1
    Unset = Unset
    MaxJobs = 2
    MaxPages = 2
SYMMETRY Symmetric
INVARIANTS
    TypeOK
    WrittenAsConfirmed
    PublishedIsReal
    ReportedIsReal
    PublishedAsOne
    AppliedIsCommitted
    PageFollows
    FilesMatchDatabase
    TreeIsWhole
CHECK_DEADLOCK FALSE
