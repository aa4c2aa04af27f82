\* Two plans on two threads, a publication between them, a fault and a crash.
SPECIFICATION FairSpec
CONSTANTS
    group = group
    item1 = item1
    item2 = item2
    Employees = {e1, e2}
    Requests = {q1, q2}
    Threads = {t1, t2}
    Processes = {p1, p2}
    Records = {group, item1, item2}
    Rank <- RankOf
    Support = {group}
    Catalog <- CatalogOf
    Before <- BeforeOf
    Start = 1
    MaxRevision = 2
    MaxFaults = 1
    MaxCrashes = 1
    None = None
    Torn = Torn
INVARIANTS
    TypeOK
    GateSerialises
    ApplyingIsServed
    CompleteIsJournaled
PROPERTIES
    WrittenAsConfirmed
    NoOlderItem
    JournaledIsApplied
    LockIsReleased
    ReleasesAsPromised
CHECK_DEADLOCK FALSE
