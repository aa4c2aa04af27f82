\* The workbench is restarted while its command is running.
SPECIFICATION Spec
CONSTANTS
    group = group
    item1 = item1
    item2 = item2
    Employees = {e1}
    Requests = {q1, q2}
    Threads = {t1, t2}
    Processes = {p1, p2}
    Records = {group, item1, item2}
    Rank <- RankOf
    Support = {group}
    Catalog <- CatalogOf
    Before <- BeforeOf
    Start = 1
    MaxRevision = 2
    MaxFaults = 0
    MaxCrashes = 1
    None = None
    Torn = Torn
INVARIANT
    OneRunner
CHECK_DEADLOCK FALSE
