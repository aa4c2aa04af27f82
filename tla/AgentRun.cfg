\* Two turns and two confirmations from one page that may reload (so it stands for
\* several tabs), a registry of one record, a restart.
SPECIFICATION FairSpec
CONSTANTS
    Runs = {r1, r2}
    Confirms = {c1, c2}
    Pages = {p1}
    Capacity = 1
    MaxRestarts = 1
    None = None
INVARIANTS
    TypeOK
    LiveRunsAreRegistered
    OutcomesAreRecorded
    OfferedIsOpen
PROPERTIES
    TerminalForGood
    EveryWaitEnds
CHECK_DEADLOCK FALSE
