SPECIFICATION LiveSpec
CONSTANTS
    Runs = {r1}
    Workers = {w1}
    QuickPass = TRUE
    MaxJobs = 8
    MaxFaults = 2
CHECK_DEADLOCK FALSE
INVARIANTS
    TypeOK
    OneLiveJob
    ResumesBounded
    BoughtOnce
PROPERTIES
    NoLiveRunIsBuried
    QueuedRunCloses
