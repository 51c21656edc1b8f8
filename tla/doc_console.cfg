SPECIFICATION LiveSpec
CONSTANTS
    Runs = {r1}
    Workers = {w1}
    QuickPass = TRUE
    MaxJobs = 0
    MaxFaults = 1
CHECK_DEADLOCK FALSE
PROPERTIES
    HungRunIsClosed
