SPECIFICATION Spec
CONSTANTS
    Letters = {l1, l2, l3}
    Boxes = {1, 2}
    Domain <- MCDomain
    Warm = {}
    DailyCap = 2
    Steps <- MCSteps
    DomainLimit = 2
    Direction = 3
    Bad = 2
    Senders = {s1, s2}
    Hooks = {h1, h2}
    Lag = FALSE
    Ticks = 1
    MaxTime = 1
    MaxLost = 1
    MaxBack = 1
SYMMETRY Symmetry
CHECK_DEADLOCK FALSE
INVARIANTS
    TypeOK
    WithinLimits
    
    PauseComes
