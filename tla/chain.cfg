SPECIFICATION Spec
CONSTANTS
    MaxSteps = 2
    Cadence = 1
    Clicks = {c1}
    Passes = {p1, p2}
    Hooks = {h1}
    Jobs = {"processed", "bounce_reply", "optout"}
    MaxClaims = 2
    MaxReturns = 1
    MaxCrashes = 1
CHECK_DEADLOCK FALSE
SYMMETRY Symmetry
INVARIANTS
    DueNotBehind
PROPERTIES
    KeepsPromise
    SilentAfterStop
