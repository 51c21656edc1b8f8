CONSTANTS
    MaxSteps = 2
    Cadence = 1
    Clicks = {c1}
    Passes = {p1}
    Hooks = {h1}
    Jobs = {"human"}
    MaxClaims = 2
    MaxReturns = 0
    MaxCrashes = 0
CHECK_DEADLOCK FALSE
SPECIFICATION Spec
INVARIANT AnswerEndsChain
