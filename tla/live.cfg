SPECIFICATION LiveSpec
CONSTANTS
    MaxSteps = 2
    Cadence = 1
    Clicks = {c1}
    Passes = {p1}
    Hooks = {h1}
    Jobs = {"processed"}
    MaxClaims = 2
    MaxReturns = 1
    MaxCrashes = 0
CHECK_DEADLOCK FALSE
PROPERTIES
    AcceptedIsSettled
    FollowupNotLost
