SPECIFICATION Spec
CONSTANTS
    MaxSteps = 1
    Cadence = 0
    Clicks = {c1, c2}
    Passes = {}
    Hooks = {h1}
    Jobs = {"processed", "delivered", "bounce", "dns_bounce", "spamreport",
            "unsubscribe_reply", "human"}
    MaxClaims = 3
    MaxReturns = 2
    MaxCrashes = 1
CHECK_DEADLOCK FALSE
SYMMETRY Symmetry
INVARIANTS
    TypeOK
    CountedOnce
    TraceOfAcceptance
    AtMostOncePerGrant
    OneCarrier
PROPERTIES
    SentStaysSent
