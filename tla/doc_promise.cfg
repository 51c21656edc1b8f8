SPECIFICATION Spec
CONSTANTS
    a = a
    b = b
    c = c
    Runs = {a, b, c}
    Consoles = {c}
    Rivals = {b}
    Wanted <- MCWanted
    KeyLimit = 6
    Cap = 5
    Asked = {4}
    Slots = 1
    MaxNeighbour = 0
    MaxFaults = 1
CHECK_DEADLOCK FALSE
INVARIANTS
    PromiseKept
