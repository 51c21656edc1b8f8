SPECIFICATION Spec
CONSTANTS
    a = a
    b = b
    c = c
    Runs = {a, b, c}
    Consoles = {c}
    Rivals = {b}
    Wanted <- MCWanted
    KeyLimit = 6
    Cap = 5
    Asked = {4, 5}
    Slots = 1
    MaxNeighbour = 1
    MaxFaults = 1
CHECK_DEADLOCK FALSE
INVARIANTS
    TypeOK
    
    
PROPERTIES
    FreeIsFree
    
