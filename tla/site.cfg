SPECIFICATION Spec
CONSTANTS
    Stages = {"donors", "advertisers"}
    Addresses = {a1, a2}
    MAX_ADDRESSES = 2
    Builders = {b1, b2}
    Clicks = {c1, c2}
    MaxLetters = 3
SYMMETRY Symmetry
CHECK_DEADLOCK FALSE
INVARIANTS
    OneRole
    OneAtATime
