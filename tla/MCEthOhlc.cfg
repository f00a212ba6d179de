CONSTANTS
    Sessions = {s1, s2}
    Chunk = 2
    MaxSize = 2
    MaxTime = 4
SPECIFICATION Spec
INVARIANTS TypeOK PricesFinal PassComplete
PROPERTIES GrowsByOne PassEnds
CHECK_DEADLOCK FALSE
