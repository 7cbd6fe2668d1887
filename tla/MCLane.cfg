SPECIFICATION FairSpec
CONSTANTS
    Producer = {p1, p2}
    Update = {u1, u2, u3, u4}
    Unmergeable = {u2}
    Cap = 1
    MaxAw = 2
INVARIANTS Sound
PROPERTIES Drains
CHECK_DEADLOCK FALSE
