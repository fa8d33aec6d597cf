\* Three threads that may be the first at once.
CONSTANTS
    t1 = t1  t2 = t2  t3 = t3
    v1 = v1  v2 = v2
    Threads = {t1, t2, t3}
    Values = {v1}
    Foreign = Foreign
    Indexes = {1, 2}
    OutOfIndexes = OutOfIndexes
    Null = Null
    RaceFree = FALSE
SPECIFICATION Spec
INVARIANTS LinesWhole
