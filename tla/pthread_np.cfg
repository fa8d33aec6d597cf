\* Four threads in up to two groups, keys 1 and 2, child_threads modulo 4.
CONSTANTS
    t1 = t1  t2 = t2  t3 = t3  t4 = t4
    g1 = g1  g2 = g2
    v1 = v1
    Threads <- ThreadsDef
    Groups <- GroupsDef
    Values = {v1}
    MaxKey = 3
    Word = 4
    NoGroup = NoGroup
SPECIFICATION NpSpec
SYMMETRY Symmetry
INVARIANTS TypeOK GroupsLive KeyBeforeUse KeysAccounted FreshKeysReadZero ChildrenCounted
\* Every thread may end, and group addresses are used once.
CHECK_DEADLOCK FALSE
