\* Two threads; three descriptors over three handle values, numbers up to 3.
\* No SYMMETRY, as liveness is checked; InOrder makes the kernel hand out handle
\* values that nobody remembers in one order.
CONSTANTS
    t1 = t1  t2 = t2
    o1 = o1  o2 = o2  o3 = o3
    h1 = h1  h2 = h2  h3 = h3
    Threads <- ThreadsDef
    Objs <- ObjsDef
    OsHandles <- HandlesDef
    MaxFd = 3
    Null = Null  Invalid = Invalid  Absent = Absent
SPECIFICATION FairSpec
ACTION_CONSTRAINT InOrder
INVARIANTS TypeOK PointersLive TableAgrees HandleOwnership
PROPERTIES NumbersRetire EndingReturns ImplementsTable
\* A call that registers waits for ever once heap addresses or numbers are used up.
CHECK_DEADLOCK FALSE
