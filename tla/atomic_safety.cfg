\* Two threads with two arithmetic operations each, words modulo 4.
CONSTANTS
    t1 = t1  t2 = t2
    Threads <- ThreadsDef
    Word = 4
    MaxOps = 2
    None = None
SPECIFICATION AtomicSpec
SYMMETRY Symmetry
INVARIANTS TypeOK CountKept FlagsKept LockExcludes
