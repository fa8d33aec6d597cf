\* The value an operation returns, against the header.
CONSTANTS
    t1 = t1  t2 = t2
    Threads <- ThreadsDef
    Word = 4
    MaxOps = 2
    None = None
SPECIFICATION AtomicSpec
PROPERTIES ReturnsPrevious
