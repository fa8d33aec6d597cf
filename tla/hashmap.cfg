\* Five key addresses, four contents, initial capacities for 1 and 4 buckets.
CONSTANTS
    Keys = {"a", "aa", "b", "c", "d"}
    Content <- ContentDef
    Hash <- HashDef
    Values = {v1}
    Capacities = {0, 2}
    CallbackAdds = FALSE
    Null = Null  Absent = Absent
SPECIFICATION HashSpec
INVARIANTS TypeOK EntriesPlaced SizeCounts EachVisited
PROPERTIES ImplementsMap
