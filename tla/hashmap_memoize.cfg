\* Callbacks of hashmapMemoize that add to the map.
CONSTANTS
    Keys = {"a", "aa", "b", "c", "d"}
    Content <- ContentDef
    Hash <- HashDef
    Values = {v1}
    Capacities = {0, 2}
    CallbackAdds = TRUE
    Null = Null  Absent = Absent
SPECIFICATION HashSpec
PROPERTIES MemoizeStores
\* A link to an entry that has moved on may lead to nothing, where the program stops.
CHECK_DEADLOCK FALSE
