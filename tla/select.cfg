\* One caller with a set that holds two of three sockets, one that polls, and
\* two that sleep.
CONSTANTS
    t1 = t1  t2 = t2  t3 = t3  t4 = t4
    Threads = {t1, t2, t3, t4}
    Selectors = {t1}
    Pollers = {t4}
    Sockets = {3, 4, 5}
    HandleOf <- HandleOfDef
    FD_SETSIZE = 2
SPECIFICATION SelectSpec
INVARIANTS SelectTypeOK RaisedInside LoweredOutside BegunBounded AnswersMatch
SYMMETRY Sleepers
ACTION_CONSTRAINT Apart
