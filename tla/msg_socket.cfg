\* Frames of four, three and two units through a socket that holds three.
CONSTANTS
    h1 = h1  h2 = h2  h3 = h3  h4 = h4
    r1 = r1  r2 = r2  r3 = r3
    NMsgs = 3
    Carried <- CarriedDef
    Bad <- BadDef
    HeadLen = 2  Offset <- OffsetDef
    Capacity = 3
    SHandles = {h1, h2, h3, h4}
    RHandles = {r1, r2, r3}
    Closed = Closed  Own = Own
SPECIFICATION MsgSpec
INVARIANTS TypeOK MessagesWhole InFlightOpen DescriptorsArrive OneHolder
PROPERTIES SendReturns BodyReturns
\* Both sides may close the connection and be done.
CHECK_DEADLOCK FALSE
