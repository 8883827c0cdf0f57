SPECIFICATION Spec
CONSTANTS
    c1 = c1
    c2 = c2
    Conn <- MCConn
    MaxConcurrent = 1
    MaxResponse = 2
    MaxStarts = 2
INVARIANTS SlotsBalance OneServer CutIsClosed
PROPERTY SlotIsReturned
CHECK_DEADLOCK FALSE
