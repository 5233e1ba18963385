SPECIFICATION MCSpec
CONSTANTS
    Frames = {f1, f2, f3}
    Size = 2
    Width = 4
    MaxBatch = 2
    Sockets = {s1, s2}
    Umems = {u1, u2}
    NicQueues = {q1, q2}
    None = None
    PerfSize = 4
    Sizes = {1, 2, 3}
    MaxRecords = 5
    MaxFails = 1
INVARIANT RefcountExact
INVARIANT SetEntryHasSocket
INVARIANT SocketIsServed
INVARIANT RecordsInOrder
PROPERTY RingsAreQueues
PROPERTY FrameReturns
PROPERTY AllDelivered
CHECK_DEADLOCK FALSE
