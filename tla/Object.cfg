SPECIFICATION MCSpec
CONSTANTS
    InsnSize = 8
    DefSize = 2
    Procs = {p1, p2}
    Caller = p1
    Wanted = {"connections_table", "xdp_stats_map"}
    LoadFiles = {"small", "bare", "last"}
    Files <- MCFiles
    ImageOf <- MCImageOf
    KernelName <- MCKernelName
    MaxFd = 5
    MaxOpens = 1
    MaxOwn = 1
    Shared = {"connections_table"}
    Instances = {2}
INVARIANT ForeignUntouchedWithoutBtf
INVARIANT NothingLost
PROPERTY LoadAllOrNothing
PROPERTY PinAllOrNothing
INVARIANT MapFdIsShared
CHECK_DEADLOCK FALSE
