SPECIFICATION SSpec
CONSTANTS
  Runs = {r1, r2}
  None = None
  Files = {"xdp_prog_kern.o", "syncookie.o"}
  Modes = {"auto"}
  Native = TRUE
  Overlap = FALSE
  Kills = FALSE
  Faults = FALSE
  NCpus = 2
  ActionMax = 2
  Entries <- MCEntries
  Sections = {0}
  Length = 2
  MaxPackets = 2
CHECK_DEADLOCK FALSE
INVARIANT ValueInitialized
INVARIANT WatchesAttached
PROPERTY ShownExactly
INVARIANT ReadingsInOrder
