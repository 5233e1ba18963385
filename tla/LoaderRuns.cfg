SPECIFICATION Spec
SYMMETRY Symmetry
CONSTANTS
  Runs = {r1, r2, r3}
  None = None
  Files = {"syncookie.o", "xdp_prog_kern.o"}
  Modes = {"skb", "drv", "auto"}
  Native = TRUE
  Overlap = TRUE
  Kills = TRUE
  Faults = TRUE
CHECK_DEADLOCK FALSE
INVARIANT TypeOK
INVARIANT FailedLeavesNothing
INVARIANT LoadIsComplete
INVARIANT PinsAllOrNothing
INVARIANT PinnedIsAttached
PROPERTY OnlyForceReplaces
