SPECIFICATION Spec
SYMMETRY Symmetry
CONSTANTS
  Runs = {r1, r2, r3}
  None = None
  Files = {"syncookie.o"}
  Modes = {"skb", "drv", "auto"}
  Native = TRUE
  Overlap = FALSE
  Kills = TRUE
  Faults = FALSE
CHECK_DEADLOCK FALSE
INVARIANT LeftoversHandled
