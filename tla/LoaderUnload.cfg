SPECIFICATION Spec
SYMMETRY Symmetry
CONSTANTS
  Runs = {r1, r2}
  None = None
  Files = {"syncookie.o"}
  Modes = {"skb", "drv", "auto"}
  Native = TRUE
  Overlap = FALSE
  Kills = FALSE
  Faults = FALSE
CHECK_DEADLOCK FALSE
INVARIANT UnloadRemoves
