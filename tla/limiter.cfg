\* Two users, any number of requests in a tick, a clock of more than two windows,
\* one restart.
SPECIFICATION Spec
CONSTANTS
  Keys = {k1, k2}
  limit = 2
  window = 2
  MaxTime = 4
  MaxBoots = 1
SYMMETRY Symmetric
INVARIANTS
  RefusedAtLimitOnly
  IndInv
  WindowBound
  WindowBoundAcrossRestarts
