CONSTANTS
  s1 = s1
  s2 = s2
  c1 = c1
  c2 = c2
  None = None
  Sessions <- OneSession
  Callers <- TwoCallers
  Freqs = {1, 2, 3}
  Home = 1
  InRange = {1, 2}
  Fm = {1, 2}
  Operations <- OpsSearch
  OpenMayFail = TRUE
  SeekMayFail = TRUE
  MaxCalls = 5
  MaxTasks = 1
SPECIFICATION Spec
SYMMETRY Sym
INVARIANTS ChipReleased StopEndsSearch
