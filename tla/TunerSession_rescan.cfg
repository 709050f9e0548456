CONSTANTS
  s1 = s1
  s2 = s2
  c1 = c1
  c2 = c2
  None = None
  Sessions <- TwoSessions
  Callers <- TwoCallers
  Freqs = {1, 2}
  Home = 1
  InRange = {1, 2}
  Fm = {1, 2}
  Operations <- OpsRescan
  OpenMayFail = FALSE
  SeekMayFail = FALSE
  MaxCalls = 5
  MaxTasks = 1
SPECIFICATION Spec
INVARIANTS ScanRefusedForOwnClose
