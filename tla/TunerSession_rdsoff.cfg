CONSTANTS
  s1 = s1
  s2 = s2
  c1 = c1
  c2 = c2
  None = None
  Sessions <- OneSession
  Callers <- TwoCallers
  Freqs = {1, 2}
  Home = 1
  InRange = {1, 2}
  Fm = {1, 2}
  Operations <- OpsRdsOff
  OpenMayFail = FALSE
  SeekMayFail = FALSE
  MaxCalls = 3
  MaxTasks = 1
SPECIFICATION FairSpec
PROPERTIES FilterSettles
