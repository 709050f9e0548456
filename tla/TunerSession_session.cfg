CONSTANTS
  s1 = s1
  s2 = s2
  c1 = c1
  c2 = c2
  None = None
  Sessions <- TwoSessions
  Callers <- TwoCallers
  Freqs = {1}
  Home = 1
  InRange = {1}
  Fm = {1}
  Operations <- OpsSession
  OpenMayFail = FALSE
  SeekMayFail = TRUE
  MaxCalls = 5
  MaxTasks = 1
SPECIFICATION Spec
SYMMETRY Sym
INVARIANTS TypeOK ClosedDeviceLeftAlone OpenSessionOwnsDevice
