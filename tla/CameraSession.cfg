SPECIFICATION Spec
CONSTANTS
  s1 = s1
  s2 = s2
  Streams = {s1, s2}
  BufferIds = {1}
  MaxFrames = 2
  MaxConfigs = 2
  Variants <- V
SYMMETRY Symm
INVARIANTS TypeOK RecordsExact BuffersAccounted ResultsRestored
CHECK_DEADLOCK FALSE
