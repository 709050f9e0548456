SPECIFICATION Spec
CONSTANTS
  Streams = {s1}
  Rates = {video}
  DefaultRate = video
  BufferCount <- MCBufferCount
  MaxFrames = 1
  MaxConfigs = 1
  MaxBadFrames = 0
  Dumps = TRUE
INVARIANT DumpFindsOutputThread
