SPECIFICATION FairSpec
CONSTANTS
  Streams = {s1}
  Rates = {video, still}
  DefaultRate = video
  BufferCount <- MCBufferCount
  MaxFrames = 2
  MaxConfigs = 2
  MaxBadFrames = 1
  Dumps = TRUE
PROPERTIES
  CloseTerminates
  EveryRequestAnswered
