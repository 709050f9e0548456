SPECIFICATION Spec
SYMMETRY MCStreamSymmetry
CONSTANTS
  Streams = {s1, s2}
  Rates = {video, still}
  DefaultRate = video
  BufferCount <- MCBufferCount
  MaxFrames = 3
  MaxConfigs = 2
  MaxBadFrames = 1
  Dumps = FALSE
INVARIANTS
  TypeOK
  PoolExact
  NothingStale
  AnsweredOnce
  DroppedOnlyAfterEarlyFlush
  FlushWorksAlone
PROPERTY ShutterOrder
