CONSTANTS
  t1 = t1
  t2 = t2
  s1 = s1
  s2 = s2
  Tokens <- TwoTokens
  Scenes <- TwoScenes
  MaxCalls = 4
  BuiltIn <- TwoCameras
  HotPlugged <- ThirdCamera
  MaxChanges = 5
  Nodes <- ThreeNodes
  Internal <- OneInternal
  MaxNodePlugs = 2
  MaxBufReqs = 4
  Webcams <- SomeWebcams
  ConfigFiles <- SomeConfigFiles
  MaxWebcamPlugs = 2
  Offers <- FormatOffers
  MaxJpegSize = 5120
  BufferSizes <- OneBufferSize
  Kinds <- VideoAndStill
  MaxStreams = 2
  MaxCaptures = 2
  Clients <- TwoClients
  MaxGnssCalls = 3
  MaxWakes = 5
  MaxWakeCallbacks = 2
  Repeats = TRUE
  Prns <- BorderPrns
  SvsCount = 2
  MaxBatch = 2
  MaxReports = 2
  Frameworks <- TwoClients
  Fences <- TwoFences
  Constellations <- FourConstellations
  Blacklists <- SomeBlacklists
  Intervals <- TwoIntervals
  MaxExtCalls = 4
  MaxExtReports = 1
  MaxOps = 2
  MaxFrames = 2
  MaxCancels = 1
  MaxHandlers = 2
  MaxConnCalls = 3
  MaxTimers = 2
  MaxConnEvents = 2
  MaxClients = 2
  MaxExpEvents = 2
  ConfFiles <- FmFiles
  Stations <- FourStations
  Starts <- SomeStarts
  Desense <- OneDesensed
  Pamd <- PamdByFrequency
  AfLists <- SomeAfLists
  Spacing = 10
  DriverUp = 1
  Thresholds <- SomeThresholds
  MaxFmCalls = 2
  MaxExtras = 1
  MaxErrors = 1
  MaxAcquires = 4
SPECIFICATION SuiteSpec
INVARIANTS
  PartsTypeOK
  HintFollowsRequests
  LiveHoldersLinked
  DeadHoldersLeave
  ProvidersAgree
  AnswersMatch
  PromisesKept
  GnssKept
  FaceAnswers
  ConnectionsKept
  ReportsAccounted
  CapturesRight
  ReceiverKept
  HoldsKept
CHECK_DEADLOCK FALSE
