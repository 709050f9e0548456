CONSTANTS
  Streams <- TwoStreams
  NumPartial = 2
  MaxFrames = 2
  BurstSizes = {1, 2}
  MaxErrors = 0
  HalWaits = TRUE
SPECIFICATION FairSpec
PROPERTIES AnsweredInFull
