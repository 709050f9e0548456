CONSTANTS
  Streams <- OneStream
  NumPartial = 1
  MaxFrames = 2
  BurstSizes = {2}
  MaxErrors = 0
  HalWaits = FALSE
SPECIFICATION Spec
INVARIANT PositionGivesFrame
