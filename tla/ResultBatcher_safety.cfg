CONSTANTS
  Streams <- OneStream
  NumPartial = 1
  MaxFrames = 4
  BurstSizes = {2}
  MaxErrors = 1
  HalWaits = TRUE
SPECIFICATION Spec
INVARIANTS TypeOK NothingStranded QuiescentBatchesGone
PROPERTY DeliveryKept
