\* One upload, and one write that is cut short.
SPECIFICATION Spec
CONSTANTS
  Images = {old, good, bad}
  Factory = old
  Working = {old, good}
  ImageSize = 3
  MaxChunk = 2
  MaxBlockWriteRetries = 1
  MaxFailures = 1
  MaxUploads = 1
  MaxPowerCuts = 0
PROPERTY WriteBlockReturnsCount
CHECK_DEADLOCK FALSE
