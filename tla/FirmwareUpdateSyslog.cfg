\* One upload, nothing fails.
SPECIFICATION FairSpec
CONSTANTS
  Images = {old, good, bad}
  Factory = old
  Working = {old, good}
  ImageSize = 3
  MaxChunk = 2
  MaxBlockWriteRetries = 1
  MaxFailures = 0
  MaxUploads = 1
  MaxPowerCuts = 0
PROPERTY HTTPTaskUnblocked
CHECK_DEADLOCK FALSE
