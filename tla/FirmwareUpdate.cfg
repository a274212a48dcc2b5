\* Two uploads of images that may work or not, failing calls to the file
\* system, and a power cut, with and without remote logging.
SPECIFICATION FairSpec
CONSTANTS
  Images = {old, good, bad}
  Factory = old
  Working = {old, good}
  ImageSize = 3
  MaxChunk = 2
  MaxBlockWriteRetries = 1
  MaxFailures = 2
  MaxUploads = 2
  MaxPowerCuts = 1
INVARIANTS TypeOK UpdatesAlone CommittedImageWorks WatchdogGuards BlockStored PartTakenAsDeclared
PROPERTY UpdateEnds
CHECK_DEADLOCK FALSE
