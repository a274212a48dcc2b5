\* Three names in three slots, listed two at a time; two failures, one power cut.
SPECIFICATION FairSpec
CONSTANTS
  Names <- MCNames
  MaxLength = 2
  NumSlots = 3
  ChunkSize = 2
  MaxFailures = 2
  MaxPowerCuts = 1
INVARIANTS TypeOK FilesClosed
PROPERTIES KeepsStorePromises PurgeEnds
