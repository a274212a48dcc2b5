\* A value shorter than the buffer it is read into.
SPECIFICATION Spec
CONSTANTS
  Names <- MCNames
  MaxLength = 2
  NumSlots = 4
  ChunkSize = 2
  MaxFailures = 0
  MaxPowerCuts = 0
INVARIANT GetReportsLength
