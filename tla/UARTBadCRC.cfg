\* One response whose payload or CRC is damaged.
SPECIFICATION Spec
CONSTANTS
  InitStages = 2
  QueueDepth = 3
  MaxLosses = 0
  MaxCorrupted = 1
  MaxRaces = 0
  MaxOthers = 0
  StraySizes = {12, 59}
  Corruptible = {"rest"}
PROPERTY BadCRCNotProcessed
