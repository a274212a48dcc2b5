\* Two initialization messages; losses, damage, early timeouts, buttons.
SPECIFICATION FairSpec
CONSTANTS
  InitStages = 2
  QueueDepth = 3
  MaxLosses = 1
  MaxCorrupted = 1
  MaxRaces = 1
  MaxOthers = 1
  StraySizes = {12, 59}
  Corruptible = {"som", "header"}
INVARIANTS TypeOK OneInitChain ReceivedMessagesFit MessagesAreWhole
PROPERTIES InitCompletes ReceiverRecovers
