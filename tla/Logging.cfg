\* The main, UART and HTTP tasks, three entries, room for three prints, and two
\* milliseconds.
SPECIFICATION FairSpec
CONSTANTS
  BufferSize = 3
  MaxClock = 1
  MaxEntries = 3
INVARIANTS TypeOK FaultMeansOvertaken SentInOrder
PROPERTY EntriesEnd
CHECK_DEADLOCK FALSE
