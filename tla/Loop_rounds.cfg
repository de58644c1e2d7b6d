\* Enough readings to fill every pipe, and a second session that begins early.  Nothing moves when
\* no reading is left, or when translator and BenchMarker wait for each other.
CONSTANTS
  MaxReadings = 6
  MaxSessions = 2
  MaxLater = 2
  QueueCap = 1
  Size = 2
  Block = 3
  RangeCap = 2
  CmdBlock = 2
  CmdCap = 2
SPECIFICATION FairSpec
INVARIANTS
  TypeOK
PROPERTIES
  CommandsInOrder
  RoundTripTimed
  Answered
CHECK_DEADLOCK FALSE
