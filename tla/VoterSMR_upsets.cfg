\* Two upsets, one after the other has been repaired, and one expiry of the
\* watchdog while the replica still works; three inputs.
CONSTANTS
  Window = 1
  MaxIn = 3
  MaxFaults = 2
  MaxPid = 6
  MaxLate = 1
SPECIFICATION FairSpec
INVARIANTS
  TypeOK
  AtLeastOnceInOrder
PROPERTIES
  Answered
  RestartsEnd
