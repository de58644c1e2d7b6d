\* The voter as it is configured: three and two RT replicas, three without real time
\* priority, and three that interleave freely with the voter, which may then block for
\* ever in a read or in accept.
CONSTANTS
  Configs <- MCShipped
  MaxIn = 3
SPECIFICATION FairSpec
INVARIANTS
  TypeOK
  IndexesAligned
  RestartsTheFailed
  ReadsNeverBlock
  SurvivorsInStep
PROPERTIES
  Answered
  Repaired
  MostBehindFirst
  DoesNotFail
CHECK_DEADLOCK FALSE
