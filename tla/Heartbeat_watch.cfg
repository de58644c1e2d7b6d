\* Every failure of the server, delays of any length, signals at every step.  After the
\* client has left, or its takeover runs, everything may stop.
SPECIFICATION FairSpec
INVARIANTS
  TypeOK
  UrgentByteKept
  TakesOverOnce
PROPERTIES
  FalseAlarms
  LossNoticed
CHECK_DEADLOCK FALSE
