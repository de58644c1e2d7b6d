\* Every script of up to six lines of MCLines, with a failing pipe, fork or exec.  The
\* plumber ends when the components run.
CONSTANTS
  Lines <- MCLines
  MaxLines = 6
  PIPE_LIMIT = 3
  PIPE_COUNT = 2
  PERIOD_USEC = 10000
  MaxFaults = 1
SPECIFICATION Spec
INVARIANTS
  TypeOK
  LaunchedAsWritten
  Connected
  TimedAsMarked
  LaunchedOnce
CHECK_DEADLOCK FALSE
