\* Three replicas, up to three restarts, two deaths or failed forks at any moment; a
\* voter that is gone, or waits for a dead process, stops.
CONSTANTS
    N = 3
    MaxRestarts = 3
    MaxFaults = 2
    MaxPid = 9
SPECIFICATION Spec
INVARIANTS TypeOK SlotsMatch NoOrphans FreshCopy
PROPERTIES HandshakeEnds
CHECK_DEADLOCK FALSE
