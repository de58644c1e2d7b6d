\* Two rings of 3 bytes: every index, every fill level, blocks that wrap.
CONSTANTS
  Pipes = {p1, p2}
  MAX_VOTE_PIPE_BUFF = 3
  Byte = {0, 1}
SPECIFICATION Spec
INVARIANTS
  TypeOK
  CompareIsByStream
PROPERTIES
  ImplementsQueues
