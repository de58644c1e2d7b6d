\* Replicas without real time priority, two outputs, a burst of two inputs.
CONSTANTS
  Configs <- MCBehind
  MaxIn = 3
SPECIFICATION FairSpec
INVARIANTS
  RestartsTheFailed
