\* A replica that is twice late, killed, and slow to exit.
CONSTANTS
  Window = 1
  MaxIn = 2
  MaxFaults = 0
  MaxPid = 6
  MaxLate = 2
SPECIFICATION FairSpec
PROPERTIES
  OnlySelfKills
