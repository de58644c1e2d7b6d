\* The timed output is written before another one.
CONSTANTS
  Configs <- MCTimedFirst
  MaxIn = 3
SPECIFICATION FairSpec
PROPERTIES
  Answered
