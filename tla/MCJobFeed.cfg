SPECIFICATION FairSpec
CONSTANTS
  Workers = {w1, w2}
  QueueCap = 1
  MaxBlock = 1
INVARIANTS
  NoJobLost
PROPERTY
  EveryoneCatchesUp
