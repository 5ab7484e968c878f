SPECIFICATION FairSpec
CONSTANTS
  Messages = {m1, m2}
  Workers = {w1, w2}
  None = none
  BatchSize = 2
  MaxReceive = 2
  MaxDuplicates = 1
INVARIANTS NoJobLost StatusSettled
PROPERTIES NoNeedlessRerun Settles
CHECK_DEADLOCK FALSE
