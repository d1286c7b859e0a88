\* Every schedule; the ring is gone round twice.
CONSTANTS
  Size = 3
  Block = 2
  MaxWritten = 7
  MaxInits = 1
SPECIFICATION FairSpec
INVARIANTS TypeOK CountExactUntilRace PlayedInOrder
PROPERTY EverythingPlayed
\* Everything has been played.
CHECK_DEADLOCK FALSE
