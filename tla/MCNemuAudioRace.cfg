\* The ring as it is, without a lock.
CONSTANTS
  Size = 3
  Block = 2
  MaxWritten = 7
  MaxInits = 0
SPECIFICATION Spec
INVARIANT CountIsQueued
CHECK_DEADLOCK FALSE
