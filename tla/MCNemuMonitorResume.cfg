\* A watchpoint may be set while the program ends.
CONSTANTS
  NrWp = 3
  MaxStep = 2
  DebuggerReads = {"pmem"}
SPECIFICATION Spec
PROPERTY EndedStaysEnded
\* The program may exit or die.
CHECK_DEADLOCK FALSE
