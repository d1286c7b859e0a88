\* The debugger reads a device register between two instructions.
CONSTANTS
  NrWp = 3
  MaxStep = 2
  DebuggerReads = {"pmem", "device"}
SPECIFICATION Spec
INVARIANT MistakesReported
\* The program may exit or die.
CHECK_DEADLOCK FALSE
