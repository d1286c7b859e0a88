\* The debugger reads memory only; MaxStep, NrWp and Size are bounds.
CONSTANTS
  NrWp = 3
  MaxStep = 2
  DebuggerReads = {"pmem"}
  Size = 2
SPECIFICATION TraceSpec
INVARIANTS
  MistakesReported
  StopsAtOnce
  BatchExitHonest
  PoolPartition
  ShowsMostRecent
PROPERTY StepReturns
\* The program may exit or die.
CHECK_DEADLOCK FALSE
