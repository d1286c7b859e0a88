\* Every program of three instructions, a few with the debugger; delays of 0 or 1.
CONSTANTS
  Word <- MCWord
  Reg <- MCReg
  X0 = "x0"
  Zero = 0
  ResetPc = 16
  Nop = 1
  MStatusReset = 3
  EcallCause = 11
  Ram <- MCRam
  UART = 28
  RTC = 29
  RTCHI = 30
  KBD = 31
  Key <- MCKey
  MaxWait = 1
  TimeMod = 1
  MaxOut = 3
  Decode <- MCDecode
  Alu <- MCAlu
  Target <- MCTarget
  Plus4 <- MCPlus4
  CsrOr <- MCCsrOr
  Align <- MCAlign
  LoadExt <- MCLoadExt
  StoreMerge <- MCStoreMerge
  TimeWord <- MCTimeWord
  Images <- MCHarnessImages
  NrWp = 2
  TraceSize = 2
  Exprs <- MCExprs
  EvalExpr <- MCEvalExpr
SPECIFICATION MCSpec
INVARIANTS RefInSync TraceIsRecent
PROPERTIES ImplementsIsa ChangesStop
CHECK_DEADLOCK FALSE
