\* A timer read into another register than its base.
CONSTANTS
  Word <- MCWord
  Reg <- MCReg
  X0 = "x0"
  Zero = 0
  ResetPc = 16
  Nop = 1
  MStatusReset = 3
  EcallCause = 11
  Ram <- MCRam
  UART = 28
  RTC = 29
  RTCHI = 30
  KBD = 31
  Key <- MCKey
  MaxWait = 3
  TimeMod = 2
  MaxOut = 3
  Decode <- MCDecode
  Alu <- MCAlu
  Target <- MCTarget
  Plus4 <- MCPlus4
  CsrOr <- MCCsrOr
  Align <- MCAlign
  LoadExt <- MCLoadExt
  StoreMerge <- MCStoreMerge
  TimeWord <- MCTimeWord
  Images <- MCTimerImages
SPECIFICATION FairSpec
PROPERTY FetchCompletes
CHECK_DEADLOCK FALSE
