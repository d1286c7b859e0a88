\* One user, four keys, one loop that reads them.
CONSTANTS
  Word <- MCWord
  Reg <- MCReg
  X0 = "x0"
  Zero = 0
  ResetPc = 16
  Nop = 1
  MStatusReset = 3
  EcallCause = 11
  Ram <- MCRam
  UART = 28
  RTC = 29
  RTCHI = 30
  KBD = 31
  SYNC = 27
  Key <- MCKeys
  MaxWait = 1
  TimeMod = 1
  MaxOut = 3
  Decode <- MCDecode
  Alu <- MCAlu
  Target <- MCTarget
  Plus4 <- MCPlus4
  CsrOr <- MCCsrOr
  Align <- MCAlign
  LoadExt <- MCLoadExt
  StoreMerge <- MCStoreMerge
  TimeWord <- MCTimeWord
  Images <- MCKeyImages
  KeyNone = 0
  QueueLen = 3
  MaxKeys = 4
SPECIFICATION KSpec
PROPERTY EveryPopIsRead
CHECK_DEADLOCK FALSE
