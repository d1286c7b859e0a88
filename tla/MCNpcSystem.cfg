\* The core with its memory, devices and keyboard: every delay the hardware can
\* draw, a handful of programs, a running clock, a key queue that overflows.
CONSTANTS
  Word <- MCWord
  Reg <- MCReg
  X0 = "x0"
  Zero = 0
  ResetPc = 16
  Nop = 1
  MStatusReset = 3
  EcallCause = 11
  Ram <- MCRam
  UART = 28
  RTC = 29
  RTCHI = 30
  KBD = 31
  SYNC = 27
  Key <- MCKeys
  MaxWait = 3
  TimeMod = 2
  MaxOut = 3
  Decode <- MCDecode
  Alu <- MCAlu
  Target <- MCTarget
  Plus4 <- MCPlus4
  CsrOr <- MCCsrOr
  Align <- MCAlign
  LoadExt <- MCLoadExt
  StoreMerge <- MCStoreMerge
  TimeWord <- MCTimeWord
  Images <- MCSystemImages
  KeyNone = 0
  QueueLen = 3
  MaxKeys = 4
SPECIFICATION KFairSpec
INVARIANTS NoContention OneReadOutstanding WriteStaysRouted RingHoldsLatest
PROPERTIES HandshakeStable FetchProgress InstructionRetires KeysInOrder
CHECK_DEADLOCK FALSE
