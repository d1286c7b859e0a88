\* Both ports, five ramdisks, every interleaving of the program's
\* instructions with the kernel thread.
CONSTANTS
  Word <- MCWord
  Addr <- MCAddr
  MinusOne = 80
  Junk = 79
  NrRegs = 5
  A0 = 3
  NumberReg = 4
  TrapEntry = 64
  YieldCause = 11
  MStatusMpp = 70
  WithMprv <- MCWithMprv
  ElfMagic = 77
  PtLoad = 5
  Platforms = {"nemu", "npc"}
  Disks <- MCDisks
  Pcb0 = 10
  Pcb1 = 24
  BootPcb = 38
  StackWords = 14
  BootTop = 50
  BootStackWords = 11
  BootPc = 65
  HelloEntry = 67
  HelloArg = 1
  Callee = 1
  UserCode <- MCUserCode
  Data = {0, 1}
  UserDepth = 2
  HandlerWords = 1
SPECIFICATION FairSpec
INVARIANTS
  FramesInPcb
  ThreadsRunWithoutMprv
  LoadedImage
  PanicHasCause
PROPERTIES ImplementsThreads HelloHandsOver
\* The kernel may panic.
CHECK_DEADLOCK FALSE
