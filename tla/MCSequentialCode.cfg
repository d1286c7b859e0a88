\* Four-bit ints in the debugger; five bytes of memory, each a terminator, a
\* space, a digit or a byte that a signed char holds as a negative number; a
\* heap of 12 places among 16; words of eight bits in the core.
CONSTANTS
  IntBits = 4
  NrToken = 7
  Numeral <- MCNumeral
  RegValue <- MCRegValue
  Keyboards <- MCKeyboards
  MemSize = 5
  Byte = {0, 32, 55, 255}
  Ints <- MCInts
  IntMax = 777
  BufSize = 4
  Digit <- MCDigit
  Minus = 45
  LetterX = 120
  Space = 32
  HeapStart = 2
  HeapSize = 12
  AddrSpace = 16
  AlignTo = 2
  MaxBlocks = 3
  Program <- MCProgram
  WordBits = 8
  BitAnd <- MCAnd
  BitOr <- MCOr
  BitXor <- MCXor
  Code <- MCCodes
  Operands <- MCWords
  Memory <- MCMemory
  Csrs <- MCCsrs
SPECIFICATION Spec
INVARIANTS  BlocksApart InstructionsAgree
PROPERTIES  ImplementsSemu
\* A call returns.
CHECK_DEADLOCK FALSE
