\* 2^32 is 3; a ring of three places; two frames of two pixels; blocks of two
\* words on an image of three.
CONSTANTS
  Half = 3
  MaxTime = 8
  KeyQueueLen = 3
  Pixels = 2
  MaxFrames = 2
  MaxEvents = 4
  BlockWords = 2
  ImageWords = 6
  ExtCsd <- MCExtCsd
  MaxBlocks = 2
  Tags = {"a"}
  MaxRequests = 4
  Devices = {"timer", "window", "sdcard"}
SPECIFICATION FairSpec
INVARIANTS
  KeysInFifoOrder
  CardQuiescent
  PromptKeysStayOut
PROPERTIES
  UptimeOffByACarry
  LastFrameShown
  RequestsEnd
  ImplementsBlockDevice
\* NEMU may abort or panic, and the bounds end the counters.
CHECK_DEADLOCK FALSE
