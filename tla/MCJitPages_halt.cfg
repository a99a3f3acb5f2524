SPECIFICATION FairSpec
CONSTANTS
  MaxAddr = 7
  Byte <- HaltByte
  Kind <- MCKind
  InstLen <- MCInstLen
  MaxLen = 2
  Fetchable = {0, 1, 2, 3, 4, 5}
  Stores <- HaltStores
  Remaps = {}
  HostCalls = {}
  Targets = {0, 1, 4}
  Handler = 0
  HandlerIs32 = FALSE
  Push <- HaltPush
  InitMem <- HaltMem
  PageSize = 8
  Areas <- OnePage
  OverlapWindow = 3
  MaxPages = 4
PROPERTIES ImplementsGuest HaltLastsUntilInterrupt CallsReturn
