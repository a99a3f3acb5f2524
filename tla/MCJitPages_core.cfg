SPECIFICATION Spec
CONSTANTS
  MaxAddr = 5
  Byte <- CoreByte
  Kind <- MCKind
  InstLen <- MCInstLen
  MaxLen = 2
  Fetchable = {0, 1, 2, 3, 4, 5}
  Stores <- CoreStores
  Remaps = {}
  HostCalls = {"write"}
  Targets = {0, 2}
  Handler = 3
  HandlerIs32 = TRUE
  Push <- CorePush
  InitMem <- CoreMem
  PageSize = 3
  Areas <- OneArea
  OverlapWindow = 3
  MaxPages = 4
INVARIANTS TypeOK ListsConsistent NoPageLost RecycledPageIsBlank CodeIsFresh ResumesAtEip
PROPERTY ImplementsGuest
