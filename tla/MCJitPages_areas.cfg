SPECIFICATION Spec
CONSTANTS
  MaxAddr = 7
  Byte <- AreasByte
  Kind <- MCKind
  InstLen <- MCInstLen
  MaxLen = 2
  Fetchable = {0, 1, 4, 5, 6}
  Stores = {}
  Remaps <- AreasRemaps
  HostCalls = {"remap", "clear", "reset"}
  Targets = {0, 4}
  Handler = 4
  HandlerIs32 = TRUE
  Push <- AreasPush
  InitMem <- AreasMem
  PageSize = 2
  Areas <- TwoAreas
  OverlapWindow = 3
  MaxPages = 5
INVARIANTS OverlapIsFresh RemapRemovesRange
