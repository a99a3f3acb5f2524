SPECIFICATION Spec
CONSTANTS
  NRegs = 3
  Insns <- InsnsOfBoth
  Exceptions <- SomeExceptions
  MaskChoices <- AllMasks
INVARIANT ESIsSummary StoppedBeforeMoving StackFaultRecorded
CHECK_DEADLOCK FALSE
