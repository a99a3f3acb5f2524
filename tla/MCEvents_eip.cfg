SPECIFICATION FairSpec
CONSTANTS
  Programs <- CallPrograms
  Gates <- IntGates
  CountMax = 3
  MaxFrames = 3
PROPERTIES FaultAlwaysReportsItsInstruction
CHECK_DEADLOCK FALSE
