SPECIFICATION FairSpec
CONSTANTS
  Programs <- MCPrograms
  Gates <- MCGates
  CountMax = 3
  MaxFrames = 3
INVARIANTS ShadowLastsOneInstruction ErrorCodeMatchesVector NothingPending
PROPERTIES RepeatsExactly EveryCallEnds InterruptsTaken FaultReportsItsInstructionUnlessMoved
CHECK_DEADLOCK FALSE
