SPECIFICATION Spec
CONSTANTS
  Insns <- InterpInsns
  Rollback <- InterpRollback
  MaxFaults = 2
  Rereads <- InterpRereads
  Trails <- InterpTrails
  Doubles <- InterpDoubles
  Forgets <- InterpForgets
INVARIANT RestartTransparent NothingAfterDelivery OneExceptionPerFault
CHECK_DEADLOCK FALSE
