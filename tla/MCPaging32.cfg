SPECIFICATION Spec
CONSTANTS
  MaxFrame = 3
  TableSize = 2
  Directories = {0, 3}
  Contexts <- MCContexts
  Operands <- MCOperands
  Stored <- MCStored
  InitMem <- MCInitMem
INVARIANTS TypeOK ActivesListed TablesInRange TlbFresh
PROPERTY ImplementsPagedMemory
