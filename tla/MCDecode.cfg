SPECIFICATION Spec
CONSTANTS
  HandlerShapes <- MCShapes
  Insns <- MCInsns
  Followers <- MCFollowers
INVARIANT SameOperation SameAddress SameBytes BytesFit
CHECK_DEADLOCK FALSE
