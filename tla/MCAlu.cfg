SPECIFICATION Spec
CONSTANTS
  Insns <- MCInsns
  Needs <- MCNeeds
INVARIANT MatchesArithmetic JitAgrees
CHECK_DEADLOCK FALSE
