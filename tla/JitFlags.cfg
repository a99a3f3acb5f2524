CONSTANTS
  Len_ = 3
  PageLen = 2
  Insts = {"AND", "ADD", "ADC", "SUB", "SBB", "NEG", "INC", "MUL", "IMUL", "BT", "SHL", "SHLD", "RCL", "RCR", "ROL", "AAM", "DAA", "SETG", "JS", "INTO", "RET", "BSF", "PUSHF", "POPF", "CMC", "SAHF", "MOV", "CMPS", "REPE_CMPS"}
SPECIFICATION Spec
INVARIANTS ReadsAreComputed StaleIsDead OnlyRotationsReadTheirOwnCarry
PROPERTY JumpsLeaveNothingStale
