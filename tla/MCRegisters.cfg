SPECIFICATION Spec
CONSTANTS
  BASE = 4
  XLEN = 8
  AluOp <- Compute
  MISA = 65
  EMBIVE_INTERRUPT_CODE = 4
  Divisors <- Word
  Operands = {155}
  Probes = {24, 231}
  Pcs = {6}
INVARIANT DivisionIsExact
INVARIANT ProductIsExact
INVARIANT ShiftsMoveBits
INVARIANT OperationIsMasked
CHECK_DEADLOCK FALSE
