SPECIFICATION HSpec
CONSTANTS
  BASE = 4
  XLEN = 8
  CodeLen = 72
  RamLen = 5
  USIZE = 256
  AluOp <- Compute
  MISA = 65
  EMBIVE_INTERRUPT_CODE = 4
  Decode <- MCDecode
  Programs <- MCPrograms
  InitRams <- MCRams
  Limits = {0, 1, 2}
  HostValues = {8}
  HostPcs = {}
  HostRegisters = {}
  HostCsrOps <- MCHostCsrOps
  HostStores = {}
  HostCalls = {"reset"}
INVARIANT TypeOK
INVARIANT TrapFrameIntact
PROPERTY TrapReturnsToInterruptedCode
PROPERTY RunRespectsLimit
