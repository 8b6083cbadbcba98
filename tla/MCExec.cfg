SPECIFICATION ESpec
CONSTANTS
  BASE = 4
  XLEN = 8
  CodeLen = 120
  RamLen = 6
  USIZE = 256
  AluOp <- Compute
  MISA = 65
  EMBIVE_INTERRUPT_CODE = 4
  Decode <- ExecDecode
  Programs <- ExecPrograms
  InitRams <- MCRams
  Limits = {1, 2}
  HostValues = {}
  HostPcs <- MCPcs
  HostRegisters <- MCRegisters
  HostCsrOps = {}
  HostStores = {}
  HostCalls = {"step"}
  Operands = {0, 1, 8, 116, 119, 127, 128, 130, 255}
INVARIANT TypeOK
PROPERTY ErrorIsPrecise
PROPERTY CompressedMatchesExpansion
CHECK_DEADLOCK FALSE
