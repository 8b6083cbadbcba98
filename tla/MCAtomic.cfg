SPECIFICATION HSpec
CONSTANTS
  BASE = 4
  XLEN = 8
  CodeLen = 28
  RamLen = 5
  USIZE = 256
  AluOp <- Compute
  MISA = 65
  EMBIVE_INTERRUPT_CODE = 4
  Decode <- AtomicDecode
  Programs <- AtomicPrograms
  InitRams <- MCRams
  Limits = {2}
  HostValues = {0, 1}
  HostPcs = {10}
  HostRegisters = {}
  HostCsrOps = {}
  HostStores <- MCHostStores
  HostCalls = {"step", "async", "reset"}
PROPERTY ScSucceedsExactlyAfterLr
