SPECIFICATION LSpec
CONSTANTS
  BASE = 4
  XLEN = 8
  CodeLen = 72
  RamLen = 6
  USIZE = 256
  AluOp <- Compute
  MISA = 65
  EMBIVE_INTERRUPT_CODE = 4
  Decode <- MCDecode
  Programs <- MCPrograms
  InitRams <- MCRams
  Limits = {0, 1, 2, 3, 4, 5, 7, 100}
  HostValues = {1, 2, 3}
  HostPcs = {}
  HostRegisters = {}
  HostCsrOps = {}
  HostStores <- LoopStores
  HostCalls = {"async"}
  InterruptValue = 10
  MaxDrops = 2
INVARIANT EveryAttemptSeesTheArguments
INVARIANT HaltsWithTheSameResult
PROPERTY SessionEnds
PROPERTY WaitIsServed
CHECK_DEADLOCK FALSE
