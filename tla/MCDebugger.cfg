SPECIFICATION DSpec
CONSTANTS
  BASE = 4
  XLEN = 8
  CodeLen = 38
  RamLen = 1
  USIZE = 256
  AluOp <- Compute
  MISA = 65
  EMBIVE_INTERRUPT_CODE = 4
  Decode <- MCDecode
  Programs <- MCPrograms
  InitRams <- MCRams
  Limits = {0}
  HostValues = {1}
  HostPcs = {20}
  HostRegisters <- MCRegisters
  HostCsrOps <- MCCsrOps
  HostStores <- MCStores
  HostCalls = {"step"}
  SLOTS = 2
  PERIOD = 2
  CYCLES = 4
  BreakAddrs = {20, 28}
  MaxInput = 1
  MaxWrites = 1
INVARIANT DebuggerTypeOK
INVARIANT SessionConsistent
INVARIANT DebuggingIsInvisible
PROPERTY NeverPassesBreakpoint
PROPERTY StopReasonIsTrue
PROPERTY SessionIsTransparent
PROPERTY BreakRequestServed
PROPERTY HangupEndsSession
CHECK_DEADLOCK FALSE
