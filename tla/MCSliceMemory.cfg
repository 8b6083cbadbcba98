\* 32-bit host: usize has as many values as a word.
SPECIFICATION Spec
CONSTANTS
  BASE = 4
  CodeLen = 6
  RamLen = 4
  USIZE = 256
  Addresses = {0, 1, 2, 3, 4, 5, 6, 124, 125, 126, 127, 128, 129, 130, 131, 132, 252, 253, 254, 255}
  StoreValues = {27, 228}
  InitMems <- MCMems
PROPERTY ImplementsFlatMemory
