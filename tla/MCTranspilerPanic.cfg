SPECIFICATION Spec
CONSTANTS
  U32 = 64
  Mode = "slice"
  Elfs <- PanicFiles
  Capacities <- SomeCapacities
INVARIANT NoPanic
