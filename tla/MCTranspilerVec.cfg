SPECIFICATION Spec
CONSTANTS
  U32 = 64
  Mode = "vec"
  Elfs <- VecFiles
  Capacities <- SomeCapacities
INVARIANT ImageFaithful
