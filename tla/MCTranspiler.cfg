SPECIFICATION Spec
CONSTANTS
  U32 = 64
  Mode = "slice"
  Elfs <- MCElfs
  Capacities <- SomeCapacities
INVARIANT TranspilerTypeOK
INVARIANT ImageFaithful
INVARIANT EveryInstructionFetchable
INVARIANT SoundIsTranslated
INVARIANT SliceImage
INVARIANT OkOnlyWhenValid
INVARIANT OnlyTwoPanics
