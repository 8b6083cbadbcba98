SPECIFICATION Spec
CONSTANTS
  Heads <- AllHeads
  Tails <- AllTails
  Followers <- SomeFollowers
INVARIANT ConversionPreservesMeaning
INVARIANT EveryInstructionIsConverted
INVARIANT NextInstructionIsIgnored
CHECK_DEADLOCK FALSE
