\* Rows split between the lanes (repeat = 1): every pattern of rounds of which
\* both lanes, one lane or none has rows to copy.
SPECIFICATION Spec
CONSTANTS
  Counts = {0, 1, 2, 3, 4, 5}
  ChunkLens = {0, 32, 33}
  Repeats = {1}
INVARIANTS
  NoSlotRace
  OwnGram
  FlagsBalanced
  IInv
PROPERTIES
  HandoffSpec
  Termination
CHECK_DEADLOCK FALSE
