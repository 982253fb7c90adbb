SPECIFICATION Spec
CONSTANTS
  Walks <- MCWalks
  KDims = {128, 256}
INVARIANTS
  NoBufferRace
  AnnouncedGram
  EventRange
  EventsBalanced
PROPERTY
  Termination
