SPECIFICATION Spec
CONSTANTS
  Walks <- MCWalks
  Repeats = {1, 3, 5}
INVARIANTS
  NoBufferRace
  OutputsRight
  CompleteAndBalanced
  BufferProtocol
PROPERTY
  Termination
