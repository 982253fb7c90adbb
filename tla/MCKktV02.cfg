SPECIFICATION Spec
CONSTANTS
  MaxTasks = 3
  ChunkLens = {0, 20, 64}
  Repeats = {1, 3, 6}
INVARIANTS
  NoBufferRace
  OutputsRight
  CompleteAndBalanced
  QueueProtocol
