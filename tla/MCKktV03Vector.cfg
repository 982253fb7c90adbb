SPECIFICATION Spec
CONSTANTS
  MaxTasks = 3
  ChunkLens = {0, 20, 64}
  Repeats = {1, 8, 10}
INVARIANTS
  NoBufferRace
  OutputsRight
  BufferProtocol
  CompleteAndBalanced
