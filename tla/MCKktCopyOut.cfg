SPECIFICATION Spec
CONSTANTS
  TokenCounts <- MCTokenCounts
  Heads = 4
  Starts <- MCStarts
  RowCounts <- MCRowCounts
INVARIANTS
  Recorded
  CopiedRight
