SPECIFICATION Spec
CONSTANTS
  Lens <- MCLens
  Heads = 4
  Gates <- MCGates
INVARIANTS
  ZeroWhereMasked
  TileRight
