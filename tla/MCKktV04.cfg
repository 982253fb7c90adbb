SPECIFICATION Spec
CONSTANT Shapes <- MCShapes
INVARIANTS
  OwnGram
  CompleteAndBalanced
PROPERTY
  ProtocolSpec
