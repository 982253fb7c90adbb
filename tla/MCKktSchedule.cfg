SPECIFICATION Spec
CONSTANT Shapes <- MCShapes
INVARIANTS
  WalkFollowsAic
  ReuseFollowsAic
  FusedAreNeighbours
  TasksPartitioned
  GroupsResident
