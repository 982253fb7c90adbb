SPECIFICATION Spec
CONSTANT Shapes <- SelectionShapes
INVARIANT AlignedOnlyWhereSelected
