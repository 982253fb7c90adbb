SPECIFICATION Spec
CONSTANT Shapes <- WideShapes
INVARIANT RowsAreOwn
