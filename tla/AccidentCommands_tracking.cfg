SPECIFICATION Spec
CONSTANTS
  Accidents = {a1}
  Requests = {r1, r2}
  Ops <- ServiceOps
  Shapes = {"inside"}
  CornersAdded = FALSE
SYMMETRY RequestSymmetry
INVARIANT ReportsStorable
CHECK_DEADLOCK FALSE
