SPECIFICATION Spec
CONSTANTS
  Accidents = {a1, a2}
  Requests = {r1, r2}
  Ops <- ServiceOps
  Shapes = {"inside"}
  CornersAdded = FALSE
SYMMETRY RequestSymmetry
INVARIANT UnknownAccidentRefused
CHECK_DEADLOCK FALSE
