SPECIFICATION Spec
CONSTANTS
  Accidents = {a1, a2}
  Requests = {r1, r2, r3}
  Ops <- ServiceOps
  Shapes = {"inside", "edge", "garbled"}
  CornersAdded = TRUE
SYMMETRY RequestSymmetry
INVARIANTS TypeOK PolygonsMatch AcknowledgedIsStored OneReporter ResolutionSticks
CHECK_DEADLOCK FALSE
