SPECIFICATION Spec
CONSTANTS
  Accidents = {a1, a2}
  Requests = {r1, r2, r3}
  Ops <- AllOps
  Shapes = {"inside", "outside"}
  CornersAdded = TRUE
SYMMETRY RequestSymmetry
INVARIANT NoOrphans
PROPERTIES ImplementsRegistry ResolvedForGood ChangesAnnounced
CHECK_DEADLOCK FALSE
