SPECIFICATION Spec
CONSTANTS
  Accidents = {a1, a2}
  Places <- MiddleAndEdge
  Size = 1
  MaxLongitude = 3
  MaxLatitude = 3
  CornersAdded = TRUE
SYMMETRY AccidentSymmetry
INVARIANTS TypeOK SquaresWhole RingsClosed AnswerRegular
