SPECIFICATION FairSpec
CONSTANTS
  Units <- MCUnits
  Plan <- MCPlan
  Identified <- MCIdentified
  Blocking <- MCBlocking
  CornersAdded = FALSE
  Pending <- MCPending
  MaxFaults = 2
INVARIANTS TypeOK AnswersOwn StoredOnce AckedDecided
PROPERTIES AnswersForward ImplementsRequests 
CHECK_DEADLOCK FALSE
