SPECIFICATION Spec
CONSTANTS
  Starter = starter
  Handlers = {h1}
INVARIANT StartedSuccessfully
CHECK_DEADLOCK FALSE
