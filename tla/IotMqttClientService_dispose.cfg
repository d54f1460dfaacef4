SPECIFICATION FairSpec
CONSTANTS
  Starter = starter
  Disposer = disposer
  NoOne = noone
  Handlers = {h1}
  DisposeCalls = {"Dispose"}
  CallerOps = {}
PROPERTY DisposalCompletes
CHECK_DEADLOCK FALSE
