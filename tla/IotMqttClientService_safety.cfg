SPECIFICATION Spec
CONSTANTS
  Starter = starter
  Disposer = disposer
  NoOne = noone
  Handlers = {h1, h2, h3}
  DisposeCalls = {"DisposeAsync", "Dispose"}
  CallerOps = {"DisconnectAsync", "UnsubscribeAsync"}
SYMMETRY HandlerSymmetry
INVARIANTS TypeOK ConnectCallsLegal DisposalExclusive NeverAbandoned NobodyStranded
CHECK_DEADLOCK FALSE
