SPECIFICATION FairSpec
CONSTANTS
  Starter = starter
  Disposer = disposer
  NoOne = noone
  Handlers = {h1, h2}
  DisposeCalls = {"DisposeAsync"}
  CallerOps = {"DisconnectAsync", "UnsubscribeAsync"}
PROPERTIES EventuallyServed LoopsEnd DisposalCompletes
CHECK_DEADLOCK FALSE
