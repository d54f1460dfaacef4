SPECIFICATION FairSpec
CONSTANTS
  Starter = starter
  Handlers = {h1, h2, h3}
INVARIANTS TypeOK NeverAbandoned StartUpAlone
PROPERTIES EventuallyServed LoopsEnd
CHECK_DEADLOCK FALSE
