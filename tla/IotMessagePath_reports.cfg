SPECIFICATION FairSpec
CONSTANTS
  Device = "d1"
  Count = 3
  Usable <- MCUsable
  MaxClock = 1
  MaxFaults = 2
INVARIANTS TypeOK TakenUntilStopped AckedTaken WrittenOnce LaterShows
PROPERTIES EventuallySettled
CHECK_DEADLOCK FALSE
