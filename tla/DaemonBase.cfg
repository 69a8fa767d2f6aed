CONSTANTS
  Pid = {c1, c2, c3}
  ChildNums = {1, 2}
  MaxDeaths = 2
  MaxSignals = 1
  NoPid = none
SPECIFICATION Daemon
INVARIANTS BookRight WorkersBounded
PROPERTIES StopReachesAll WorkersReplaced
CHECK_DEADLOCK FALSE
