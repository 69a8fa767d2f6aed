CONSTANTS
  Worker = {w1, w2}
  Producer = {p1}
  Main = m
  MaxTasks = 2
  NoThread = none
SPECIFICATION FairPool
INVARIANTS QueueBounded TasksInOrder NoLostWakeup
PROPERTIES RunReturns TaskTaken StopReturns
CHECK_DEADLOCK FALSE
