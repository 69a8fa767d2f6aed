CONSTANTS
  Proc = {p1, p2}
  Host <- MCHost
  HostMax = 4
  PtrSize = 3
  Slot = {0, 1}
  Word <- MCWord
  Ttl = {0, 2}
  MaxTime = 2
  MaxUpdates = 3
  Free = free
  Destroyed = destroyed
  NoAddr = none
SPECIFICATION DNSSpec
SYMMETRY DNSSymmetry
INVARIANTS AnswerForHost AnswerLives StoredIsFound
PROPERTIES ExpiryNotShortened
CHECK_DEADLOCK FALSE
