CONSTANTS
  Proc = {p1, p2}
  Orig <- MCOrig
  Hash <- MCHash
  MaxSigned = 2
  Torn = torn
  None = none
SPECIFICATION Cert
INVARIANTS StoredOnce
CHECK_DEADLOCK FALSE
