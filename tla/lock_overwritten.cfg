SPECIFICATION Spec
CONSTANTS
  Requests = {r1, r2}
  Ops = {"lock"}
  MaxVersie = 1
  MaxLock = 2
  MaxUploads = 0
  MaxRechten = 0
  MaxFaults = 0
  NumDelen = 1
INVARIANTS
  LockHolder
CHECK_DEADLOCK FALSE
