SPECIFICATION Spec
CONSTANTS
  Requests = {r1, r2}
  Ops = {"lock", "relatie", "destroy"}
  MaxVersie = 1
  MaxLock = 1
  MaxUploads = 0
  MaxRechten = 0
  MaxFaults = 0
  NumDelen = 1
INVARIANTS
  DestroyChecked
CHECK_DEADLOCK FALSE
