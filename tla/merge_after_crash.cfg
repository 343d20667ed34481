SPECIFICATION Spec
CONSTANTS
  Requests = {r1}
  Ops = {"lock", "unlock", "upload"}
  MaxVersie = 1
  MaxLock = 2
  MaxUploads = 2
  MaxRechten = 0
  MaxFaults = 1
  NumDelen = 2
INVARIANTS
  MergedComplete
CHECK_DEADLOCK FALSE
