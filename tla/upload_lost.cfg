SPECIFICATION Spec
CONSTANTS
  Requests = {r1, r2}
  Ops = {"unlock", "upload", "recht"}
  MaxVersie = 1
  MaxLock = 1
  MaxUploads = 1
  MaxRechten = 1
  MaxFaults = 0
  NumDelen = 1
INVARIANTS
  UnlockedHasFile
CHECK_DEADLOCK FALSE
