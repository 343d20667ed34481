SPECIFICATION Spec
CONSTANTS
  Requests = {r1}
  Ops = {"lock", "put", "recht"}
  MaxVersie = 2
  MaxLock = 1
  MaxUploads = 0
  MaxRechten = 1
  MaxFaults = 0
  NumDelen = 1
INVARIANTS
  IndicatieMatches
CHECK_DEADLOCK FALSE
