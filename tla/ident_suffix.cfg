SPECIFICATION Spec
CONSTANTS
  Requests = {r1}
  None = none
  Orgs = {o1}
  Suffixes = {1}
  Ops = {"zaak", "expliciet"}
  MaxNr = 3
  MaxPk = 4
  MaxAantal = 1
INVARIANTS
  NoClash
CHECK_DEADLOCK FALSE
