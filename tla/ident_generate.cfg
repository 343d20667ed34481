SPECIFICATION GemengdSpec
CONSTANTS
  Requests = {r1, r2}
  None = none
  Orgs = {o1, o2}
  Suffixes = {}
  Ops = {"zaak", "registreer", "reserveer", "verwijder", "expliciet"}
  MaxNr = 2
  MaxPk = 3
  MaxAantal = 2
INVARIANTS
  TypeOK
  GeneratedDistinct
  ZakenDistinct
  NoClash
PROPERTIES
  GenerationEnds
CHECK_DEADLOCK FALSE
