SPECIFICATION RegistratieSpec
CONSTANTS
  Docs = {d1}
  Orgs = {o1}
  Verzendingen = {v1}
  Kanalen = {"postadres", "fax", "telefoon"}
  Niets = niets
  Werkers = {w1}
  Batch = 1
  MaxAantal = 0
  MaxNr = 1
  MaxVersies = 1
INVARIANT EenKanaal
CHECK_DEADLOCK FALSE
