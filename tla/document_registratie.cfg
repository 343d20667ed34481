SPECIFICATION DeelSpec
CONSTANTS
  Docs = {d1, d2}
  Orgs = {o1, o2}
  Verzendingen = {v1}
  Kanalen = {"postadres", "fax", "email", "telefoon"}
  Niets = niets
  Werkers = {w1, w2}
  Batch = 2
  MaxAantal = 2
  MaxNr = 4
  MaxVersies = 2
SYMMETRY Symmetrie
INVARIANTS
  RegistratieTypeOK
  NummerEenmaal
CHECK_DEADLOCK FALSE
