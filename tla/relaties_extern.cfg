SPECIFICATION Spec
CONSTANTS
  Koppelingen = {k1}
  Besluiten = {b1}
  Extern = {x1, x2}
  Lokaal = {l1}
  Document = document
  Geen = geen
  Werkers = {w1, w2}
  MaxRij = 4
  MaxUrl = 3
  MaxFouten = 2
SYMMETRY Symmetrie
INVARIANTS
  TypeOK
  RelatiesKloppen
CHECK_DEADLOCK FALSE
