SPECIFICATION Spec
CONSTANTS
  Koppelingen = {k1}
  Besluiten = {b1}
  Extern = {x1, x2}
  Lokaal = {l1}
  Document = document
  Geen = geen
  Werkers = {w1}
  MaxRij = 4
  MaxUrl = 3
  MaxFouten = 0
INVARIANTS
  ZaakbesluitHeeftBesluit
CHECK_DEADLOCK FALSE
