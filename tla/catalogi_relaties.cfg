SPECIFICATION Spec
CONSTANTS
  Zaaktypen = {z1}
  Informatieobjecttypen = {i1, i2}
  Besluittypen = {b1}
  Statustypen = {s1, s2}
  Roltypen = {r1}
  Resultaten = {e1}
  Namen = {n1}
  MaxDatum = 1
  Geen = geen
  Werkers = {w1}
  Gelijktijdig = FALSE
  Geforceerd = FALSE
  Beheer = FALSE
SYMMETRY Symmetrie
INVARIANTS
  TypeOK
  GepubliceerdCompleet
PROPERTIES
  ImplementsPublicatie
