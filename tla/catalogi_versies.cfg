SPECIFICATION Spec
CONSTANTS
  Zaaktypen = {z1, z2}
  Informatieobjecttypen = {}
  Besluittypen = {}
  Statustypen = {s1, s2}
  Roltypen = {r1}
  Resultaten = {e1}
  Namen = {n1}
  MaxDatum = 2
  Geen = geen
  Werkers = {w1}
  Gelijktijdig = FALSE
  Geforceerd = TRUE
  Beheer = TRUE
SYMMETRY Symmetrie
INVARIANTS
  EenVersieGeldig
