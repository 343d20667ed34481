SPECIFICATION Spec
CONSTANTS
  Zaaktypen = {}
  Informatieobjecttypen = {i1}
  Besluittypen = {}
  Statustypen = {s1, s2}
  Roltypen = {r1}
  Resultaten = {e1}
  Namen = {n1}
  MaxDatum = 2
  Geen = geen
  Werkers = {w1, w2}
  Gelijktijdig = TRUE
  Geforceerd = FALSE
  Beheer = FALSE
PROPERTIES
  ImplementsPublicatie
