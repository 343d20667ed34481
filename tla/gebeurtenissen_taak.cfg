SPECIFICATION DeelSpec
CONSTANTS
  Zaken = {z1}
  HoofdVan <- MCHoofdVan
  Hoofdzaak = z1
  Deelzaak = z2
  Objecten = {o1}
  Webs = {w1}
  Taken = {t1}
  Geen = geen
  Overlap = FALSE
  MaxBerichten = 2
  MaxFouten = 0
PROPERTIES
  TaakMeldt
CHECK_DEADLOCK FALSE
