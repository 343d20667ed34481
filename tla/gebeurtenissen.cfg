SPECIFICATION DeelSpec
CONSTANTS
  Zaken = {z1, z2}
  HoofdVan <- MCHoofdVan
  Hoofdzaak = z1
  Deelzaak = z2
  Objecten = {o1}
  Webs = {w1, w2}
  Taken = {t1}
  Geen = geen
  Overlap = FALSE
  MaxBerichten = 2
  MaxFouten = 2
INVARIANTS
  TypeOK
  EenBerichtPerWijziging
  KoppelingVolgtBericht
SYMMETRY Symmetrie
CHECK_DEADLOCK FALSE
