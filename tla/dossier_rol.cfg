SPECIFICATION DeelSpec
CONSTANTS
  Zaken = {z1, z2}
  Extern = {x1}
  Soorten = {initiator, overig}
  Beperkt = {initiator}
  Geen = geen
  Werkers = {w1}
  MaxPk = 4
  MaxRollen = 2
SYMMETRY Symmetrie
INVARIANTS
  EenRolAltijd
CHECK_DEADLOCK FALSE
