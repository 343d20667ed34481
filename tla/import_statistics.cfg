SPECIFICATION ImportSpec
CONSTANTS
  Imports = {i1, i2}
  Requests = {r1}
  Workers = {w1}
  None = none
  Dood = dood
  Gelijktijdig = FALSE
  Gedeeld = FALSE
  Fouten = {"koppel"}
  BatchSize = 2
  MaxRijen = 3
  MaxFaults = 1
INVARIANTS
  StatisticsMatch
CHECK_DEADLOCK FALSE
