SPECIFICATION FairImportSpec
CONSTANTS
  Imports = {i1, i2}
  Requests = {r1}
  Workers = {w1, w2}
  None = none
  Dood = dood
  Gelijktijdig = FALSE
  Gedeeld = FALSE
  Fouten = {}
  BatchSize = 2
  MaxRijen = 3
  MaxFaults = 0
PROPERTIES
  ImportEnds
CHECK_DEADLOCK FALSE
