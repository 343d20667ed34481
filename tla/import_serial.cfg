SPECIFICATION FairImportSpec
CONSTANTS
  Imports = {i1, i2}
  Requests = {r1}
  Workers = {w1}
  None = none
  Dood = dood
  Gelijktijdig = FALSE
  Gedeeld = FALSE
  Fouten = {"bulk", "zaak_weg"}
  BatchSize = 2
  MaxRijen = 3
  MaxFaults = 1
INVARIANTS
  ImportTypeOK
  StatisticsMatch
  DocumentsHaveFiles
PROPERTIES
  ImportEnds
CHECK_DEADLOCK FALSE
