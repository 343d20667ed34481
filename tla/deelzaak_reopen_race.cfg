SPECIFICATION Spec
CONSTANTS
  Zaken = {z1, z2}
  Docs = {}
  Requests = {r1, r2}
  None = none
  Hoofdzaken = {z1}
  Wijzen = {"afgehandeld"}
  Termijnen = {1}
  Procestermijn = 1
  Relevant = {}
  Nachten = {FALSE}
  Ops = {"status", "resultaat"}
  Geforceerd = FALSE
  Chronologisch = TRUE
  Gelijktijdig = TRUE
  MaxDatum = 3
INVARIANTS
  DeelzakenClosed
CHECK_DEADLOCK FALSE
