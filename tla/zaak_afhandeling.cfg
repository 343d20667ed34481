SPECIFICATION DeelSpec
CONSTANTS
  Zaken = {z1, z2}
  Docs = {d1}
  Requests = {r1}
  None = none
  Hoofdzaken = {z1}
  Wijzen = {"afgehandeld", "hoofdzaak", "eigenschap", "ingangsdatum_besluit", "vervaldatum_besluit", "zaakobject", "termijn", "gerelateerde_zaak"}
  Termijnen = {0, 1}
  Procestermijn = 1
  Relevant = {z1}
  Nachten = {FALSE}
  Ops = {"status", "resultaat", "herzien", "geenresultaat", "kenmerk", "besluit", "object", "omschrijving", "document", "archiveer", "samen"}
  Geforceerd = TRUE
  Chronologisch = TRUE
  Gelijktijdig = FALSE
  MaxDatum = 3
INVARIANTS
  TypeOK
  ArchivingFollows
  EindstatusCloses
  DeelzakenClosed
  BewaartermijnBegint
PROPERTIES
  ClosesWithDocumentsReady
CHECK_DEADLOCK FALSE
