SPECIFICATION DeelSpec
CONSTANTS
  Requests = {r1, r2}
  Ops = {"lock", "unlock", "force_unlock", "patch", "put", "upload", "recht", "recht_wis",
         "relatie", "relatie_wis", "destroy"}
  MaxVersie = 3
  MaxLock = 3
  MaxUploads = 3
  MaxRechten = 2
  MaxFaults = 2
  NumDelen = 2
  Onderwerpen = {"document", "fouten", "samen"}
SYMMETRY Symmetry
INVARIANTS
  UploadsBlijven
  TypeOK
PROPERTIES
  SerieelCheckout
  ImplementsVersionLog
  VersionsNeedLock
  ZaakKeepsDocument
CHECK_DEADLOCK FALSE
