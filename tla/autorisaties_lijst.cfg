SPECIFICATION DeelSpec
CONSTANTS
  Apps = {a1, a2}
  Clients = {c1, c2}
  Typen = {1, 2}
  Extern = {3}
  Catalogi = {"k1", "k2"}
  CatalogusVan <- MCCatalogusVan
  Niveaus = {1, 2}
  Lijsten <- MCLijsten
  Geen = geen
  Werkers = {w1, w2}
SYMMETRY Symmetrie
INVARIANT
  LijstAlleenToegestaan
CHECK_DEADLOCK FALSE
