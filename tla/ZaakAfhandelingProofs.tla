------------------------ MODULE ZaakAfhandelingProofs ------------------------
(***************************************************************************)
(* Proofs about ZaakAfhandeling for any number of zaken, documents,        *)
(* requests, resultaattypen and dates: its types, how zaken are closed     *)
(* and how their archiving follows.                                        *)
(***************************************************************************)
EXTENDS ZaakAfhandeling, WellFoundedInduction, TLAPS

-----------------------------------------------------------------------------
(* Lemmas about the archiving operators. *)

Bron == Nat \cup {Fout}

\* The last of some dates is one of them.
LEMMA LaatsteType ==
  ASSUME NEW data \in SUBSET (Datum \cup {0}), data # {}
  PROVE  Laatste(data) \in data
<1> DEFINE Voor == {ss \in Nat \X Nat : ss[1] < ss[2]}
           Rest == {MaxDatum - d : d \in data}
<1> USE AfhandelingAssumption
<1>1. \A d \in data : d \in Nat /\ MaxDatum - d \in Nat
  BY DEF Datum
<1>2. Rest \subseteq Nat /\ Rest # {}
  BY <1>1
<1>3. IsWellFoundedOn(Voor, Nat)
  BY NatLessThanWellFounded DEF OpToRel
<1>4. PICK t \in Rest : \A u \in Rest : ~(<<u, t>> \in Voor)
  <2> HIDE DEF Voor, Rest
  <2>1. QED
    BY <1>2, <1>3, WFMin
<1>5. PICK d \in data : t = MaxDatum - d
  BY <1>4
<1>6. ASSUME NEW e \in data PROVE e <= d
  <2>1. MaxDatum - e \in Rest /\ MaxDatum - e \in Nat /\ t \in Nat
    BY <1>1, <1>2
  <2>2. <<MaxDatum - e, t>>[1] = MaxDatum - e /\ <<MaxDatum - e, t>>[2] = t
    OBVIOUS
  <2>3. ~(MaxDatum - e < t)
    BY <1>4, <2>1, <2>2
  <2>4. QED
    BY <1>1, <1>5, <2>3
<1>7. QED
  BY <1>6 DEF Laatste

\* calculate() returns a date, no date, or an error.
LEMMA CalculateType ==
  ASSUME TypeOK, NEW z \in Zaken, NEW row \in Row, NEW rt \in Resultaattype,
         NEW datum \in Datum, NEW force \in BOOLEAN
  PROVE  Calculate(z, row, rt, datum, force) \in Bron
<1> USE AfhandelingAssumption
<1>1. GetBrondatum(z, row, rt, datum) \in Bron
  <2>1. rt.wijze \in AllWijzen
    BY DEF Resultaattype
  <2>2. kenmerk[z] \in KenmerkRow /\ Datum \subseteq Nat
    BY DEF TypeOK, Datum
  <2>3. \A x \in Zaken : zaak[x].einddatum \in Datum \cup {0}
    BY DEF TypeOK, Row
  <2>4. row.hoofdzaak # None => row.hoofdzaak \in Zaken
    BY DEF Row
  <2>5. datum + Procestermijn \in Nat
    BY <2>2
  <2>6. ASSUME kenmerk[z].relevant # {}
        PROVE  Laatste({zaak[x].einddatum : x \in kenmerk[z].relevant}) \in Datum \cup {0}
    <3> DEFINE data == {zaak[x].einddatum : x \in kenmerk[z].relevant}
    <3>1. data \subseteq Datum \cup {0} /\ data # {}
      BY <2>2, <2>3, <2>6 DEF KenmerkRow
    <3> HIDE DEF data
    <3>2. Laatste(data) \in Datum \cup {0}
      BY <3>1, LaatsteType
    <3>3. QED
      BY <3>2 DEF data
  <2>7. QED
    BY <2>1, <2>2, <2>3, <2>4, <2>5, <2>6 DEF GetBrondatum, AllWijzen, Bron, KenmerkRow
<1>2. row.startdatum \in Nat
  BY DEF Row
<1>3. QED
  BY <1>1, <1>2 DEF Calculate, Bron

\* Archiving keeps the hoofdzaak and the einddatum of a row.
LEMMA ArchivedType ==
  ASSUME NEW row \in Row, NEW rt \in Resultaattype, NEW bron \in Bron
  PROVE  /\ Archived(row, rt, bron) \in Row
         /\ Archived(row, rt, bron).einddatum = row.einddatum
         /\ Archived(row, rt, bron).hoofdzaak = row.hoofdzaak
<1>1. rt.nominatie \in Nominaties /\ rt.termijn \in Nat
  BY AfhandelingAssumption DEF Resultaattype
<1>2. CASE bron = Fout
  BY <1>2 DEF Archived
<1>3. CASE bron = 0
  BY <1>1, <1>3 DEF Archived, Row, Fout
<1>4. CASE bron \in Nat /\ bron # 0
  <2>1. bron + rt.termijn \in Nat /\ bron # Fout /\ bron # 0
    BY <1>1, <1>4 DEF Fout
  <2>2. QED
    BY <1>1, <1>4, <2>1 DEF Archived, Row
<1>5. QED
  BY <1>2, <1>3, <1>4 DEF Bron

LEMMA TryArchiveType ==
  ASSUME TypeOK, NEW z \in Zaken, NEW row \in Row, NEW rt \in Resultaattype \cup {None},
         NEW force \in BOOLEAN
  PROVE  /\ TryArchive(z, row, rt, force) \in Row
         /\ TryArchive(z, row, rt, force).einddatum = row.einddatum
         /\ TryArchive(z, row, rt, force).hoofdzaak = row.hoofdzaak
<1>1. CASE row.einddatum = 0 \/ rt = None
  BY <1>1 DEF TryArchive
<1>2. CASE row.einddatum # 0 /\ rt # None
  <2>1. row.einddatum \in Datum /\ rt \in Resultaattype
    BY <1>2 DEF Row
  <2>2. Calculate(z, row, rt, row.einddatum, force) \in Bron
    BY <2>1, CalculateType
  <2>3. QED
    BY <1>2, <2>1, <2>2, ArchivedType DEF TryArchive
<1>3. QED
  BY <1>1, <1>2

LEMMA UpdateDeelzaakType ==
  ASSUME NEW row \in Row, NEW rt \in Resultaattype, NEW closed \in BOOLEAN,
         NEW bron \in Nat
  PROVE  /\ UpdateDeelzaak(row, rt, closed, bron) \in Row
         /\ UpdateDeelzaak(row, rt, closed, bron).einddatum = row.einddatum
         /\ UpdateDeelzaak(row, rt, closed, bron).hoofdzaak = row.hoofdzaak
<1>1. rt.nominatie \in Nominaties /\ rt.termijn \in Nat
  BY AfhandelingAssumption DEF Resultaattype
<1>2. bron + rt.termijn \in Nat
  BY <1>1 DEF Datum
<1>3. QED
  BY <1>1, <1>2 DEF UpdateDeelzaak, Row

\* What a request holds: a row that it is going to store, a status that it is going to store.
MetRij == {"zaak", "zaak_save", "samen", "samen_save"}
ZetStatus == {"status", "samen_save"}

LEMMA VerzoekType ==
  ASSUME NEW q \in Verzoek
  PROVE  /\ q.fase \in ZetStatus =>
              /\ q.zaak \in Zaken /\ q.datum \in Datum /\ q.utc \in Datum /\ q.eind \in BOOLEAN
              /\ q.rij \in Row /\ q.rt \in Resultaattype \cup {None} /\ q.bron \in Nat
         /\ q.fase \in MetRij => q.zaak \in Zaken /\ q.rij \in Row
BY DEF Verzoek, MetRij, ZetStatus

\* A status gives its zaak the einddatum that it stands for.
LEMMA AfterStatusType ==
  ASSUME TypeOK, NEW q \in Verzoek, q.fase \in ZetStatus, NEW oud \in Row
  PROVE  /\ AfterStatus(q, oud) \in Row
         /\ AfterStatus(q, oud).einddatum = Einddatum(q)
         /\ AfterStatus(q, oud).hoofdzaak = oud.hoofdzaak
<1> DEFINE row == [oud EXCEPT !.einddatum = Einddatum(q)]
<1>1. /\ q.zaak \in Zaken /\ q.datum \in Datum /\ q.utc \in Datum /\ q.eind \in BOOLEAN
      /\ q.rij \in Row /\ q.rt \in Resultaattype \cup {None}
  BY VerzoekType
<1>2. Einddatum(q) \in Datum \cup {0}
  BY <1>1 DEF Einddatum
<1>3. row \in Row /\ row.einddatum = Einddatum(q) /\ row.hoofdzaak = oud.hoofdzaak
  BY <1>2 DEF Row
<1>4. /\ Reopened(row) \in Row
      /\ Reopened(row).einddatum = row.einddatum /\ Reopened(row).hoofdzaak = row.hoofdzaak
  BY <1>3 DEF Reopened, NotArchived, Row
<1>5. ASSUME q.rt # None
      PROVE  LET a == Archived(row, q.rt, Calculate(q.zaak, q.rij, q.rt, q.utc, FALSE))
             IN a \in Row /\ a.einddatum = row.einddatum /\ a.hoofdzaak = row.hoofdzaak
  <2>1. q.rt \in Resultaattype
    BY <1>1, <1>5
  <2>2. Calculate(q.zaak, q.rij, q.rt, q.utc, FALSE) \in Bron
    BY <1>1, <2>1, CalculateType
  <2> HIDE DEF row
  <2>3. QED
    BY <1>3, <2>1, <2>2, ArchivedType
<1>6. AfterStatus(q, oud) \in {row, Reopened(row)}
        \cup (IF q.rt # None
                THEN {Archived(row, q.rt, Calculate(q.zaak, q.rij, q.rt, q.utc, FALSE))} ELSE {})
  BY DEF AfterStatus
<1>7. QED
  <2> HIDE DEF row
  <2>1. QED
    BY <1>3, <1>4, <1>5, <1>6

\* Saving a row keeps its einddatum and hoofdzaak.
LEMMA SavedType ==
  ASSUME TypeOK, NEW z \in Zaken, NEW row \in Row
  PROVE  /\ Saved(z, row) \in Row
         /\ Saved(z, row).einddatum = row.einddatum
         /\ Saved(z, row).hoofdzaak = row.hoofdzaak
<1>1. resultaat[z] \in Resultaattype \cup {None}
  BY DEF TypeOK
<1>2. LET t == TryArchive(z, row, resultaat[z], TRUE)
      IN t \in Row /\ t.einddatum = row.einddatum /\ t.hoofdzaak = row.hoofdzaak
  BY <1>1, TryArchiveType
<1>3. QED
  BY <1>2 DEF Saved

-----------------------------------------------------------------------------
(* Type correctness, one lemma for each step that needs more than a look. *)

\* What a status was validated against is what is going to be stored with it.
LEMMA MetStatusType ==
  ASSUME TypeOK, NEW fase \in ZetStatus, NEW z \in Zaken, NEW row \in Row,
         NEW rt \in Resultaattype \cup {None}, NEW datum \in Datum, NEW nacht \in Nachten,
         NEW eind \in BOOLEAN, StatusReady(z, row, rt, datum, nacht, eind)
  PROVE  LET q == MetStatus(fase, z, row, rt, datum, nacht, eind)
         IN /\ q \in Verzoek
            /\ q.fase = fase /\ q.zaak = z /\ q.datum = datum /\ q.eind = eind /\ q.rij = row
            /\ q.rt = rt
<1> DEFINE utc  == Utc(datum, nacht)
           bron == IF eind THEN BronVoorDeelzaken(z, row, rt, utc) ELSE 0
<1>1. utc \in Datum
  BY AfhandelingAssumption DEF Utc, Datum, StatusReady
<1>2. ASSUME eind PROVE BronVoorDeelzaken(z, row, rt, utc) \in Nat
  <2>1. CASE rt = None \/ FollowsHoofdzaak(row, rt)
    BY <2>1 DEF BronVoorDeelzaken
  <2>2. CASE ~(rt = None \/ FollowsHoofdzaak(row, rt))
    <3>1. Calculate(z, row, rt, utc, FALSE) \in Bron
      <4> HIDE DEF utc
      <4>1. rt \in Resultaattype
        BY <2>2
      <4>2. QED
        BY <1>1, <4>1, CalculateType
    <3>2. Calculate(z, row, rt, utc, FALSE) # Fout
      BY <1>2, <2>2 DEF StatusReady, ResultaatReady
    <3> HIDE DEF utc
    <3>3. QED
      BY <2>2, <3>1, <3>2 DEF BronVoorDeelzaken, Bron
  <2>3. QED
    BY <2>1, <2>2
<1>3. bron \in Nat
  BY <1>2
<1>4. MetStatus(fase, z, row, rt, datum, nacht, eind) =
        [fase |-> fase, zaak |-> z, datum |-> datum, utc |-> utc, eind |-> eind,
         rij |-> row, rt |-> rt, bron |-> bron]
  BY DEF MetStatus
<1> HIDE DEF bron, utc
<1>5. QED
  BY <1>1, <1>3, <1>4 DEF Verzoek, ZetStatus

LEMMA StatusReadType ==
  ASSUME TypeOK, NEW r \in Requests, NEW z \in Zaken, NEW datum \in Datum, NEW nacht \in Nachten,
         NEW eind \in BOOLEAN, StatusRead(r, z, datum, nacht, eind)
  PROVE  TypeOK'
<1>1. zaak[z] \in Row /\ resultaat[z] \in Resultaattype \cup {None}
  BY DEF TypeOK
<1>2. MetStatus("status", z, zaak[z], resultaat[z], datum, nacht, eind) \in Verzoek
  BY <1>1, MetStatusType DEF StatusRead, ZetStatus
<1>3. QED
  BY <1>2 DEF TypeOK, StatusRead

\* What storing a status does to the row of each zaak.
LEMMA StoreRows ==
  ASSUME TypeOK, NEW q \in Verzoek, q.fase \in ZetStatus, NEW oud \in Row, StoreStatus(q, oud),
         NEW x \in Zaken
  PROVE  /\ zaak' \in [Zaken -> Row] /\ statussen' \in [Zaken -> SUBSET StatusRow]
         /\ zaak'[x].hoofdzaak = IF x = q.zaak THEN oud.hoofdzaak ELSE zaak[x].hoofdzaak
         /\ zaak'[x].einddatum = IF x = q.zaak THEN Einddatum(q) ELSE zaak[x].einddatum
         /\ statussen'[x] = IF x = q.zaak
                              THEN statussen[x] \cup {[datum |-> q.datum, eind |-> q.eind]}
                              ELSE statussen[x]
<1> DEFINE changes  == q.eind \/ q.rij.einddatum # 0
           volgt(y) == changes /\ y \in Deelzaken(q.zaak) /\ FollowsHoofdzaak(zaak[y], resultaat[y])
           rij(y)   == IF y = q.zaak THEN AfterStatus(q, oud)
                       ELSE IF volgt(y) THEN UpdateDeelzaak(zaak[y], resultaat[y], q.eind, q.bron)
                       ELSE zaak[y]
<1>1. zaak' = [y \in Zaken |-> rij(y)]
  BY DEF StoreStatus
<1>2. q.zaak \in Zaken /\ q.datum \in Datum /\ q.eind \in BOOLEAN /\ q.bron \in Nat
  BY VerzoekType
<1>3. ASSUME NEW y \in Zaken
      PROVE  /\ rij(y) \in Row
             /\ rij(y).hoofdzaak = IF y = q.zaak THEN oud.hoofdzaak ELSE zaak[y].hoofdzaak
             /\ rij(y).einddatum = IF y = q.zaak THEN Einddatum(q) ELSE zaak[y].einddatum
  <2>1. CASE y = q.zaak
    BY <2>1, AfterStatusType
  <2>2. CASE y # q.zaak /\ volgt(y)
    <3>1. resultaat[y] \in Resultaattype /\ zaak[y] \in Row
      BY <2>2 DEF TypeOK, FollowsHoofdzaak
    <3>2. LET u == UpdateDeelzaak(zaak[y], resultaat[y], q.eind, q.bron)
          IN u \in Row /\ u.einddatum = zaak[y].einddatum /\ u.hoofdzaak = zaak[y].hoofdzaak
      BY <1>2, <3>1, UpdateDeelzaakType
    <3>3. QED
      BY <2>2, <3>2
  <2>3. CASE y # q.zaak /\ ~volgt(y)
    BY <2>3 DEF TypeOK
  <2>4. QED
    BY <2>1, <2>2, <2>3
<1>4. /\ statussen' \in [Zaken -> SUBSET StatusRow]
      /\ statussen'[x] = IF x = q.zaak
                           THEN statussen[x] \cup {[datum |-> q.datum, eind |-> q.eind]}
                           ELSE statussen[x]
  <2> DEFINE s == [datum |-> q.datum, eind |-> q.eind]
  <2>1. statussen' = [statussen EXCEPT ![q.zaak] = @ \cup {s}]
    BY DEF StoreStatus
  <2>2. s \in StatusRow /\ statussen \in [Zaken -> SUBSET StatusRow]
    BY <1>2 DEF TypeOK, StatusRow
  <2> HIDE DEF s
  <2>3. /\ statussen' \in [Zaken -> SUBSET StatusRow]
        /\ statussen'[x] = IF x = q.zaak THEN statussen[x] \cup {s} ELSE statussen[x]
    BY <2>1, <2>2
  <2>4. QED
    BY <2>3 DEF s
<1>5. /\ zaak' \in [Zaken -> Row]
      /\ zaak'[x].hoofdzaak = IF x = q.zaak THEN oud.hoofdzaak ELSE zaak[x].hoofdzaak
      /\ zaak'[x].einddatum = IF x = q.zaak THEN Einddatum(q) ELSE zaak[x].einddatum
  <2> HIDE DEF rij
  <2>1. QED
    BY <1>1, <1>3
<1>6. QED
  BY <1>4, <1>5

\* What a status does to the row of each zaak.
LEMMA StatusWriteRows ==
  ASSUME TypeOK, NEW r \in Requests, StatusWrite(r), ~Taken(req[r]), NEW x \in Zaken
  PROVE  /\ zaak' \in [Zaken -> Row] /\ statussen' \in [Zaken -> SUBSET StatusRow]
         /\ zaak'[x].hoofdzaak = zaak[x].hoofdzaak
         /\ zaak'[x].einddatum = IF x = req[r].zaak THEN Einddatum(req[r]) ELSE zaak[x].einddatum
<1>1. req[r] \in Verzoek /\ req[r].fase \in ZetStatus
  BY DEF StatusWrite, TypeOK, ZetStatus
<1>2. zaak[req[r].zaak] \in Row
  BY <1>1, VerzoekType DEF TypeOK
<1>3. StoreStatus(req[r], zaak[req[r].zaak])
  BY DEF StatusWrite
<1> DEFINE q == req[r]
           oud == zaak[q.zaak]
<1> HIDE DEF q, oud
<1>4. /\ zaak' \in [Zaken -> Row] /\ statussen' \in [Zaken -> SUBSET StatusRow]
      /\ zaak'[x].hoofdzaak = IF x = q.zaak THEN oud.hoofdzaak ELSE zaak[x].hoofdzaak
      /\ zaak'[x].einddatum = IF x = q.zaak THEN Einddatum(q) ELSE zaak[x].einddatum
  <2>1. q \in Verzoek /\ q.fase \in ZetStatus /\ oud \in Row /\ StoreStatus(q, oud)
    BY <1>1, <1>2, <1>3 DEF q, oud
  <2>2. QED
    BY <2>1, StoreRows
<1>5. QED
  BY <1>4 DEF q, oud

LEMMA StatusWriteType ==
  ASSUME TypeOK, NEW r \in Requests, StatusWrite(r)
  PROVE  TypeOK'
<1>1. req[r].zaak \in Zaken
  BY VerzoekType DEF TypeOK, StatusWrite, ZetStatus
<1>2. zaak' \in [Zaken -> Row] /\ statussen' \in [Zaken -> SUBSET StatusRow]
  <2>1. CASE Taken(req[r])
    BY <2>1 DEF TypeOK, StatusWrite
  <2>2. CASE ~Taken(req[r])
    BY <1>1, <2>2, StatusWriteRows
  <2>3. QED
    BY <2>1, <2>2
<1>3. req' \in [Requests -> Verzoek]
  BY DEF StatusWrite, TypeOK, Verzoek, Idle
<1>4. QED
  BY <1>2, <1>3 DEF TypeOK, StatusWrite

\* What a PATCH makes of a row.
LEMMA PatchedType ==
  ASSUME TypeOK, NEW z \in Zaken, NEW row \in Patched(z)
  PROVE  /\ row \in Row /\ row.einddatum = zaak[z].einddatum
         /\ "hoofdzaak" \notin Ops => row.hoofdzaak = zaak[z].hoofdzaak
<1>1. zaak[z] \in Row
  BY DEF TypeOK
<1>2. \A datum \in Datum \cup {0} : datum \in Nat
  BY DEF Datum
<1>3. CASE row = zaak[z]
  BY <1>1, <1>3
<1>4. CASE "hoofdzaak" \in Ops /\ \E h \in {x \in Zaken \ {z} : zaak[x].hoofdzaak = None} \cup {None} :
             row = [zaak[z] EXCEPT !.hoofdzaak = h]
  BY <1>1, <1>4 DEF Row
<1>5. CASE \E datum \in Datum \cup {0} :
             row = [zaak[z] EXCEPT !.startdatum = datum, !.actiedatum = datum]
  BY <1>1, <1>2, <1>5 DEF Row
<1>6. CASE row = [zaak[z] EXCEPT !.gearchiveerd = TRUE]
  BY <1>1, <1>6 DEF Row
<1>7. QED
  BY <1>3, <1>4, <1>5, <1>6 DEF Patched

LEMMA PatchReadType ==
  ASSUME TypeOK, NEW r \in Requests, NEW z \in Zaken, NEW row \in Patched(z),
         PatchRead(r, z, row) \/ SamenRead(r, z, row)
  PROVE  TypeOK'
<1>1. row \in Row
  BY PatchedType
<1>2. \A fase \in {"zaak", "samen"} : [fase |-> fase, zaak |-> z, rij |-> row] \in Verzoek
  BY <1>1 DEF Verzoek
<1>3. QED
  BY <1>2 DEF TypeOK, PatchRead, SamenRead

LEMMA PatchCheckType ==
  ASSUME TypeOK, NEW r \in Requests, PatchCheck(r)
  PROVE  TypeOK'
<1>1. req[r] \in [fase : {"zaak", "zaak_save", "samen"}, zaak : Zaken, rij : Row]
  BY DEF TypeOK, PatchCheck, Verzoek, Idle
<1>2. Idle \in Verzoek /\ [req[r] EXCEPT !.fase = "zaak_save"] \in Verzoek
  BY <1>1 DEF Verzoek, Idle
<1>3. QED
  BY <1>2 DEF TypeOK, PatchCheck

\* What a save does to the row of each zaak.
LEMMA PatchWriteRows ==
  ASSUME TypeOK, NEW r \in Requests, PatchWrite(r), NEW x \in Zaken
  PROVE  /\ zaak' \in [Zaken -> Row]
         /\ zaak'[x].hoofdzaak = IF x = req[r].zaak THEN req[r].rij.hoofdzaak ELSE zaak[x].hoofdzaak
         /\ zaak'[x].einddatum = IF x = req[r].zaak THEN req[r].rij.einddatum ELSE zaak[x].einddatum
<1> DEFINE q        == req[r]
           z        == q.zaak
           volgt(y) == /\ Again(z, q.rij) /\ y # z /\ zaak[y].hoofdzaak = z
                       /\ FollowsHoofdzaak(zaak[y], resultaat[y])
           bron(y)  == IF resultaat[y].termijn = 0 THEN 0 ELSE q.rij.einddatum
           deel(y)  == IF zaak[y].einddatum = 0 THEN zaak[y] ELSE Archived(zaak[y], resultaat[y], bron(y))
           zelf     == Saved(z, q.rij)
           rij(y)   == IF y = z THEN zelf ELSE IF volgt(y) THEN deel(y) ELSE zaak[y]
<1>1. zaak' = [y \in Zaken |-> rij(y)]
  BY DEF PatchWrite
<1>2. z \in Zaken /\ q.rij \in Row
  BY DEF TypeOK, Verzoek, PatchWrite
<1>3. zelf \in Row /\ zelf.einddatum = q.rij.einddatum /\ zelf.hoofdzaak = q.rij.hoofdzaak
  BY <1>2, SavedType
<1>4. ASSUME NEW y \in Zaken, volgt(y)
      PROVE  deel(y) \in Row /\ deel(y).einddatum = zaak[y].einddatum
             /\ deel(y).hoofdzaak = zaak[y].hoofdzaak
  <2>1. resultaat[y] \in Resultaattype /\ zaak[y] \in Row
    BY <1>4 DEF TypeOK, FollowsHoofdzaak
  <2>2. bron(y) \in Bron
    BY <1>2, <1>4 DEF Again, Row, Bron, Datum
  <2> HIDE DEF bron
  <2>3. QED
    BY <2>1, <2>2, ArchivedType
<1>5. ASSUME NEW y \in Zaken
      PROVE  /\ rij(y) \in Row
             /\ rij(y).hoofdzaak = IF y = z THEN q.rij.hoofdzaak ELSE zaak[y].hoofdzaak
             /\ rij(y).einddatum = IF y = z THEN q.rij.einddatum ELSE zaak[y].einddatum
  <2>1. zaak[y] \in Row
    BY DEF TypeOK
  <2> HIDE DEF zelf, deel, volgt
  <2>2. QED
    BY <1>3, <1>4, <2>1
<1>6. QED
  <2> HIDE DEF rij
  <2>1. QED
    BY <1>1, <1>5

LEMMA PatchWriteType ==
  ASSUME TypeOK, NEW r \in Requests, PatchWrite(r)
  PROVE  TypeOK'
<1>1. zaak' \in [Zaken -> Row]
  <2>1. req[r].zaak \in Zaken
    BY DEF TypeOK, Verzoek, PatchWrite
  <2>2. QED
    BY <2>1, PatchWriteRows
<1>2. req' \in [Requests -> Verzoek]
  BY DEF TypeOK, PatchWrite, Verzoek, Idle
<1>3. QED
  BY <1>1, <1>2 DEF TypeOK, PatchWrite

\* What a combined request holds after it saved the zaak and validated the status.
LEMMA SamenSaveType ==
  ASSUME TypeOK, NEW r \in Requests, NEW rt \in Resultaattype \cup {None}, NEW datum \in Datum,
         NEW nacht \in Nachten, NEW eind \in BOOLEAN, SamenSave(r, rt, datum, nacht, eind)
  PROVE  /\ TypeOK'
         /\ \E q \in Verzoek :
              /\ req' = [req EXCEPT ![r] = q]
              /\ q.fase = "samen_save" /\ q.zaak = req[r].zaak /\ q.datum = datum /\ q.eind = eind
              /\ q.rij.einddatum = req[r].rij.einddatum
              /\ q.rij.hoofdzaak = req[r].rij.hoofdzaak
              /\ StatusReady(q.zaak, q.rij, q.rt, datum, nacht, eind)
<1> DEFINE z   == req[r].zaak
           oud == Saved(z, req[r].rij)
           row == IF eind THEN TryArchive(z, oud, rt, FALSE) ELSE oud
           q   == MetStatus("samen_save", z, row, rt, datum, nacht, eind)
<1>1. z \in Zaken /\ req[r].rij \in Row
  BY VerzoekType DEF SamenSave, TypeOK, MetRij
<1>2. oud \in Row /\ oud.einddatum = req[r].rij.einddatum /\ oud.hoofdzaak = req[r].rij.hoofdzaak
  BY <1>1, SavedType
<1>3. row \in Row /\ row.einddatum = oud.einddatum /\ row.hoofdzaak = oud.hoofdzaak
  <2> HIDE DEF oud, z
  <2>1. QED
    BY <1>1, <1>2, TryArchiveType
<1>4. /\ StatusReady(z, row, rt, datum, nacht, eind) /\ req' = [req EXCEPT ![r] = q]
      /\ UNCHANGED <<zaak, statussen, resultaat, kenmerk, docs, zios>>
  BY DEF SamenSave
<1> HIDE DEF oud, row, z
<1>5. /\ q \in Verzoek /\ q.fase = "samen_save" /\ q.zaak = z /\ q.datum = datum /\ q.eind = eind
      /\ q.rij = row /\ q.rt = rt
  BY <1>1, <1>3, <1>4, MetStatusType DEF ZetStatus
<1> HIDE DEF q
<1>6. TypeOK'
  BY <1>4, <1>5 DEF TypeOK
<1>7. QED
  BY <1>2, <1>3, <1>4, <1>5, <1>6 DEF z

\* What a combined request stores.
LEMMA SamenWriteRows ==
  ASSUME TypeOK, NEW r \in Requests, SamenWrite(r), NEW x \in Zaken
  PROVE  /\ TypeOK'
         /\ zaak'[x].hoofdzaak = IF x = req[r].zaak THEN req[r].rij.hoofdzaak ELSE zaak[x].hoofdzaak
         /\ zaak'[x].einddatum = IF x = req[r].zaak THEN Einddatum(req[r]) ELSE zaak[x].einddatum
         /\ statussen'[x] = IF x = req[r].zaak
                              THEN statussen[x] \cup {[datum |-> req[r].datum, eind |-> req[r].eind]}
                              ELSE statussen[x]
<1>1. req[r] \in Verzoek /\ req[r].fase \in ZetStatus /\ req[r].fase \in MetRij
  BY DEF SamenWrite, TypeOK, ZetStatus, MetRij
<1>2. req[r].rij \in Row /\ req[r].zaak \in Zaken /\ req[r].rt \in Resultaattype \cup {None}
  BY <1>1, VerzoekType
<1>3. StoreStatus(req[r], req[r].rij)
  BY DEF SamenWrite
<1>4. resultaat' \in [Zaken -> Resultaattype \cup {None}] /\ req' \in [Requests -> Verzoek]
  BY <1>2 DEF SamenWrite, TypeOK, Verzoek, Idle
<1>5. TypeOK'
  BY <1>1, <1>2, <1>3, <1>4, StoreRows DEF SamenWrite, TypeOK
<1>6. QED
  BY <1>1, <1>2, <1>3, <1>5, StoreRows

\* A new result.
LEMMA ResultaatCreateType ==
  ASSUME TypeOK, NEW z \in Zaken, NEW rt \in Resultaattype, ResultaatCreate(z, rt)
  PROVE  TypeOK' /\ \A x \in Zaken : /\ zaak'[x].einddatum = zaak[x].einddatum
                                     /\ zaak'[x].hoofdzaak = zaak[x].hoofdzaak
<1> DEFINE row == TryArchive(z, zaak[z], rt, FALSE)
<1>1. zaak[z] \in Row
  BY DEF TypeOK
<1>2. row \in Row /\ row.einddatum = zaak[z].einddatum /\ row.hoofdzaak = zaak[z].hoofdzaak
  BY <1>1, TryArchiveType
<1>3. zaak' = [zaak EXCEPT ![z] = row] /\ resultaat' = [resultaat EXCEPT ![z] = rt]
  BY DEF ResultaatCreate, TypeOK
<1> HIDE DEF row
<1>4. QED
  BY <1>2, <1>3 DEF TypeOK, ResultaatCreate

LEMMA ResultaatUpdateType ==
  ASSUME TypeOK, NEW z \in Zaken, NEW x \in Zaken, ResultaatUpdate(z, x)
  PROVE  TypeOK' /\ \A y \in Zaken : /\ zaak'[y].einddatum = zaak[y].einddatum
                                     /\ zaak'[y].hoofdzaak = zaak[y].hoofdzaak
<1>1. PICK rt : rt = resultaat[z]
  OBVIOUS
<1>2. rt \in Resultaattype \cup {None} /\ zaak[x] \in Row
  BY <1>1 DEF TypeOK
<1>3. PICK row : row = TryArchive(x, zaak[x], rt, FALSE)
  OBVIOUS
<1>4. row \in Row /\ row.einddatum = zaak[x].einddatum /\ row.hoofdzaak = zaak[x].hoofdzaak
  BY <1>2, <1>3, TryArchiveType
<1>5. zaak' = [zaak EXCEPT ![x] = row] /\ resultaat' = [resultaat EXCEPT ![z] = None, ![x] = rt]
  BY <1>1, <1>3 DEF ResultaatUpdate, TypeOK
<1>6. zaak' \in [Zaken -> Row] /\ resultaat' \in [Zaken -> Resultaattype \cup {None}]
  BY <1>2, <1>4, <1>5 DEF TypeOK
<1>7. \A y \in Zaken : /\ zaak'[y].einddatum = zaak[y].einddatum
                       /\ zaak'[y].hoofdzaak = zaak[y].hoofdzaak
  BY <1>4, <1>5 DEF TypeOK
<1>8. TypeOK'
  BY <1>6, <1>7 DEF TypeOK, ResultaatUpdate
<1>9. QED
  BY <1>7, <1>8

LEMMA ResultaatDeleteType ==
  ASSUME TypeOK, NEW z \in Zaken, ResultaatDelete(z)
  PROVE  TypeOK' /\ \A x \in Zaken : /\ zaak'[x].einddatum = zaak[x].einddatum
                                     /\ zaak'[x].hoofdzaak = zaak[x].hoofdzaak
<1> DEFINE row == [zaak[z] EXCEPT !.startdatum = 0, !.actiedatum = 0]
<1>1. zaak[z] \in Row
  BY DEF TypeOK
<1>2. row \in Row /\ row.einddatum = zaak[z].einddatum /\ row.hoofdzaak = zaak[z].hoofdzaak
  BY <1>1 DEF Row
<1>3. zaak' = [zaak EXCEPT ![z] = row] /\ resultaat' = [resultaat EXCEPT ![z] = None]
  BY DEF ResultaatDelete, TypeOK
<1> HIDE DEF row
<1>4. QED
  BY <1>2, <1>3 DEF TypeOK, ResultaatDelete

LEMMA RecalculatedType ==
  ASSUME TypeOK, NEW z \in Zaken, NEW wijze, NEW datum \in Datum \cup {0, Fout}
  PROVE  /\ Recalculated(z, wijze, datum) \in Row
         /\ Recalculated(z, wijze, datum).einddatum = zaak[z].einddatum
         /\ Recalculated(z, wijze, datum).hoofdzaak = zaak[z].hoofdzaak
<1> DEFINE rt   == resultaat[z]
           bron == IF rt.termijn = 0 THEN 0 ELSE datum
<1>1. zaak[z] \in Row /\ bron \in Bron
  BY DEF TypeOK, Bron, Datum
<1>2. CASE IsClosed(z) /\ rt # None /\ rt.wijze = wijze
  <2>1. rt \in Resultaattype /\ Recalculated(z, wijze, datum) = Archived(zaak[z], rt, bron)
    BY <1>2 DEF TypeOK, Recalculated
  <2> HIDE DEF bron, rt
  <2>2. QED
    BY <1>1, <2>1, ArchivedType
<1>3. CASE ~(IsClosed(z) /\ rt # None /\ rt.wijze = wijze)
  BY <1>1, <1>3 DEF Recalculated
<1>4. QED
  BY <1>2, <1>3

\* The steps that change what archiving may start from.
KenmerkStap(z) ==
  \/ \E datum \in Datum \cup {Fout} : EigenschapSave(z, datum) \/ ObjectSave(z, datum)
  \/ KenmerkDelete(z, "eigenschap", 0) \/ KenmerkDelete(z, "object", Fout)
  \/ \E ingang \in Datum, verval \in Datum \cup {0} : BesluitSave(z, ingang, verval)
  \/ BesluitDelete(z)

LEMMA KenmerkRowType ==
  ASSUME NEW k \in KenmerkRow, NEW i \in Datum \cup {0}, NEW v \in Datum \cup {0}
  PROVE  [k EXCEPT !.ingang = i, !.verval = v] \in KenmerkRow
<1>1. [k EXCEPT !.ingang = i] \in KenmerkRow
  BY DEF KenmerkRow
<1>2. [[k EXCEPT !.ingang = i] EXCEPT !.verval = v] \in KenmerkRow
  BY <1>1 DEF KenmerkRow
<1>3. [k EXCEPT !.ingang = i, !.verval = v] = [[k EXCEPT !.ingang = i] EXCEPT !.verval = v]
  BY DEF KenmerkRow
<1>4. QED
  BY <1>2, <1>3

LEMMA KenmerkType ==
  ASSUME TypeOK, NEW z \in Zaken, KenmerkStap(z)
  PROVE  TypeOK' /\ \A x \in Zaken : /\ zaak'[x].einddatum = zaak[x].einddatum
                                     /\ zaak'[x].hoofdzaak = zaak[x].hoofdzaak
<1> DEFINE Goal == /\ zaak' \in [Zaken -> Row]
                   /\ \A x \in Zaken : /\ zaak'[x].einddatum = zaak[x].einddatum
                                       /\ zaak'[x].hoofdzaak = zaak[x].hoofdzaak
                   /\ kenmerk' \in [Zaken -> KenmerkRow]
                   /\ UNCHANGED <<statussen, resultaat, docs, zios, req>>
<1>1. zaak \in [Zaken -> Row] /\ kenmerk \in [Zaken -> KenmerkRow]
  BY DEF TypeOK
<1>2. ASSUME NEW row \in Row, row.einddatum = zaak[z].einddatum, row.hoofdzaak = zaak[z].hoofdzaak,
             NEW k \in KenmerkRow, zaak' = [zaak EXCEPT ![z] = row],
             kenmerk' = [kenmerk EXCEPT ![z] = k], UNCHANGED <<statussen, resultaat, docs, zios, req>>
      PROVE  Goal
  BY <1>1, <1>2
<1>3. ASSUME NEW datum \in Datum \cup {Fout}, EigenschapSave(z, datum) PROVE Goal
  <2> DEFINE row == Recalculated(z, "eigenschap", datum)
  <2>1. [kenmerk[z] EXCEPT !.eigenschap = datum] \in KenmerkRow
    BY <1>1 DEF KenmerkRow
  <2>2. row \in Row /\ row.einddatum = zaak[z].einddatum /\ row.hoofdzaak = zaak[z].hoofdzaak
    BY RecalculatedType
  <2>3. /\ kenmerk' = [kenmerk EXCEPT ![z] = [kenmerk[z] EXCEPT !.eigenschap = datum]]
        /\ zaak' = [zaak EXCEPT ![z] = row]
        /\ UNCHANGED <<statussen, resultaat, docs, zios, req>>
    BY <1>3 DEF EigenschapSave
  <2> HIDE DEF Goal, row
  <2>4. QED
    BY <1>2, <2>1, <2>2, <2>3
<1>4. ASSUME NEW datum \in Datum \cup {Fout}, ObjectSave(z, datum) PROVE Goal
  <2> DEFINE row == Recalculated(z, "zaakobject", datum)
  <2>1. [kenmerk[z] EXCEPT !.object = datum] \in KenmerkRow
    BY <1>1 DEF KenmerkRow
  <2>2. row \in Row /\ row.einddatum = zaak[z].einddatum /\ row.hoofdzaak = zaak[z].hoofdzaak
    BY RecalculatedType
  <2>3. /\ kenmerk' = [kenmerk EXCEPT ![z] = [kenmerk[z] EXCEPT !.object = datum]]
        /\ zaak' = [zaak EXCEPT ![z] = row]
        /\ UNCHANGED <<statussen, resultaat, docs, zios, req>>
    BY <1>4 DEF ObjectSave
  <2> HIDE DEF Goal, row
  <2>4. QED
    BY <1>2, <2>1, <2>2, <2>3
<1>5. ASSUME KenmerkDelete(z, "eigenschap", 0) \/ KenmerkDelete(z, "object", Fout) PROVE Goal
  <2>1. PICK k \in KenmerkRow : kenmerk' = [kenmerk EXCEPT ![z] = k]
    <3>1. CASE KenmerkDelete(z, "eigenschap", 0)
      <4>1. kenmerk' = [kenmerk EXCEPT ![z] = [kenmerk[z] EXCEPT !.eigenschap = 0]]
        BY <3>1 DEF KenmerkDelete, KenmerkRow
      <4>2. [kenmerk[z] EXCEPT !.eigenschap = 0] \in KenmerkRow
        BY <1>1 DEF KenmerkRow
      <4>3. QED
        BY <4>1, <4>2
    <3>2. CASE KenmerkDelete(z, "object", Fout)
      <4>1. kenmerk' = [kenmerk EXCEPT ![z] = [kenmerk[z] EXCEPT !.object = Fout]]
        BY <3>2 DEF KenmerkDelete, KenmerkRow
      <4>2. [kenmerk[z] EXCEPT !.object = Fout] \in KenmerkRow
        BY <1>1 DEF KenmerkRow
      <4>3. QED
        BY <4>1, <4>2
    <3>3. QED
      BY <1>5, <3>1, <3>2
  <2>2. UNCHANGED <<zaak, statussen, resultaat, docs, zios, req>>
    BY <1>5 DEF KenmerkDelete
  <2>3. QED
    BY <1>1, <2>1, <2>2
<1>6. ASSUME NEW ingang \in Datum, NEW verval \in Datum \cup {0}, BesluitSave(z, ingang, verval)
      PROVE  Goal
  <2> DEFINE row == BesluitGewijzigd(z, ingang, verval)
  <2>1. row \in Row /\ row.einddatum = zaak[z].einddatum /\ row.hoofdzaak = zaak[z].hoofdzaak
    <3>1. LET leeg == [zaak[z] EXCEPT !.startdatum = 0, !.actiedatum = 0]
          IN leeg \in Row /\ leeg.einddatum = zaak[z].einddatum /\ leeg.hoofdzaak = zaak[z].hoofdzaak
      BY <1>1 DEF Row
    <3>2. QED
      BY <3>1, RecalculatedType DEF BesluitGewijzigd
  <2>2. [kenmerk[z] EXCEPT !.ingang = ingang, !.verval = verval] \in KenmerkRow
    BY <1>1, KenmerkRowType
  <2>3. /\ kenmerk' = [kenmerk EXCEPT ![z] = [kenmerk[z] EXCEPT !.ingang = ingang, !.verval = verval]]
        /\ zaak' = [zaak EXCEPT ![z] = row]
        /\ UNCHANGED <<statussen, resultaat, docs, zios, req>>
    BY <1>6 DEF BesluitSave
  <2> HIDE DEF Goal, row
  <2>4. QED
    BY <1>2, <2>1, <2>2, <2>3
<1>7. ASSUME BesluitDelete(z) PROVE Goal
  <2>1. [kenmerk[z] EXCEPT !.ingang = 0, !.verval = 0] \in KenmerkRow
    BY <1>1, KenmerkRowType, AfhandelingAssumption DEF Datum
  <2>2. kenmerk' = [kenmerk EXCEPT ![z] = [kenmerk[z] EXCEPT !.ingang = 0, !.verval = 0]]
    BY <1>7 DEF BesluitDelete
  <2>3. QED
    BY <1>1, <1>7, <2>1, <2>2 DEF BesluitDelete
<1> HIDE DEF Goal
<1>8. Goal
  BY <1>3, <1>4, <1>5, <1>6, <1>7 DEF KenmerkStap
<1>9. QED
  BY <1>8 DEF Goal, TypeOK

LEMMA DocumentType ==
  ASSUME TypeOK, \/ \E d \in Docs : DocumentChange(d)
                 \/ \E z \in Zaken, d \in Docs : Relate(z, d)
  PROVE  TypeOK' /\ UNCHANGED <<zaak, statussen, req>>
<1>1. ASSUME NEW d \in Docs, DocumentChange(d) PROVE TypeOK' /\ UNCHANGED <<zaak, statussen, req>>
  <2>1. docs[d] \in DocRow
    BY DEF TypeOK
  <2>2. docs' \in [Docs -> DocRow]
    <3>1. CASE docs' = [docs EXCEPT ![d].locked = ~@]
      BY <2>1, <3>1 DEF TypeOK, DocRow
    <3>2. CASE docs' = [docs EXCEPT ![d].indicatie = ~@]
      BY <2>1, <3>2 DEF TypeOK, DocRow
    <3>3. CASE docs' = [docs EXCEPT ![d].gearchiveerd = ~@]
      BY <2>1, <3>3 DEF TypeOK, DocRow
    <3>4. QED
      BY <1>1, <3>1, <3>2, <3>3 DEF DocumentChange
  <2>3. QED
    BY <1>1, <2>2 DEF TypeOK, DocumentChange
<1>2. ASSUME NEW z \in Zaken, NEW d \in Docs, Relate(z, d)
      PROVE  TypeOK' /\ UNCHANGED <<zaak, statussen, req>>
  BY <1>2 DEF TypeOK, Relate
<1>3. QED
  BY <1>1, <1>2

\* The steps that leave statuses, einddatum, hoofdzaak and requests alone.
Elders ==
  \/ \E z \in Zaken : \/ \E rt \in Resultaattype : ResultaatCreate(z, rt)
                      \/ \E x \in Zaken : ResultaatUpdate(z, x)
                      \/ ResultaatDelete(z)
                      \/ KenmerkStap(z)
                      \/ \E d \in Docs : Relate(z, d)
  \/ \E d \in Docs : DocumentChange(d)
  \/ UNCHANGED <<zaak, statussen, resultaat, kenmerk, docs, zios, req>>

LEMMA EldersType ==
  ASSUME TypeOK, Elders
  PROVE  /\ TypeOK'
         /\ UNCHANGED <<statussen, req>>
         /\ \A x \in Zaken : zaak'[x].einddatum = zaak[x].einddatum
                             /\ zaak'[x].hoofdzaak = zaak[x].hoofdzaak
<1> DEFINE Goal == /\ TypeOK'
                   /\ UNCHANGED <<statussen, req>>
                   /\ \A x \in Zaken : zaak'[x].einddatum = zaak[x].einddatum
                                       /\ zaak'[x].hoofdzaak = zaak[x].hoofdzaak
<1>1. ASSUME NEW z \in Zaken, NEW rt \in Resultaattype, ResultaatCreate(z, rt) PROVE Goal
  BY <1>1, ResultaatCreateType DEF ResultaatCreate
<1>2. ASSUME NEW z \in Zaken, ResultaatDelete(z) PROVE Goal
  BY <1>2, ResultaatDeleteType DEF ResultaatDelete
<1>3. ASSUME NEW z \in Zaken, KenmerkStap(z) PROVE Goal
  BY <1>3, KenmerkType DEF KenmerkStap, EigenschapSave, ObjectSave, KenmerkDelete, BesluitSave, BesluitDelete
<1>4. ASSUME \/ \E d \in Docs : DocumentChange(d)
             \/ \E z \in Zaken, d \in Docs : Relate(z, d)
      PROVE  Goal
  BY <1>4, DocumentType
<1>5. ASSUME UNCHANGED <<zaak, statussen, resultaat, kenmerk, docs, zios, req>> PROVE Goal
  BY <1>5 DEF TypeOK
<1>8. ASSUME NEW z \in Zaken, NEW x \in Zaken, ResultaatUpdate(z, x) PROVE Goal
  BY <1>8, ResultaatUpdateType DEF ResultaatUpdate
<1> HIDE DEF Goal
<1>6. Goal
  <2>1. CASE \E z \in Zaken, rt \in Resultaattype : ResultaatCreate(z, rt)
    BY <1>1, <2>1
  <2>2. CASE \E z \in Zaken : ResultaatDelete(z)
    BY <1>2, <2>2
  <2>3. CASE \E z \in Zaken : KenmerkStap(z)
    BY <1>3, <2>3
  <2>4. CASE \/ \E d \in Docs : DocumentChange(d)
             \/ \E z \in Zaken, d \in Docs : Relate(z, d)
    BY <1>4, <2>4
  <2>5. \/ \E z \in Zaken, rt \in Resultaattype : ResultaatCreate(z, rt)
        \/ \E z, x \in Zaken : ResultaatUpdate(z, x)
        \/ \E z \in Zaken : ResultaatDelete(z)
        \/ \E z \in Zaken : KenmerkStap(z)
        \/ \E d \in Docs : DocumentChange(d)
        \/ \E z \in Zaken, d \in Docs : Relate(z, d)
        \/ UNCHANGED <<zaak, statussen, resultaat, kenmerk, docs, zios, req>>
    BY DEF Elders
  <2>6. QED
    BY <1>5, <1>8, <2>1, <2>2, <2>3, <2>4, <2>5
<1>7. QED
  BY <1>6 DEF Goal

\* Every step is one of these.
LEMMA Steps ==
  ASSUME [Next]_vars
  PROVE  \/ \E r \in Requests :
              \/ \E z \in Zaken, datum \in Datum, nacht \in Nachten, eind \in BOOLEAN :
                   StatusRead(r, z, datum, nacht, eind)
              \/ StatusWrite(r)
              \/ \E z \in Zaken : \E row \in Patched(z) : PatchRead(r, z, row)
              \/ PatchCheck(r)
              \/ PatchWrite(r)
              \/ \E z \in Zaken : \E row \in Patched(z) : SamenRead(r, z, row)
              \/ \E rt \in Resultaattype \cup {None}, datum \in Datum, nacht \in Nachten,
                    eind \in BOOLEAN : SamenSave(r, rt, datum, nacht, eind)
              \/ SamenWrite(r)
              \/ SamenFails(r)
         \/ Elders
BY DEF Next, Elders, KenmerkStap, vars

LEMMA InitType == Init => TypeOK
<1> SUFFICES ASSUME Init PROVE TypeOK
  OBVIOUS
<1>1. zaak \in [Zaken -> Row]
  <2> DEFINE Nieuw == {[hoofdzaak |-> h, einddatum |-> 0, nominatie |-> None, startdatum |-> 0,
                        actiedatum |-> 0, gearchiveerd |-> FALSE] : h \in Hoofdzaken \cup {None}}
  <2>1. zaak \in [Zaken -> Nieuw]
    BY DEF Init
  <2>2. \A h \in Hoofdzaken \cup {None} : h \in Zaken \cup {None}
    BY AfhandelingAssumption
  <2>3. ASSUME NEW h \in Zaken \cup {None}
        PROVE  [hoofdzaak |-> h, einddatum |-> 0, nominatie |-> None, startdatum |-> 0,
                actiedatum |-> 0, gearchiveerd |-> FALSE] \in Row
    BY DEF Row
  <2>4. Nieuw \subseteq Row
    BY <2>2, <2>3
  <2> HIDE DEF Nieuw
  <2>5. QED
    BY <2>1, <2>4
<1>2. docs \in [Docs -> DocRow] /\ req \in [Requests -> Verzoek]
  BY DEF Init, DocRow, Verzoek, Idle
<1>3. /\ statussen \in [Zaken -> SUBSET StatusRow]
      /\ resultaat \in [Zaken -> Resultaattype \cup {None}]
      /\ zios \in [Zaken -> SUBSET Docs]
  BY DEF Init
<1>4. kenmerk \in [Zaken -> KenmerkRow]
  <2> DEFINE Leeg == {[eigenschap |-> 0, ingang |-> 0, verval |-> 0, object |-> Fout,
                       relevant |-> xs] : xs \in SUBSET Relevant}
  <2>1. kenmerk \in [Zaken -> Leeg]
    BY DEF Init
  <2>2. Leeg \subseteq KenmerkRow
    BY AfhandelingAssumption DEF KenmerkRow
  <2> HIDE DEF Leeg
  <2>3. QED
    BY <2>1, <2>2
<1>5. QED
  BY <1>1, <1>2, <1>3, <1>4 DEF TypeOK

LEMMA NextType == TypeOK /\ [Next]_vars => TypeOK'
<1> SUFFICES ASSUME TypeOK, [Next]_vars PROVE TypeOK'
  OBVIOUS
<1>1. ASSUME NEW r \in Requests, NEW z \in Zaken, NEW datum \in Datum, NEW nacht \in Nachten,
             NEW eind \in BOOLEAN, StatusRead(r, z, datum, nacht, eind)
      PROVE  TypeOK'
  BY <1>1, StatusReadType
<1>2. ASSUME NEW r \in Requests, StatusWrite(r) PROVE TypeOK'
  BY <1>2, StatusWriteType
<1>3. ASSUME NEW r \in Requests, NEW z \in Zaken, NEW row \in Patched(z),
             PatchRead(r, z, row) \/ SamenRead(r, z, row)
      PROVE  TypeOK'
  BY <1>3, PatchReadType
<1>4. ASSUME NEW r \in Requests, PatchCheck(r) PROVE TypeOK'
  BY <1>4, PatchCheckType
<1>5. ASSUME NEW r \in Requests, PatchWrite(r) PROVE TypeOK'
  BY <1>5, PatchWriteType
<1>6. CASE Elders
  BY <1>6, EldersType
<1>7. ASSUME NEW r \in Requests, NEW rt \in Resultaattype \cup {None}, NEW datum \in Datum,
             NEW nacht \in Nachten, NEW eind \in BOOLEAN, SamenSave(r, rt, datum, nacht, eind)
      PROVE  TypeOK'
  BY <1>7, SamenSaveType
<1>8. ASSUME NEW r \in Requests, SamenWrite(r) PROVE TypeOK'
  <2>1. req[r].zaak \in Zaken
    BY <1>8, VerzoekType DEF SamenWrite, TypeOK, ZetStatus
  <2>2. QED
    BY <1>8, <2>1, SamenWriteRows
<1>9. ASSUME NEW r \in Requests, SamenFails(r) PROVE TypeOK'
  BY <1>9 DEF SamenFails, TypeOK, Verzoek, Idle
<1>10. QED
  BY <1>1, <1>2, <1>3, <1>4, <1>5, <1>6, <1>7, <1>8, <1>9, Steps

\* The variables keep their types, in any interleaving of any operations.
THEOREM TypeCorrect == Spec => []TypeOK
BY InitType, NextType, PTL DEF Spec

-----------------------------------------------------------------------------
(* The einddatum of a zaak comes from an end status, although requests     *)
(* save rows that they read long ago: no status is ever deleted.           *)

FromStatus(z, datum) == datum # 0 => \E s \in statussen[z] : s.eind /\ s.datum = datum

EinddatumInv ==
  /\ \A z \in Zaken : FromStatus(z, zaak[z].einddatum)
  /\ \A r \in Requests : req[r].fase \in MetRij => FromStatus(req[r].zaak, req[r].rij.einddatum)

\* FromStatus survives as long as statuses do.
LEMMA FromStatusKept ==
  ASSUME NEW z \in Zaken, NEW datum, FromStatus(z, datum), statussen[z] \subseteq statussen'[z]
  PROVE  FromStatus(z, datum)'
BY DEF FromStatus

\* Requests that are done, or go on, hold what they held.
LEMMA EinddatumBlijft ==
  ASSUME TypeOK, EinddatumInv,
         \A z \in Zaken : statussen[z] \subseteq statussen'[z],
         \A z \in Zaken : FromStatus(z, zaak[z].einddatum)',
         \A q \in Requests : req'[q].fase \in MetRij =>
           /\ req[q].fase \in MetRij /\ req'[q].zaak = req[q].zaak
           /\ req'[q].rij.einddatum = req[q].rij.einddatum
  PROVE  EinddatumInv'
<1>1. ASSUME NEW q \in Requests, req'[q].fase \in MetRij
      PROVE  FromStatus(req[q].zaak, req[q].rij.einddatum)'
  <2>1. req[q].zaak \in Zaken /\ FromStatus(req[q].zaak, req[q].rij.einddatum)
    BY <1>1, VerzoekType DEF TypeOK, EinddatumInv
  <2>2. req'[q].zaak = req[q].zaak /\ req'[q].rij.einddatum = req[q].rij.einddatum
    BY <1>1
  <2>3. statussen[req[q].zaak] \subseteq statussen'[req[q].zaak]
    BY <2>1
  <2>4. FromStatus(req[q].zaak, req[q].rij.einddatum)' <=>
          (req[q].rij.einddatum # 0 =>
             \E s \in statussen'[req[q].zaak] : s.eind /\ s.datum = req[q].rij.einddatum)
    BY <2>2 DEF FromStatus
  <2>5. QED
    BY <2>1, <2>3, <2>4 DEF FromStatus
<1>2. QED
  BY <1>1 DEF EinddatumInv

\* A status that is stored gives its zaak a date.
LEMMA StatusFrom ==
  ASSUME TypeOK, EinddatumInv, NEW q \in Verzoek, q.fase \in ZetStatus,
         \A x \in Zaken :
           /\ zaak'[x].einddatum = IF x = q.zaak THEN Einddatum(q) ELSE zaak[x].einddatum
           /\ statussen'[x] = IF x = q.zaak
                                THEN statussen[x] \cup {[datum |-> q.datum, eind |-> q.eind]}
                                ELSE statussen[x]
  PROVE  /\ \A z \in Zaken : statussen[z] \subseteq statussen'[z]
         /\ \A z \in Zaken : FromStatus(z, zaak[z].einddatum)'
<1> DEFINE s == [datum |-> q.datum, eind |-> q.eind]
<1>1. \A z \in Zaken : statussen[z] \subseteq statussen'[z]
  OBVIOUS
<1>2. ASSUME NEW z \in Zaken PROVE FromStatus(z, zaak[z].einddatum)'
  <2>1. CASE z # q.zaak
    <3>1. zaak'[z].einddatum = zaak[z].einddatum /\ statussen'[z] = statussen[z]
      BY <2>1
    <3>2. FromStatus(z, zaak[z].einddatum)
      BY DEF EinddatumInv
    <3>3. QED
      BY <3>1, <3>2 DEF FromStatus
  <2>2. CASE z = q.zaak
    <3>1. zaak'[z].einddatum = Einddatum(q) /\ s \in statussen'[z]
      BY <2>2
    <3>2. s.eind = q.eind /\ s.datum = q.datum
      OBVIOUS
    <3> HIDE DEF s
    <3>3. QED
      BY <3>1, <3>2 DEF FromStatus, Einddatum
  <2>3. QED
    BY <2>1, <2>2
<1>3. QED
  BY <1>1, <1>2

LEMMA NextEinddatum == TypeOK /\ EinddatumInv /\ [Next]_vars => EinddatumInv'
<1> SUFFICES ASSUME TypeOK, EinddatumInv, [Next]_vars PROVE EinddatumInv'
  OBVIOUS
<1>1. ASSUME NEW r \in Requests, NEW z \in Zaken, NEW datum \in Datum, NEW nacht \in Nachten,
             NEW eind \in BOOLEAN, StatusRead(r, z, datum, nacht, eind)
      PROVE  EinddatumInv'
  <2>1. MetStatus("status", z, zaak[z], resultaat[z], datum, nacht, eind).fase = "status"
    BY DEF MetStatus
  <2>2. QED
    BY <1>1, <2>1 DEF StatusRead, EinddatumInv, FromStatus, TypeOK, MetRij
<1>2. ASSUME NEW r \in Requests, StatusWrite(r) PROVE EinddatumInv'
  <2>1. req[r] \in Verzoek /\ req[r].fase \in ZetStatus /\ req[r].zaak \in Zaken
    BY <1>2, VerzoekType DEF StatusWrite, TypeOK, ZetStatus
  <2>2. ASSUME NEW q \in Requests, req'[q].fase \in MetRij PROVE req'[q] = req[q]
    BY <1>2, <2>2 DEF StatusWrite, TypeOK, Idle, MetRij
  <2>3. CASE Taken(req[r])
    BY <1>2, <2>2, <2>3, EinddatumBlijft DEF StatusWrite, EinddatumInv, FromStatus
  <2>4. CASE ~Taken(req[r])
    <3>1. StoreStatus(req[r], zaak[req[r].zaak]) /\ zaak[req[r].zaak] \in Row
      BY <1>2, <2>1, <2>4 DEF StatusWrite, TypeOK
    <3>2. /\ \A z \in Zaken : statussen[z] \subseteq statussen'[z]
          /\ \A z \in Zaken : FromStatus(z, zaak[z].einddatum)'
      BY <2>1, <3>1, StoreRows, StatusFrom
    <3>3. QED
      BY <2>2, <3>2, EinddatumBlijft
  <2>5. QED
    BY <2>3, <2>4
<1>3. ASSUME NEW r \in Requests, NEW z \in Zaken, NEW row \in Patched(z),
             PatchRead(r, z, row) \/ SamenRead(r, z, row)
      PROVE  EinddatumInv'
  <2>1. row.einddatum = zaak[z].einddatum
    BY PatchedType
  <2>2. QED
    BY <1>3, <2>1 DEF PatchRead, SamenRead, EinddatumInv, FromStatus, TypeOK
<1>4. ASSUME NEW r \in Requests, PatchCheck(r) PROVE EinddatumInv'
  <2>1. ASSUME NEW q \in Requests, req'[q].fase \in MetRij
        PROVE  /\ req[q].fase \in MetRij
               /\ req'[q].zaak = req[q].zaak /\ req'[q].rij = req[q].rij
    <3>1. CASE q = r
      <4>1. req[r] \in [fase : {"zaak", "zaak_save", "samen"}, zaak : Zaken, rij : Row]
        BY <1>4 DEF TypeOK, PatchCheck, Verzoek, Idle
      <4>2. req'[r] \in {Idle, [req[r] EXCEPT !.fase = "zaak_save"]}
        BY <1>4 DEF TypeOK, PatchCheck
      <4>3. QED
        BY <2>1, <3>1, <4>1, <4>2 DEF Idle, MetRij
    <3>2. CASE q # r
      BY <1>4, <2>1, <3>2 DEF TypeOK, PatchCheck
    <3>3. QED
      BY <3>1, <3>2
  <2>2. QED
    BY <1>4, <2>1 DEF PatchCheck, EinddatumInv, FromStatus
<1>5. ASSUME NEW r \in Requests, PatchWrite(r) PROVE EinddatumInv'
  <2>1. req[r].fase = "zaak_save" /\ req[r].zaak \in Zaken
    BY <1>5 DEF TypeOK, Verzoek, PatchWrite
  <2>2. ASSUME NEW z \in Zaken PROVE FromStatus(z, zaak[z].einddatum)'
    <3>1. zaak'[z].einddatum = IF z = req[r].zaak THEN req[r].rij.einddatum ELSE zaak[z].einddatum
      BY <1>5, PatchWriteRows
    <3>2. QED
      BY <1>5, <2>1, <3>1 DEF PatchWrite, EinddatumInv, FromStatus, MetRij
  <2>3. ASSUME NEW q \in Requests, req'[q].fase \in MetRij PROVE req'[q] = req[q]
    BY <1>5, <2>3 DEF PatchWrite, TypeOK, Idle, MetRij
  <2>4. statussen' = statussen
    BY <1>5 DEF PatchWrite
  <2>5. QED
    BY <2>2, <2>3, <2>4 DEF EinddatumInv, FromStatus
<1>6. CASE Elders
  BY <1>6, EldersType DEF EinddatumInv, FromStatus
<1>7. ASSUME NEW r \in Requests, NEW rt \in Resultaattype \cup {None}, NEW datum \in Datum,
             NEW nacht \in Nachten, NEW eind \in BOOLEAN, SamenSave(r, rt, datum, nacht, eind)
      PROVE  EinddatumInv'
  <2>1. PICK q \in Verzoek : /\ req' = [req EXCEPT ![r] = q] /\ q.zaak = req[r].zaak
                             /\ q.rij.einddatum = req[r].rij.einddatum
    BY <1>7, SamenSaveType
  <2>2. req[r].fase \in MetRij /\ UNCHANGED <<zaak, statussen>>
    BY <1>7 DEF SamenSave, MetRij
  <2>3. QED
    BY <2>1, <2>2, EinddatumBlijft DEF TypeOK, EinddatumInv, FromStatus
<1>8. ASSUME NEW r \in Requests, SamenWrite(r) PROVE EinddatumInv'
  <2>1. req[r] \in Verzoek /\ req[r].fase \in ZetStatus
    BY <1>8 DEF SamenWrite, TypeOK, ZetStatus
  <2>2. ASSUME NEW q \in Requests, req'[q].fase \in MetRij PROVE req'[q] = req[q]
    BY <1>8, <2>2 DEF SamenWrite, TypeOK, Idle, MetRij
  <2>3. /\ \A z \in Zaken : statussen[z] \subseteq statussen'[z]
        /\ \A z \in Zaken : FromStatus(z, zaak[z].einddatum)'
    BY <1>8, <2>1, SamenWriteRows, StatusFrom
  <2>4. QED
    BY <2>2, <2>3, EinddatumBlijft
<1>9. ASSUME NEW r \in Requests, SamenFails(r) PROVE EinddatumInv'
  <2>1. ASSUME NEW q \in Requests, req'[q].fase \in MetRij PROVE req'[q] = req[q]
    BY <1>9, <2>1 DEF SamenFails, TypeOK, Idle, MetRij
  <2>2. QED
    BY <1>9, <2>1, EinddatumBlijft DEF SamenFails, EinddatumInv, FromStatus
<1>10. QED
  BY <1>1, <1>2, <1>3, <1>4, <1>5, <1>6, <1>7, <1>8, <1>9, Steps

\* Whatever interleaves, a closed zaak carries the date of one of its end
\* statuses: stale rows may close or reopen it, but never invent a date.
THEOREM EinddatumOfEindstatus == Spec => []EinddatumFromStatus
<1>1. Init => EinddatumInv
  BY DEF Init, EinddatumInv, FromStatus, Idle, MetRij
<1>2. EinddatumInv => EinddatumFromStatus
  BY DEF EinddatumInv, FromStatus, EinddatumFromStatus, IsClosed
<1>3. QED
  BY <1>1, <1>2, NextEinddatum, TypeCorrect, PTL DEF Spec

-----------------------------------------------------------------------------
(* One request at a time, and statuses in the order of their dates: then    *)
(* the two ideas of closed agree.                                          *)

Latest(S) == CHOOSE s \in S : \A t \in S : t.datum <= s.datum

\* A status later than all others becomes the current one.
LEMMA LatestOfMore ==
  ASSUME NEW S \in SUBSET StatusRow, NEW s \in StatusRow, \A t \in S : t.datum < s.datum
  PROVE  Latest(S \cup {s}) = s
<1>1. \A t \in S \cup {s} : t.datum \in Int
  BY DEF StatusRow, Datum
<1>2. \A t \in S \cup {s} : t.datum <= s.datum
  BY <1>1
<1>3. ASSUME NEW u \in S \cup {s}, \A t \in S \cup {s} : t.datum <= u.datum PROVE u = s
  BY <1>1, <1>3
<1>4. QED
  BY <1>2, <1>3 DEF Latest

OneAtATime ==
  /\ \A r, q \in Requests : req[r] # Idle /\ req[q] # Idle => r = q
  /\ \A r \in Requests :
       /\ req[r].fase \in ZetStatus => \A s \in statussen[req[r].zaak] : s.datum < req[r].datum
       /\ req[r].fase \in MetRij => req[r].rij.einddatum = zaak[req[r].zaak].einddatum

\* Idle requests promise nothing.
LEMMA NotIdle == \A q : q.fase \in ZetStatus \cup MetRij => q # Idle
BY DEF Idle, ZetStatus, MetRij

\* A request that starts is the only one.
LEMMA StartsAlone ==
  ASSUME ~Gelijktijdig, NEW r \in Requests, NEW q, MayStart, req' = [req EXCEPT ![r] = q], TypeOK
  PROVE  \A x \in Requests : x # r => req'[x] = Idle
BY DEF MayStart, TypeOK

\* After a request stored something, no request is under way.
LEMMA EndsAlone ==
  ASSUME OneAtATime, TypeOK, NEW r \in Requests, req[r] # Idle, req' = [req EXCEPT ![r] = Idle]
  PROVE  \A x \in Requests : req'[x] = Idle
BY DEF OneAtATime, TypeOK

\* A status later than those before, that is stored, decides whether its zaak is closed.
LEMMA StoredCloses ==
  ASSUME TypeOK, EindstatusCloses, NEW q \in Verzoek, q.fase \in ZetStatus,
         \A t \in statussen[q.zaak] : t.datum < q.datum,
         \A x \in Zaken :
           /\ zaak'[x].einddatum = IF x = q.zaak THEN Einddatum(q) ELSE zaak[x].einddatum
           /\ statussen'[x] = IF x = q.zaak
                                THEN statussen[x] \cup {[datum |-> q.datum, eind |-> q.eind]}
                                ELSE statussen[x]
  PROVE  EindstatusCloses'
<1> DEFINE s == [datum |-> q.datum, eind |-> q.eind]
<1>1. q.zaak \in Zaken /\ q.datum \in Datum /\ q.eind \in BOOLEAN /\ s \in StatusRow
  BY VerzoekType DEF StatusRow
<1>2. ASSUME NEW z \in Zaken PROVE (IsClosed(z) <=> AtEindstatus(z))'
  <2>1. CASE z = q.zaak
    <3>1. Latest(statussen[z] \cup {s}) = s
      <4>1. \A t \in statussen[z] : t.datum < s.datum
        BY <2>1
      <4>2. statussen[z] \in SUBSET StatusRow
        BY DEF TypeOK
      <4> HIDE DEF s
      <4>3. QED
        BY <1>1, <4>1, <4>2, LatestOfMore
    <3>2. statussen'[z] = statussen[z] \cup {s}
      BY <2>1
    <3>3. AtEindstatus(z)' <=> s.eind
      <4>1. AtEindstatus(z)' <=> statussen'[z] # {} /\ Latest(statussen'[z]).eind
        BY DEF AtEindstatus, CurrentStatus, Latest
      <4> HIDE DEF s
      <4>2. QED
        BY <3>1, <3>2, <4>1
    <3>4. IsClosed(z)' <=> q.eind
      <4>1. zaak'[z].einddatum = Einddatum(q)
        BY <2>1
      <4>2. QED
        BY <1>1, <4>1 DEF IsClosed, Einddatum, Datum
    <3>5. s.eind = q.eind
      OBVIOUS
    <3> HIDE DEF s
    <3>6. QED
      BY <3>3, <3>4, <3>5
  <2>2. CASE z # q.zaak
    <3>1. statussen'[z] = statussen[z]
      BY <2>2
    <3>2. IsClosed(z)' <=> IsClosed(z)
      BY <2>2 DEF IsClosed
    <3>3. /\ AtEindstatus(z)' <=> statussen'[z] # {} /\ Latest(statussen'[z]).eind
          /\ AtEindstatus(z) <=> statussen[z] # {} /\ Latest(statussen[z]).eind
      BY DEF AtEindstatus, CurrentStatus, Latest
    <3>4. QED
      BY <3>1, <3>2, <3>3 DEF EindstatusCloses
  <2>3. QED
    BY <2>1, <2>2
<1>3. QED
  BY <1>2 DEF EindstatusCloses

LEMMA SerialStep ==
  ASSUME ~Gelijktijdig, Chronologisch, TypeOK, OneAtATime, EindstatusCloses, [Next]_vars
  PROVE  OneAtATime' /\ EindstatusCloses'
<1> DEFINE Goal == OneAtATime' /\ EindstatusCloses'
<1> USE NotIdle
<1>1. ASSUME NEW r \in Requests, NEW z \in Zaken, NEW datum \in Datum, NEW nacht \in Nachten,
             NEW eind \in BOOLEAN, StatusRead(r, z, datum, nacht, eind)
      PROVE  Goal
  <2> DEFINE q == MetStatus("status", z, zaak[z], resultaat[z], datum, nacht, eind)
  <2>1. req' = [req EXCEPT ![r] = q] /\ q.fase = "status" /\ q.zaak = z /\ q.datum = datum
    BY <1>1 DEF StatusRead, MetStatus
  <2> HIDE DEF q
  <2>2. UNCHANGED <<zaak, statussen>> /\ MayStart /\ req'[r] = q
    BY <1>1, <2>1 DEF StatusRead, TypeOK
  <2>3. \A x \in Requests : x # r => req'[x] = Idle
    BY <2>1, <2>2, StartsAlone
  <2>4. \A s \in statussen[z] : s.datum < datum
    BY <1>1 DEF StatusRead, StatusReady
  <2>5. OneAtATime'
    BY <2>1, <2>2, <2>3, <2>4 DEF OneAtATime, ZetStatus, MetRij
  <2>6. EindstatusCloses'
    BY <2>2 DEF EindstatusCloses, IsClosed, AtEindstatus, CurrentStatus
  <2>7. QED
    BY <2>5, <2>6
<1>2. ASSUME NEW r \in Requests, StatusWrite(r) PROVE Goal
  <2> DEFINE q == req[r]
  <2>1. q \in Verzoek /\ q.fase \in ZetStatus /\ q # Idle /\ q.zaak \in Zaken
    BY <1>2, VerzoekType DEF StatusWrite, TypeOK, ZetStatus
  <2>2. \A x \in Requests : req'[x] = Idle
    BY <1>2, <2>1, EndsAlone DEF StatusWrite
  <2>3. OneAtATime'
    BY <2>2 DEF OneAtATime, ZetStatus, MetRij, Idle
  <2>4. CASE Taken(q)
    <3>1. UNCHANGED <<zaak, statussen>>
      BY <1>2, <2>4 DEF StatusWrite
    <3>2. EindstatusCloses'
      BY <3>1 DEF EindstatusCloses, IsClosed, AtEindstatus, CurrentStatus
    <3>3. QED
      BY <2>3, <3>2
  <2>5. CASE ~Taken(q)
    <3>1. StoreStatus(q, zaak[q.zaak]) /\ zaak[q.zaak] \in Row
      BY <1>2, <2>1, <2>5 DEF StatusWrite, TypeOK
    <3>2. \A x \in Zaken :
            /\ zaak'[x].einddatum = IF x = q.zaak THEN Einddatum(q) ELSE zaak[x].einddatum
            /\ statussen'[x] = IF x = q.zaak
                                 THEN statussen[x] \cup {[datum |-> q.datum, eind |-> q.eind]}
                                 ELSE statussen[x]
      BY <2>1, <3>1, StoreRows
    <3>3. \A t \in statussen[q.zaak] : t.datum < q.datum
      BY <2>1 DEF OneAtATime
    <3> HIDE DEF q
    <3>4. QED
      BY <2>1, <2>3, <3>2, <3>3, StoredCloses
  <2>6. QED
    BY <2>4, <2>5
<1>3. ASSUME NEW r \in Requests, NEW z \in Zaken, NEW row \in Patched(z),
             PatchRead(r, z, row) \/ SamenRead(r, z, row)
      PROVE  Goal
  <2>1. PICK fase \in {"zaak", "samen"} :
          req' = [req EXCEPT ![r] = [fase |-> fase, zaak |-> z, rij |-> row]]
    BY <1>3 DEF PatchRead, SamenRead
  <2> DEFINE q == [fase |-> fase, zaak |-> z, rij |-> row]
  <2>9. q.fase \in {"zaak", "samen"} /\ q.zaak = z /\ q.rij = row
    OBVIOUS
  <2> HIDE DEF q
  <2>2. UNCHANGED <<zaak, statussen>> /\ MayStart /\ req'[r] = q
    BY <1>3, <2>1 DEF PatchRead, SamenRead, TypeOK, q
  <2>3. \A x \in Requests : x # r => req'[x] = Idle
    BY <2>1, <2>2, StartsAlone
  <2>4. row.einddatum = zaak[z].einddatum
    BY PatchedType
  <2>5. OneAtATime'
    BY <2>9, <2>2, <2>3, <2>4 DEF OneAtATime, ZetStatus, MetRij, Idle
  <2>6. EindstatusCloses'
    BY <2>2 DEF EindstatusCloses, IsClosed, AtEindstatus, CurrentStatus
  <2>7. QED
    BY <2>5, <2>6
<1>4. ASSUME NEW r \in Requests, PatchCheck(r) PROVE Goal
  <2>1. /\ req[r] \in [fase : {"zaak", "zaak_save", "samen"}, zaak : Zaken, rij : Row]
        /\ req[r].fase = "zaak" /\ UNCHANGED <<zaak, statussen>>
    BY <1>4 DEF TypeOK, PatchCheck, Verzoek, Idle
  <2>2. /\ req'[r] \in {Idle, [req[r] EXCEPT !.fase = "zaak_save"]}
        /\ \A x \in Requests : x # r => req'[x] = req[x]
    BY <1>4 DEF TypeOK, PatchCheck
  <2>3. \A x \in Requests : x # r => req'[x] = Idle
    BY <2>1, <2>2 DEF OneAtATime, MetRij
  <2>4. req'[r] # Idle => /\ req'[r].fase = "zaak_save" /\ req'[r].zaak = req[r].zaak
                          /\ req'[r].rij = req[r].rij
    BY <2>1, <2>2
  <2>5. OneAtATime'
    BY <2>1, <2>3, <2>4 DEF OneAtATime, ZetStatus, MetRij, Idle
  <2>6. EindstatusCloses'
    BY <2>1 DEF EindstatusCloses, IsClosed, AtEindstatus, CurrentStatus
  <2>7. QED
    BY <2>5, <2>6
<1>5. ASSUME NEW r \in Requests, PatchWrite(r) PROVE Goal
  <2>1. req[r].fase = "zaak_save" /\ req[r] # Idle /\ req[r].zaak \in Zaken
    BY <1>5 DEF TypeOK, Verzoek, PatchWrite, MetRij
  <2>2. \A x \in Requests : req'[x] = Idle
    BY <1>5, <2>1, EndsAlone DEF PatchWrite
  <2>3. statussen' = statussen
    BY <1>5 DEF PatchWrite
  <2>4. \A x \in Zaken : zaak'[x].einddatum = zaak[x].einddatum
    BY <1>5, <2>1, PatchWriteRows DEF OneAtATime, MetRij
  <2>5. OneAtATime'
    BY <2>2 DEF OneAtATime, ZetStatus, MetRij, Idle
  <2>6. EindstatusCloses'
    BY <2>3, <2>4 DEF EindstatusCloses, IsClosed, AtEindstatus, CurrentStatus
  <2>7. QED
    BY <2>5, <2>6
<1>6. ASSUME Elders PROVE Goal
  <2>1. /\ statussen' = statussen /\ req' = req
        /\ \A x \in Zaken : zaak'[x].einddatum = zaak[x].einddatum
    BY <1>6, EldersType
  <2>2. \A r \in Requests : req[r].fase \in MetRij => req[r].zaak \in Zaken
    BY VerzoekType DEF TypeOK
  <2>3. OneAtATime'
    BY <2>1, <2>2 DEF OneAtATime
  <2>4. EindstatusCloses'
    BY <2>1 DEF EindstatusCloses, IsClosed, AtEindstatus, CurrentStatus
  <2>5. QED
    BY <2>3, <2>4
<1>7. ASSUME NEW r \in Requests, NEW rt \in Resultaattype \cup {None}, NEW datum \in Datum,
             NEW nacht \in Nachten, NEW eind \in BOOLEAN, SamenSave(r, rt, datum, nacht, eind)
      PROVE  Goal
  <2>1. PICK q \in Verzoek :
          /\ req' = [req EXCEPT ![r] = q]
          /\ q.fase = "samen_save" /\ q.zaak = req[r].zaak /\ q.datum = datum
          /\ q.rij.einddatum = req[r].rij.einddatum
          /\ StatusReady(q.zaak, q.rij, q.rt, datum, nacht, eind)
    BY <1>7, SamenSaveType
  <2>2. req[r].fase \in MetRij /\ req[r] # Idle /\ UNCHANGED <<zaak, statussen>>
    BY <1>7 DEF SamenSave, MetRij
  <2>3. req'[r] = q /\ \A x \in Requests : x # r => req'[x] = Idle
    BY <2>1, <2>2 DEF OneAtATime, TypeOK
  <2>4. \A s \in statussen[q.zaak] : s.datum < q.datum
    BY <2>1 DEF StatusReady
  <2>5. q.rij.einddatum = zaak[q.zaak].einddatum
    BY <2>1, <2>2 DEF OneAtATime
  <2>6. OneAtATime'
    BY <2>2, <2>3, <2>4, <2>5 DEF OneAtATime, ZetStatus, MetRij, Idle
  <2>7. EindstatusCloses'
    BY <2>2 DEF EindstatusCloses, IsClosed, AtEindstatus, CurrentStatus
  <2>8. QED
    BY <2>6, <2>7
<1>8. ASSUME NEW r \in Requests, SamenWrite(r) PROVE Goal
  <2>1. req[r] \in Verzoek /\ req[r].fase \in ZetStatus /\ req[r] # Idle
    BY <1>8 DEF SamenWrite, TypeOK, ZetStatus
  <2>2. \A x \in Requests : req'[x] = Idle
    BY <1>8, <2>1, EndsAlone DEF SamenWrite
  <2>3. OneAtATime'
    BY <2>2 DEF OneAtATime, ZetStatus, MetRij, Idle
  <2>4. \A t \in statussen[req[r].zaak] : t.datum < req[r].datum
    BY <2>1 DEF OneAtATime
  <2>5. EindstatusCloses'
    BY <1>8, <2>1, <2>4, SamenWriteRows, StoredCloses
  <2>6. QED
    BY <2>3, <2>5
<1>9. ASSUME NEW r \in Requests, SamenFails(r) PROVE Goal
  <2>1. req[r] # Idle /\ UNCHANGED <<zaak, statussen>>
    BY <1>9 DEF SamenFails, ZetStatus, MetRij
  <2>2. \A x \in Requests : req'[x] = Idle
    BY <1>9, <2>1, EndsAlone DEF SamenFails
  <2>3. OneAtATime'
    BY <2>2 DEF OneAtATime, ZetStatus, MetRij, Idle
  <2>4. EindstatusCloses'
    BY <2>1 DEF EindstatusCloses, IsClosed, AtEindstatus, CurrentStatus
  <2>5. QED
    BY <2>3, <2>4
<1> HIDE DEF Goal
<1>10. Goal
  BY <1>1, <1>2, <1>3, <1>4, <1>5, <1>6, <1>7, <1>8, <1>9, Steps
<1>11. QED
  BY <1>10 DEF Goal

\* Without concurrency, and with statuses in order, a zaak is closed exactly when
\* its current status is an end status.
THEOREM ClosedByEindstatus ==
  ASSUME ~Gelijktijdig, Chronologisch
  PROVE  Spec => []EindstatusCloses
<1>1. Init => OneAtATime /\ EindstatusCloses
  BY DEF Init, OneAtATime, EindstatusCloses, Idle, IsClosed, AtEindstatus, ZetStatus, MetRij
<1>2. TypeOK /\ OneAtATime /\ EindstatusCloses /\ [Next]_vars => OneAtATime' /\ EindstatusCloses'
  BY SerialStep
<1>3. QED
  BY <1>1, <1>2, TypeCorrect, PTL DEF Spec

-----------------------------------------------------------------------------
(* Hoofdzaken and deelzaken.  What a status request found stays true until *)
(* it stores the status.                                                   *)

FoundFor(q) ==
  /\ q.eind => \A x \in Deelzaken(q.zaak) : IsClosed(x)
  /\ ~q.eind /\ zaak[q.zaak].hoofdzaak # None => ~IsClosed(zaak[q.zaak].hoofdzaak)

Found ==
  \A r \in Requests :
    /\ req[r].fase \in ZetStatus => FoundFor(req[r])
    /\ req[r].fase \in MetRij => req[r].rij.hoofdzaak = zaak[req[r].zaak].hoofdzaak

\* Nothing changes for deelzaken when no zaak is closed, reopened or moved.
LEMMA FamilyKept ==
  ASSUME TypeOK,
         \A x \in Zaken : zaak'[x].einddatum = zaak[x].einddatum
                          /\ zaak'[x].hoofdzaak = zaak[x].hoofdzaak
  PROVE  /\ DeelzakenClosed => DeelzakenClosed'
         /\ \A z \in Zaken : Deelzaken(z)' = Deelzaken(z) /\ IsClosed(z)' = IsClosed(z)
BY DEF DeelzakenClosed, Deelzaken, IsClosed

LEMMA FoundKept ==
  ASSUME TypeOK, Found, NEW x \in Requests, req'[x] = req[x],
         \A z \in Zaken : zaak'[z].einddatum = zaak[z].einddatum
                          /\ zaak'[z].hoofdzaak = zaak[z].hoofdzaak
  PROVE  /\ req'[x].fase \in ZetStatus => FoundFor(req[x])'
         /\ req'[x].fase \in MetRij => req'[x].rij.hoofdzaak = zaak'[req'[x].zaak].hoofdzaak
<1>1. req[x].fase \in ZetStatus \/ req[x].fase \in MetRij => req[x].zaak \in Zaken
  BY VerzoekType DEF TypeOK
<1>2. \A z \in Zaken : zaak[z].hoofdzaak \in Zaken \cup {None}
  BY DEF TypeOK, Row
<1>3. req'[x].fase \in MetRij => req'[x].rij.hoofdzaak = zaak'[req'[x].zaak].hoofdzaak
  BY <1>1 DEF Found
<1>4. ASSUME req[x].fase \in ZetStatus PROVE FoundFor(req[x])'
  <2>1. FoundFor(req[x]) /\ req[x].zaak \in Zaken
    BY <1>1, <1>4 DEF Found
  <2>2. QED
    BY <1>2, <2>1 DEF FoundFor, Deelzaken, IsClosed
<1>5. QED
  BY <1>3, <1>4

\* The validators of a status find what it depends on.
LEMMA ReadyFound ==
  ASSUME TypeOK, EindstatusCloses, NEW q, NEW z \in Zaken, NEW row, NEW rt, NEW datum, NEW nacht,
         NEW eind, StatusReady(z, row, rt, datum, nacht, eind),
         q.zaak = z, q.eind = eind, row.hoofdzaak = zaak[z].hoofdzaak
  PROVE  FoundFor(q)
<1>1. zaak[z].hoofdzaak \in Zaken \cup {None}
  BY DEF TypeOK, Row
<1>2. eind => \A x \in Deelzaken(z) : IsClosed(x)
  BY DEF StatusReady, DeelzakenReady, EindstatusCloses, Deelzaken
<1>3. ~eind /\ zaak[z].hoofdzaak # None => ~IsClosed(zaak[z].hoofdzaak)
  BY <1>1 DEF StatusReady, HoofdzaakReady, EindstatusCloses
<1>4. QED
  BY <1>2, <1>3 DEF FoundFor

\* What the only request found is what was found.
LEMMA FoundAlone ==
  ASSUME TypeOK, NEW r \in Requests, NEW q, UNCHANGED zaak, req'[r] = q,
         \A x \in Requests : x # r => req'[x] = Idle,
         FoundFor(q), q.rij.hoofdzaak = zaak[q.zaak].hoofdzaak
  PROVE  Found'
<1>1. FoundFor(q)' <=> FoundFor(q)
  BY DEF FoundFor, Deelzaken, IsClosed
<1>2. \A x \in Requests : x # r => req'[x].fase \notin ZetStatus \cup MetRij
  BY DEF Idle, ZetStatus, MetRij
<1>3. ASSUME NEW x \in Requests
      PROVE  /\ req'[x].fase \in ZetStatus => FoundFor(req[x])'
             /\ req'[x].fase \in MetRij => req'[x].rij.hoofdzaak = zaak'[req'[x].zaak].hoofdzaak
  <2>1. CASE x = r
    <3>1. FoundFor(req[x])' <=> FoundFor(q)'
      BY <2>1 DEF FoundFor, Deelzaken, IsClosed
    <3>2. QED
      BY <1>1, <2>1, <3>1
  <2>2. CASE x # r
    BY <1>2, <2>2
  <2>3. QED
    BY <2>1, <2>2
<1>4. QED
  BY <1>3 DEF Found

\* A status that is stored keeps deelzaken of closed zaken closed.
LEMMA StoredFamily ==
  ASSUME TypeOK, Found, DeelzakenClosed, NEW r \in Requests, req[r].fase \in ZetStatus,
         \A x \in Zaken :
           /\ zaak'[x].hoofdzaak = zaak[x].hoofdzaak
           /\ zaak'[x].einddatum = IF x = req[r].zaak THEN Einddatum(req[r]) ELSE zaak[x].einddatum
  PROVE  DeelzakenClosed'
<1> DEFINE q == req[r]
<1>1. FoundFor(q) /\ q.zaak \in Zaken /\ q.datum \in Datum /\ q.eind \in BOOLEAN
  BY VerzoekType DEF Found, TypeOK
<1>2. \A x \in Zaken : IsClosed(x)' <=> IF x = q.zaak THEN q.eind ELSE IsClosed(x)
  BY <1>1 DEF Einddatum, Datum, IsClosed
<1>3. ASSUME NEW z \in Zaken, IsClosed(z)', NEW x \in Zaken, zaak'[x].hoofdzaak = z
      PROVE  IsClosed(x)'
  <2>1. zaak[x].hoofdzaak = z /\ z # None
    BY <1>3, AfhandelingAssumption
  <2> HIDE DEF q
  <2>2. CASE z = q.zaak
    BY <1>1, <1>2, <1>3, <2>1, <2>2 DEF FoundFor, Deelzaken
  <2>3. CASE z # q.zaak /\ x = q.zaak
    BY <1>1, <1>2, <1>3, <2>1, <2>3 DEF FoundFor
  <2>4. CASE z # q.zaak /\ x # q.zaak
    BY <1>2, <1>3, <2>1, <2>4 DEF DeelzakenClosed, Deelzaken
  <2>5. QED
    BY <2>2, <2>3, <2>4
<1>4. QED
  BY <1>3 DEF DeelzakenClosed, Deelzaken

LEMMA FamilyStep ==
  ASSUME ~Gelijktijdig, Chronologisch, "hoofdzaak" \notin Ops,
         TypeOK, OneAtATime, EindstatusCloses, Found, DeelzakenClosed, [Next]_vars
  PROVE  Found' /\ DeelzakenClosed'
<1> DEFINE Goal == Found' /\ DeelzakenClosed'
<1> USE NotIdle
<1>0. \A z \in Zaken : zaak[z].hoofdzaak \in Zaken \cup {None}
  BY DEF TypeOK, Row
<1>1. ASSUME NEW r \in Requests, NEW z \in Zaken, NEW datum \in Datum, NEW nacht \in Nachten,
             NEW eind \in BOOLEAN, StatusRead(r, z, datum, nacht, eind)
      PROVE  Goal
  <2> DEFINE q == MetStatus("status", z, zaak[z], resultaat[z], datum, nacht, eind)
  <2>1. req' = [req EXCEPT ![r] = q] /\ q.fase = "status" /\ q.zaak = z /\ q.eind = eind
    BY <1>1 DEF StatusRead, MetStatus
  <2> HIDE DEF q
  <2>2. UNCHANGED <<zaak, statussen>> /\ MayStart /\ req'[r] = q
    BY <1>1, <2>1 DEF StatusRead, TypeOK
  <2>3. \A x \in Requests : x # r => req'[x] = Idle
    BY <2>1, <2>2, StartsAlone
  <2>4. FoundFor(q)
    BY <1>1, <2>1, ReadyFound DEF StatusRead
  <2>5. q.rij.hoofdzaak = zaak[q.zaak].hoofdzaak
    BY DEF q, MetStatus
  <2>6. Found'
    BY <2>2, <2>3, <2>4, <2>5, FoundAlone
  <2>7. DeelzakenClosed'
    BY <2>2, FamilyKept
  <2>8. QED
    BY <2>6, <2>7
<1>2. ASSUME NEW r \in Requests, StatusWrite(r) PROVE Goal
  <2> DEFINE q == req[r]
  <2>1. q.fase \in ZetStatus /\ q # Idle
    BY <1>2 DEF StatusWrite, ZetStatus
  <2>2. \A x \in Requests : req'[x] = Idle
    BY <1>2, <2>1, EndsAlone DEF StatusWrite
  <2>3. Found'
    BY <2>2 DEF Found, ZetStatus, MetRij, Idle
  <2>4. CASE Taken(q)
    <3>1. UNCHANGED zaak
      BY <1>2, <2>4 DEF StatusWrite
    <3>2. QED
      BY <2>3, <3>1, FamilyKept
  <2>5. CASE ~Taken(q)
    BY <1>2, <2>1, <2>3, <2>5, StatusWriteRows, StoredFamily
  <2>6. QED
    BY <2>4, <2>5
<1>3. ASSUME NEW r \in Requests, NEW z \in Zaken, NEW row \in Patched(z),
             PatchRead(r, z, row) \/ SamenRead(r, z, row)
      PROVE  Goal
  <2>1. PICK fase \in {"zaak", "samen"} :
          req' = [req EXCEPT ![r] = [fase |-> fase, zaak |-> z, rij |-> row]]
    BY <1>3 DEF PatchRead, SamenRead
  <2> DEFINE q == [fase |-> fase, zaak |-> z, rij |-> row]
  <2>9. q.fase \in {"zaak", "samen"} /\ q.zaak = z /\ q.rij = row
    OBVIOUS
  <2> HIDE DEF q
  <2>2. UNCHANGED <<zaak, statussen>> /\ MayStart /\ req'[r] = q
    BY <1>3, <2>1 DEF PatchRead, SamenRead, TypeOK, q
  <2>3. \A x \in Requests : x # r => req'[x] = Idle
    BY <2>1, <2>2, StartsAlone
  <2>4. row.hoofdzaak = zaak[z].hoofdzaak
    BY PatchedType
  <2>5. Found'
    BY <2>9, <2>2, <2>3, <2>4 DEF Found, ZetStatus, MetRij, Idle
  <2>6. QED
    BY <2>2, <2>5, FamilyKept
<1>4. ASSUME NEW r \in Requests, PatchCheck(r) PROVE Goal
  <2>1. /\ req[r] \in [fase : {"zaak", "zaak_save", "samen"}, zaak : Zaken, rij : Row]
        /\ req[r].fase = "zaak" /\ UNCHANGED <<zaak, statussen>>
    BY <1>4 DEF TypeOK, PatchCheck, Verzoek, Idle
  <2>2. /\ req'[r] \in {Idle, [req[r] EXCEPT !.fase = "zaak_save"]}
        /\ \A x \in Requests : x # r => req'[x] = req[x]
    BY <1>4 DEF TypeOK, PatchCheck
  <2>3. \A x \in Requests : x # r => req'[x] = Idle
    BY <2>1, <2>2 DEF OneAtATime, MetRij
  <2>4. req'[r] # Idle => /\ req'[r].fase = "zaak_save" /\ req'[r].zaak = req[r].zaak
                          /\ req'[r].rij = req[r].rij
    BY <2>1, <2>2
  <2>5. Found'
    BY <2>1, <2>3, <2>4 DEF Found, ZetStatus, MetRij, Idle
  <2>6. QED
    BY <2>1, <2>5, FamilyKept
<1>5. ASSUME NEW r \in Requests, PatchWrite(r) PROVE Goal
  <2>1. req[r].fase = "zaak_save" /\ req[r] # Idle /\ req[r].zaak \in Zaken
    BY <1>5 DEF TypeOK, Verzoek, PatchWrite, MetRij
  <2>2. \A x \in Requests : req'[x] = Idle
    BY <1>5, <2>1, EndsAlone DEF PatchWrite
  <2>3. \A x \in Zaken : zaak'[x].einddatum = zaak[x].einddatum
                         /\ zaak'[x].hoofdzaak = zaak[x].hoofdzaak
    BY <1>5, <2>1, PatchWriteRows DEF OneAtATime, Found, MetRij
  <2>4. Found'
    BY <2>2 DEF Found, ZetStatus, MetRij, Idle
  <2>5. QED
    BY <2>3, <2>4, FamilyKept
<1>6. ASSUME Elders PROVE Goal
  <2>1. /\ req' = req
        /\ \A x \in Zaken : zaak'[x].einddatum = zaak[x].einddatum
                            /\ zaak'[x].hoofdzaak = zaak[x].hoofdzaak
    BY <1>6, EldersType
  <2>2. Found'
    BY <2>1, FoundKept DEF Found
  <2>3. QED
    BY <2>1, <2>2, FamilyKept
<1>7. ASSUME NEW r \in Requests, NEW rt \in Resultaattype \cup {None}, NEW datum \in Datum,
             NEW nacht \in Nachten, NEW eind \in BOOLEAN, SamenSave(r, rt, datum, nacht, eind)
      PROVE  Goal
  <2>1. PICK q \in Verzoek :
          /\ req' = [req EXCEPT ![r] = q]
          /\ q.fase = "samen_save" /\ q.zaak = req[r].zaak /\ q.eind = eind
          /\ q.rij.hoofdzaak = req[r].rij.hoofdzaak
          /\ StatusReady(q.zaak, q.rij, q.rt, datum, nacht, eind)
    BY <1>7, SamenSaveType
  <2>2. req[r].fase \in MetRij /\ req[r] # Idle /\ UNCHANGED <<zaak, statussen>>
    BY <1>7 DEF SamenSave, MetRij
  <2>3. req'[r] = q /\ \A x \in Requests : x # r => req'[x] = Idle
    BY <2>1, <2>2 DEF OneAtATime, TypeOK
  <2>4. q.rij.hoofdzaak = zaak[q.zaak].hoofdzaak /\ q.zaak \in Zaken
    BY <2>1, <2>2, VerzoekType DEF Found, TypeOK
  <2>5. FoundFor(q)
    BY <1>0, <2>1, <2>4, ReadyFound
  <2>6. Found'
    BY <2>2, <2>3, <2>4, <2>5, FoundAlone
  <2>7. QED
    BY <2>2, <2>6, FamilyKept
<1>8. ASSUME NEW r \in Requests, SamenWrite(r) PROVE Goal
  <2>1. /\ req[r] \in Verzoek /\ req[r].fase \in ZetStatus /\ req[r].fase \in MetRij
        /\ req[r] # Idle
    BY <1>8 DEF SamenWrite, TypeOK, ZetStatus, MetRij
  <2>2. \A x \in Requests : req'[x] = Idle
    BY <1>8, <2>1, EndsAlone DEF SamenWrite
  <2>3. Found'
    BY <2>2 DEF Found, ZetStatus, MetRij, Idle
  <2>4. \A x \in Zaken :
          /\ zaak'[x].hoofdzaak = zaak[x].hoofdzaak
          /\ zaak'[x].einddatum = IF x = req[r].zaak THEN Einddatum(req[r]) ELSE zaak[x].einddatum
    BY <1>8, <2>1, SamenWriteRows, ZenonT(50) DEF Found
  <2>5. DeelzakenClosed'
    BY <2>1, <2>4, StoredFamily
  <2>6. QED
    BY <2>3, <2>5
<1>9. ASSUME NEW r \in Requests, SamenFails(r) PROVE Goal
  <2>1. req[r] # Idle /\ UNCHANGED zaak
    BY <1>9 DEF SamenFails, ZetStatus, MetRij
  <2>2. \A x \in Requests : req'[x] = Idle
    BY <1>9, <2>1, EndsAlone DEF SamenFails
  <2>3. Found'
    BY <2>2 DEF Found, ZetStatus, MetRij, Idle
  <2>4. QED
    BY <2>1, <2>3, FamilyKept
<1> HIDE DEF Goal
<1>10. Goal
  BY <1>1, <1>2, <1>3, <1>4, <1>5, <1>6, <1>7, <1>8, <1>9, Steps
<1>11. QED
  BY <1>10 DEF Goal

\* Without concurrency, with statuses in order and deelzaken that stay with their
\* hoofdzaak, the deelzaken of a closed hoofdzaak are closed.
THEOREM HoofdzaakClosesLast ==
  ASSUME ~Gelijktijdig, Chronologisch, "hoofdzaak" \notin Ops
  PROVE  Spec => []DeelzakenClosed
<1>1. Init => OneAtATime /\ EindstatusCloses
  BY DEF Init, OneAtATime, EindstatusCloses, Idle, IsClosed, AtEindstatus, ZetStatus, MetRij
<1>2. Init => Found /\ DeelzakenClosed
  BY DEF Init, Found, DeelzakenClosed, IsClosed, Idle, ZetStatus, MetRij
<1>3. TypeOK /\ OneAtATime /\ EindstatusCloses /\ [Next]_vars => OneAtATime' /\ EindstatusCloses'
  BY SerialStep
<1>4. /\ TypeOK /\ OneAtATime /\ EindstatusCloses /\ Found /\ DeelzakenClosed /\ [Next]_vars
      => Found' /\ DeelzakenClosed'
  BY FamilyStep
<1>5. QED
  BY <1>1, <1>2, <1>3, <1>4, TypeCorrect, PTL DEF Spec

-----------------------------------------------------------------------------
(* Archiving follows closing, reopening and results.  What is proved of    *)
(* every row holds of the rows in requests too: those are stored later.    *)

Leeg(row) == row.startdatum = 0 /\ row.actiedatum = 0

\* The actiedatum of a row is that of this resultaattype.
Passend(row, rt) ==
  row.actiedatum # 0 =>
    /\ rt # None
    /\ row.actiedatum = row.startdatum + rt.termijn
    /\ row.nominatie = rt.nominatie

\* Nothing decides yet when a row is archived.
Onbeslist(row, rt) ==
  \/ row.einddatum = 0 \/ rt = None
  \/ FollowsHoofdzaak(row, rt) /\ zaak[row.hoofdzaak].einddatum = 0

Goed(row, rt) == Passend(row, rt) /\ (Onbeslist(row, rt) => Leeg(row))

\* The columns of a row that archiving is about.
Zelfde(row, s) ==
  /\ row.hoofdzaak = s.hoofdzaak /\ row.einddatum = s.einddatum /\ row.nominatie = s.nominatie
  /\ row.startdatum = s.startdatum /\ row.actiedatum = s.actiedatum

\* What a request is going to store is good, and what it read is what is there.
Aanvraag(q) ==
  /\ q.fase \in ZetStatus =>
       /\ Goed(q.rij, q.rt)
       /\ ~q.eind => q.bron = 0
       /\ q.rij.einddatum = zaak[q.zaak].einddatum /\ q.rij.hoofdzaak = zaak[q.zaak].hoofdzaak
  /\ q.fase = "status" => q.rij = zaak[q.zaak] /\ q.rt = resultaat[q.zaak]
  /\ q.fase \in {"zaak", "zaak_save", "samen"} => Zelfde(q.rij, zaak[q.zaak])

ArchiefInv ==
  /\ \A z \in Zaken : Goed(zaak[z], resultaat[z])
  /\ \A r \in Requests : Aanvraag(req[r])

\* Archiving gives a row the nominatie and the termijn of the resultaattype.
LEMMA ArchivedPassend ==
  ASSUME NEW row \in Row, NEW rt \in Resultaattype, rt # None, NEW bron \in Bron,
         Passend(row, rt)
  PROVE  /\ Passend(Archived(row, rt, bron), rt)
         /\ bron = 0 /\ Leeg(row) => Leeg(Archived(row, rt, bron))
<1>2. CASE bron = Fout
  BY <1>2 DEF Archived, Fout
<1>3. CASE bron = 0
  <2>1. PICK s : s = [row EXCEPT !.nominatie = rt.nominatie]
    OBVIOUS
  <2>2. /\ s.nominatie = rt.nominatie /\ s.startdatum = row.startdatum
        /\ s.actiedatum = row.actiedatum
    BY <2>1 DEF Row
  <2>3. Archived(row, rt, bron) = s
    BY <1>3, <2>1 DEF Archived, Fout
  <2> QED BY <2>2, <2>3 DEF Passend, Leeg
<1>4. CASE bron # 0 /\ bron # Fout
  <2>1. PICK s : s = [row EXCEPT !.nominatie = rt.nominatie, !.startdatum = bron,
                                 !.actiedatum = bron + rt.termijn]
    OBVIOUS
  <2>2. s.nominatie = rt.nominatie /\ s.startdatum = bron /\ s.actiedatum = bron + rt.termijn
    BY <2>1 DEF Row
  <2>3. Archived(row, rt, bron) = s
    BY <1>4, <2>1 DEF Archived
  <2> QED BY <1>4, <2>2, <2>3 DEF Passend
<1> QED BY <1>2, <1>3, <1>4

\* A result that a zaak did not have.
LEMMA TryArchiveGoed ==
  ASSUME TypeOK, NEW z \in Zaken, NEW row \in Row, NEW rt \in Resultaattype,
         Goed(row, None) \/ Goed(row, rt)
  PROVE  Goed(TryArchive(z, row, rt, FALSE), rt)
<1>1. Passend(row, rt) /\ (Onbeslist(row, rt) => Leeg(row))
  BY DEF Goed, Onbeslist, Passend, Leeg
<1>2. CASE row.einddatum = 0
  BY <1>1, <1>2 DEF TryArchive, Goed
<1>3. CASE row.einddatum # 0 /\ rt = None
  BY <1>1, <1>3 DEF TryArchive, Goed
<1>4. CASE row.einddatum # 0 /\ rt # None
  <2>1. PICK c : c = Calculate(z, row, rt, row.einddatum, FALSE)
    OBVIOUS
  <2>2. c \in Bron /\ row.einddatum \in Datum
    BY <1>4, <2>1, CalculateType DEF Row
  <2>3. PICK s : s = Archived(row, rt, c)
    OBVIOUS
  <2>4. TryArchive(z, row, rt, FALSE) = s
    BY <1>4, <2>1, <2>3 DEF TryArchive
  <2>5. s.einddatum = row.einddatum /\ s.hoofdzaak = row.hoofdzaak
    BY <2>2, <2>3, ArchivedType
  <2>6. Passend(s, rt) /\ (c = 0 /\ Leeg(row) => Leeg(s))
    BY <1>1, <1>4, <2>2, <2>3, ArchivedPassend
  <2>7. ASSUME FollowsHoofdzaak(s, rt), zaak[s.hoofdzaak].einddatum = 0 PROVE c = 0 /\ Leeg(row)
    <3>1. rt.wijze = "hoofdzaak" /\ row.hoofdzaak # None /\ zaak[row.hoofdzaak].einddatum = 0
      BY <2>5, <2>7 DEF FollowsHoofdzaak
    <3>2. GetBrondatum(z, row, rt, row.einddatum) = 0
      BY <3>1 DEF GetBrondatum
    <3>3. Leeg(row)
      BY <1>1, <1>4, <3>1 DEF Onbeslist, FollowsHoofdzaak
    <3> QED BY <2>1, <3>2, <3>3 DEF Calculate, Leeg
  <2> QED BY <1>4, <2>4, <2>5, <2>6, <2>7 DEF Goed, Onbeslist
<1> QED BY <1>2, <1>3, <1>4

\* The row of a zaak after its status.
LEMMA AfterStatusGoed ==
  ASSUME TypeOK, NEW q \in Verzoek, q.fase \in ZetStatus, Aanvraag(q), FoundFor(q)
  PROVE  LET s == AfterStatus(q, q.rij)
         IN /\ Passend(s, q.rt)
            /\ s.einddatum = 0 \/ q.rt = None => Leeg(s)
            /\ FollowsHoofdzaak(s, q.rt) /\ zaak[s.hoofdzaak].einddatum = 0 => Leeg(s)
<1>1. /\ q.zaak \in Zaken /\ q.datum \in Datum /\ q.utc \in Datum /\ q.eind \in BOOLEAN
      /\ q.rij \in Row /\ q.rt \in Resultaattype \cup {None}
  BY VerzoekType
<1>2. PICK s : s = AfterStatus(q, q.rij)
  OBVIOUS
<1>3. s \in Row /\ s.einddatum = Einddatum(q) /\ s.hoofdzaak = q.rij.hoofdzaak
  BY <1>1, <1>2, AfterStatusType
<1>4. s.einddatum = 0 <=> ~q.eind
  BY <1>1, <1>3 DEF Einddatum, Datum
<1>5. FollowsHoofdzaak(s, q.rt) <=> FollowsHoofdzaak(q.rij, q.rt)
  BY <1>3 DEF FollowsHoofdzaak
<1>6. PICK row : row = [q.rij EXCEPT !.einddatum = Einddatum(q)]
  OBVIOUS
<1>7. /\ row \in Row /\ row.startdatum = q.rij.startdatum /\ row.actiedatum = q.rij.actiedatum
      /\ row.nominatie = q.rij.nominatie
  <2>1. Einddatum(q) \in Datum \cup {0}
    BY <1>1 DEF Einddatum
  <2> QED BY <1>1, <1>6, <2>1 DEF Row
<1>8. Goed(q.rij, q.rt) /\ Passend(row, q.rt) /\ (Leeg(row) <=> Leeg(q.rij))
  BY <1>7 DEF Aanvraag, Goed, Passend, Leeg
<1>9. CASE FollowsHoofdzaak(q.rij, q.rt)
  <2>1. s = row
    BY <1>2, <1>6, <1>9 DEF AfterStatus
  <2>2. ASSUME ~q.eind PROVE Leeg(q.rij)
    <3>1. q.rij.hoofdzaak # None /\ q.rij.hoofdzaak = zaak[q.zaak].hoofdzaak
      BY <1>9 DEF FollowsHoofdzaak, Aanvraag
    <3>2. zaak[q.rij.hoofdzaak].einddatum = 0
      BY <2>2, <3>1 DEF FoundFor, IsClosed
    <3> QED BY <1>8, <1>9, <3>2 DEF Goed, Onbeslist
  <2>3. q.rt # None
    BY <1>9 DEF FollowsHoofdzaak
  <2> QED BY <1>2, <1>3, <1>4, <1>8, <1>9, <2>1, <2>2, <2>3 DEF Goed, Onbeslist
<1>10. CASE ~FollowsHoofdzaak(q.rij, q.rt) /\ q.eind /\ q.rt = None
  <2>1. s = row
    BY <1>2, <1>6, <1>10 DEF AfterStatus
  <2> QED BY <1>2, <1>8, <1>10, <2>1 DEF Goed, Onbeslist
<1>11. CASE ~FollowsHoofdzaak(q.rij, q.rt) /\ q.eind /\ q.rt # None
  <2>1. PICK c : c = Calculate(q.zaak, q.rij, q.rt, q.utc, FALSE)
    OBVIOUS
  <2>2. c \in Bron
    BY <1>1, <1>11, <2>1, CalculateType
  <2>3. s = Archived(row, q.rt, c)
    BY <1>2, <1>6, <1>11, <2>1 DEF AfterStatus
  <2>4. Passend(s, q.rt)
    BY <1>1, <1>7, <1>8, <1>11, <2>2, <2>3, ArchivedPassend
  <2> QED BY <1>2, <1>4, <1>5, <1>11, <2>4
<1>12. CASE ~FollowsHoofdzaak(q.rij, q.rt) /\ ~q.eind
  <2>1. CASE q.rij.einddatum # 0
    <3>1. s = Reopened(row)
      BY <1>2, <1>6, <1>12, <2>1 DEF AfterStatus
    <3>2. Leeg(s)
      BY <1>7, <3>1 DEF Reopened, NotArchived, Leeg, Row
    <3> QED BY <1>2, <3>2 DEF Passend, Leeg
  <2>2. CASE q.rij.einddatum = 0
    <3>1. s = row
      BY <1>2, <1>6, <1>12, <2>2 DEF AfterStatus
    <3>2. Leeg(s)
      BY <1>8, <2>2, <3>1 DEF Goed, Onbeslist
    <3> QED BY <1>2, <3>2 DEF Passend, Leeg
  <2> QED BY <2>1, <2>2
<1> QED BY <1>9, <1>10, <1>11, <1>12

\* A status that is stored, with the result of its zaak.
LEMMA StoreGoed ==
  ASSUME TypeOK, \A x \in Zaken : Goed(zaak[x], resultaat[x]),
         NEW q \in Verzoek, q.fase \in ZetStatus, Aanvraag(q), FoundFor(q), StoreStatus(q, q.rij),
         resultaat' = [resultaat EXCEPT ![q.zaak] = q.rt]
  PROVE  \A x \in Zaken : Goed(zaak[x], resultaat[x])'
<1>1. /\ q.zaak \in Zaken /\ q.datum \in Datum /\ q.eind \in BOOLEAN /\ q.bron \in Nat
      /\ q.rij \in Row /\ q.rt \in Resultaattype \cup {None}
  BY VerzoekType
<1>2. ASSUME NEW y \in Zaken
      PROVE  zaak'[y].einddatum = IF y = q.zaak THEN Einddatum(q) ELSE zaak[y].einddatum
  BY <1>1, StoreRows
<1>3. Einddatum(q) = 0 <=> ~q.eind
  BY <1>1 DEF Einddatum, Datum
<1>4. PICK s : s = AfterStatus(q, q.rij)
  OBVIOUS
<1>5. /\ zaak'[q.zaak] = s /\ resultaat'[q.zaak] = q.rt
      /\ s.einddatum = Einddatum(q) /\ s.hoofdzaak = q.rij.hoofdzaak
  BY <1>1, <1>4, AfterStatusType DEF StoreStatus, TypeOK
<1>6. /\ Passend(s, q.rt)
      /\ s.einddatum = 0 \/ q.rt = None => Leeg(s)
      /\ FollowsHoofdzaak(s, q.rt) /\ zaak[s.hoofdzaak].einddatum = 0 => Leeg(s)
  BY <1>4, AfterStatusGoed
<1>7. ASSUME FollowsHoofdzaak(s, q.rt), zaak'[s.hoofdzaak].einddatum = 0 PROVE Leeg(s)
  <2>1. s.hoofdzaak \in Zaken
    BY <1>1, <1>5, <1>7 DEF FollowsHoofdzaak, Row
  <2>2. CASE s.hoofdzaak = q.zaak
    BY <1>5, <1>6, <1>7, <2>2
  <2>3. CASE s.hoofdzaak # q.zaak
    BY <1>2, <1>6, <1>7, <2>1, <2>3
  <2> QED BY <2>2, <2>3
<1>8. Goed(zaak[q.zaak], resultaat[q.zaak])'
  BY <1>5, <1>6, <1>7 DEF Goed, Passend, Leeg, Onbeslist, FollowsHoofdzaak
<1>9. ASSUME NEW x \in Zaken, x # q.zaak PROVE Goed(zaak[x], resultaat[x])'
  <2> DEFINE changes == q.eind \/ q.rij.einddatum # 0
             volgt == changes /\ x \in Deelzaken(q.zaak) /\ FollowsHoofdzaak(zaak[x], resultaat[x])
  <2>1. /\ zaak'[x] = IF volgt THEN UpdateDeelzaak(zaak[x], resultaat[x], q.eind, q.bron) ELSE zaak[x]
        /\ resultaat'[x] = resultaat[x] /\ zaak[x] \in Row
    BY <1>9 DEF StoreStatus, TypeOK
  <2>2. PICK row, rt : row = zaak[x] /\ rt = resultaat[x]
    OBVIOUS
  <2>3. Goed(row, rt) /\ row \in Row /\ rt \in Resultaattype \cup {None}
    BY <2>1, <2>2 DEF TypeOK
  <2>4. CASE volgt
    <3>1. PICK u : u = UpdateDeelzaak(row, rt, q.eind, q.bron)
      OBVIOUS
    <3>2. rt # None /\ rt \in Resultaattype /\ row.hoofdzaak = q.zaak
      BY <2>2, <2>3, <2>4 DEF FollowsHoofdzaak, Deelzaken
    <3>3. u.einddatum = row.einddatum /\ u.hoofdzaak = row.hoofdzaak
      BY <1>1, <2>3, <3>1, <3>2, UpdateDeelzaakType
    <3>4. /\ u.nominatie = IF q.eind THEN rt.nominatie ELSE None
          /\ u.startdatum = q.bron
          /\ u.actiedatum = IF q.bron = 0 \/ rt.termijn = 0 THEN 0 ELSE q.bron + rt.termijn
      BY <2>3, <3>1 DEF UpdateDeelzaak, Row
    <3>5. ~q.eind => Leeg(u) /\ q.bron = 0
      BY <3>4 DEF Aanvraag, Leeg
    <3>6. q.eind => row.einddatum # 0
      BY <2>2, <2>4 DEF FoundFor, IsClosed
    <3>7. q.eind => zaak'[row.hoofdzaak].einddatum # 0
      BY <1>1, <1>2, <1>3, <3>2
    <3>8. Passend(u, rt)
      BY <3>2, <3>4, <3>5 DEF Passend
    <3>9. zaak'[x] = u /\ resultaat'[x] = rt
      BY <2>1, <2>2, <2>4, <3>1
    <3> QED BY <3>2, <3>3, <3>5, <3>6, <3>7, <3>8, <3>9
            DEF Goed, Passend, Leeg, Onbeslist, FollowsHoofdzaak
  <2>5. CASE ~volgt
    <3>1. zaak'[x] = row /\ resultaat'[x] = rt
      BY <2>1, <2>2, <2>5
    <3>2. ASSUME FollowsHoofdzaak(row, rt), zaak'[row.hoofdzaak].einddatum = 0
          PROVE  zaak[row.hoofdzaak].einddatum = 0
      <4>1. row.hoofdzaak \in Zaken
        BY <2>3, <3>2 DEF FollowsHoofdzaak, Row
      <4>2. CASE row.hoofdzaak = q.zaak
        <5>1. ~changes
          BY <2>2, <2>5, <3>2, <4>2 DEF Deelzaken
        <5> QED BY <4>2, <5>1 DEF Aanvraag
      <4>3. CASE row.hoofdzaak # q.zaak
        BY <1>2, <3>2, <4>1, <4>3
      <4> QED BY <4>2, <4>3
    <3> QED BY <2>3, <3>1, <3>2 DEF Goed, Passend, Leeg, Onbeslist, FollowsHoofdzaak
  <2> QED BY <2>4, <2>5
<1> QED BY <1>8, <1>9

\* Rows and results that stay as they are, and requests that hold what is there.
LEMMA GoedBlijft ==
  ASSUME UNCHANGED <<zaak, resultaat>>, \A x \in Zaken : Goed(zaak[x], resultaat[x])
  PROVE  \A x \in Zaken : Goed(zaak[x], resultaat[x])'
BY DEF Goed, Passend, Leeg, Onbeslist, FollowsHoofdzaak

LEMMA IdleAanvraag == Aanvraag(Idle)
BY DEF Aanvraag, Idle, ZetStatus

LEMMA BegonnenArchief ==
  ASSUME ArchiefInv, TypeOK, UNCHANGED <<zaak, resultaat>>, NEW r \in Requests, NEW q, Aanvraag(q),
         req'[r] = q, \A x \in Requests : x # r => req'[x] = Idle
  PROVE  ArchiefInv'
<1>1. ASSUME NEW p, Aanvraag(p) PROVE Aanvraag(p)'
  BY <1>1 DEF Aanvraag, Goed, Passend, Leeg, Onbeslist, FollowsHoofdzaak, Zelfde
<1>2. Aanvraag(q)' /\ Aanvraag(Idle)'
  BY <1>1, IdleAanvraag
<1>3. ASSUME NEW x \in Requests PROVE Aanvraag(req[x])'
  <2>1. req'[x] = q \/ req'[x] = Idle
    OBVIOUS
  <2> QED BY <1>2, <2>1 DEF Idle
<1>4. \A x \in Zaken : Goed(zaak[x], resultaat[x])'
  BY GoedBlijft DEF ArchiefInv
<1> QED BY <1>3, <1>4 DEF ArchiefInv

LEMMA KlaarArchief ==
  ASSUME \A x \in Requests : req'[x] = Idle, \A x \in Zaken : Goed(zaak[x], resultaat[x])'
  PROVE  ArchiefInv'
<1>1. ASSUME NEW x \in Requests PROVE Aanvraag(req[x])'
  BY DEF Aanvraag, Idle, ZetStatus
<1> QED BY <1>1 DEF ArchiefInv

\* One row that changes, without its einddatum and hoofdzaak.
LEMMA EenRijGoed ==
  ASSUME TypeOK, \A x \in Zaken : Goed(zaak[x], resultaat[x]), NEW z \in Zaken, NEW row, NEW rt,
         Goed(row, rt), row.einddatum = zaak[z].einddatum, row.hoofdzaak = zaak[z].hoofdzaak,
         zaak' = [zaak EXCEPT ![z] = row], resultaat' = [resultaat EXCEPT ![z] = rt]
  PROVE  \A x \in Zaken : Goed(zaak[x], resultaat[x])'
<1>1. ASSUME NEW x \in Zaken
      PROVE  /\ zaak'[x] = IF x = z THEN row ELSE zaak[x]
             /\ resultaat'[x] = IF x = z THEN rt ELSE resultaat[x]
             /\ zaak'[x].einddatum = zaak[x].einddatum
  BY DEF TypeOK
<1>2. ASSUME NEW x \in Zaken PROVE Goed(zaak[x], resultaat[x])'
  <2>1. PICK s, t : s = zaak'[x] /\ t = resultaat'[x]
    OBVIOUS
  <2>2. Goed(s, t) /\ s.hoofdzaak \in Zaken \cup {None}
    BY <1>1, <2>1 DEF TypeOK, Row
  <2>3. FollowsHoofdzaak(s, t) /\ zaak'[s.hoofdzaak].einddatum = 0 => zaak[s.hoofdzaak].einddatum = 0
    BY <1>1, <2>2 DEF FollowsHoofdzaak
  <2> QED BY <2>1, <2>2, <2>3 DEF Goed, Passend, Leeg, Onbeslist, FollowsHoofdzaak
<1> QED BY <1>2

LEMMA OngewijzigdArchief ==
  ASSUME ArchiefInv, UNCHANGED <<zaak, resultaat, req>>
  PROVE  ArchiefInv'
<1>1. ASSUME NEW x \in Requests PROVE Aanvraag(req[x])'
  <2>1. PICK p : p = req[x] /\ p = req'[x]
    OBVIOUS
  <2>2. Aanvraag(p)
    BY <2>1 DEF ArchiefInv
  <2>3. Aanvraag(p)'
    BY <2>2 DEF Aanvraag, Goed, Passend, Leeg, Onbeslist, FollowsHoofdzaak, Zelfde
  <2> QED BY <2>1, <2>3
<1>2. \A x \in Zaken : Goed(zaak[x], resultaat[x])'
  BY GoedBlijft DEF ArchiefInv
<1> QED BY <1>1, <1>2 DEF ArchiefInv

\* A date that archiving starts from changes, which is none of a hoofdzaak.
LEMMA RecalculatedGoed ==
  ASSUME TypeOK, NEW z \in Zaken, NEW wijze, wijze # "hoofdzaak", NEW datum \in Datum \cup {0, Fout},
         Goed(zaak[z], resultaat[z])
  PROVE  Goed(Recalculated(z, wijze, datum), resultaat[z])
<1>1. CASE ~(IsClosed(z) /\ resultaat[z] # None /\ resultaat[z].wijze = wijze)
  BY <1>1 DEF Recalculated
<1>2. CASE IsClosed(z) /\ resultaat[z] # None /\ resultaat[z].wijze = wijze
  <2>1. PICK rt, bron : rt = resultaat[z] /\ bron = IF rt.termijn = 0 THEN 0 ELSE datum
    OBVIOUS
  <2>2. rt \in Resultaattype /\ rt # None /\ bron \in Bron /\ zaak[z] \in Row
    BY <1>2, <2>1 DEF TypeOK, Bron, Datum
  <2>3. Recalculated(z, wijze, datum) = Archived(zaak[z], rt, bron)
    BY <1>2, <2>1 DEF Recalculated
  <2>4. /\ Passend(Archived(zaak[z], rt, bron), rt)
        /\ Archived(zaak[z], rt, bron).einddatum # 0
    BY <1>2, <2>1, <2>2, ArchivedPassend, ArchivedType DEF Goed, IsClosed
  <2> QED BY <1>2, <2>1, <2>2, <2>3, <2>4 DEF Goed, Onbeslist, FollowsHoofdzaak
<1> QED BY <1>1, <1>2

\* The steps that change one row and no status.
LEMMA EldersArchief ==
  ASSUME ~Gelijktijdig, "verplaats" \notin Ops, TypeOK, ArchiefInv, Elders
  PROVE  ArchiefInv'
<1>1. \A x \in Zaken : Goed(zaak[x], resultaat[x]) /\ zaak[x] \in Row
  BY DEF ArchiefInv, TypeOK
<1>2. ASSUME NEW z \in Zaken, NEW row, NEW rt, Goed(row, rt), MayStart, req' = req,
             row.einddatum = zaak[z].einddatum, row.hoofdzaak = zaak[z].hoofdzaak,
             zaak' = [zaak EXCEPT ![z] = row], resultaat' = [resultaat EXCEPT ![z] = rt]
      PROVE  ArchiefInv'
  <2>1. \A x \in Requests : req'[x] = Idle
    BY <1>2 DEF MayStart
  <2>2. \A x \in Zaken : Goed(zaak[x], resultaat[x])'
    BY <1>1, <1>2, EenRijGoed
  <2> QED BY <2>1, <2>2, KlaarArchief
<1>3. ASSUME NEW z \in Zaken, NEW rt \in Resultaattype, ResultaatCreate(z, rt) PROVE ArchiefInv'
  <2>1. PICK row : row = TryArchive(z, zaak[z], rt, FALSE)
    OBVIOUS
  <2>2. Goed(zaak[z], None)
    BY <1>1, <1>3 DEF ResultaatCreate
  <2>3. Goed(row, rt) /\ row.einddatum = zaak[z].einddatum /\ row.hoofdzaak = zaak[z].hoofdzaak
    <3>1. zaak[z] \in Row
      BY <1>1
    <3>2. Goed(row, rt)
      BY <2>1, <2>2, <3>1, TryArchiveGoed
    <3>3. /\ TryArchive(z, zaak[z], rt, FALSE).einddatum = zaak[z].einddatum
          /\ TryArchive(z, zaak[z], rt, FALSE).hoofdzaak = zaak[z].hoofdzaak
      <4>1. rt \in Resultaattype \cup {None} /\ FALSE \in BOOLEAN
        OBVIOUS
      <4> QED BY <3>1, <4>1, TryArchiveType
    <3> QED BY <2>1, <3>2, <3>3
  <2>4. /\ MayStart /\ req' = req /\ zaak' = [zaak EXCEPT ![z] = row]
        /\ resultaat' = [resultaat EXCEPT ![z] = rt]
    BY <1>3, <2>1 DEF ResultaatCreate
  <2> QED BY <1>2, <2>3, <2>4
<1>4. ASSUME NEW z \in Zaken, ResultaatDelete(z) PROVE ArchiefInv'
  <2>1. PICK row : row = [zaak[z] EXCEPT !.startdatum = 0, !.actiedatum = 0]
    OBVIOUS
  <2>2. Leeg(row) /\ row.einddatum = zaak[z].einddatum /\ row.hoofdzaak = zaak[z].hoofdzaak
    BY <1>1, <2>1 DEF Row, Leeg
  <2>3. Goed(row, None)
    BY <2>2 DEF Goed, Passend, Leeg
  <2>4. /\ MayStart /\ req' = req /\ zaak' = [zaak EXCEPT ![z] = row]
        /\ resultaat' = [resultaat EXCEPT ![z] = None]
    BY <1>4, <2>1 DEF ResultaatDelete
  <2> QED BY <1>2, <2>2, <2>3, <2>4
<1>5. ASSUME NEW z \in Zaken, NEW row, Goed(row, resultaat[z]), MayStart,
             row.einddatum = zaak[z].einddatum, row.hoofdzaak = zaak[z].hoofdzaak,
             zaak' = [zaak EXCEPT ![z] = row], UNCHANGED <<resultaat, req>>
      PROVE  ArchiefInv'
  <2>1. resultaat' = [resultaat EXCEPT ![z] = resultaat[z]]
    BY <1>5 DEF TypeOK
  <2> QED BY <1>2, <1>5, <2>1
<1>6. ASSUME NEW z \in Zaken, NEW datum \in Datum \cup {Fout}, EigenschapSave(z, datum)
      PROVE  ArchiefInv'
  <2>1. PICK row : row = Recalculated(z, "eigenschap", datum)
    OBVIOUS
  <2>2. /\ Goed(row, resultaat[z])
        /\ row.einddatum = zaak[z].einddatum /\ row.hoofdzaak = zaak[z].hoofdzaak
    BY <1>1, <2>1, RecalculatedGoed, RecalculatedType
  <2> QED BY <1>5, <1>6, <2>1, <2>2 DEF EigenschapSave
<1>7. ASSUME NEW z \in Zaken, NEW datum \in Datum \cup {Fout}, ObjectSave(z, datum)
      PROVE  ArchiefInv'
  <2>1. PICK row : row = Recalculated(z, "zaakobject", datum)
    OBVIOUS
  <2>2. /\ Goed(row, resultaat[z])
        /\ row.einddatum = zaak[z].einddatum /\ row.hoofdzaak = zaak[z].hoofdzaak
    BY <1>1, <2>1, RecalculatedGoed, RecalculatedType
  <2> QED BY <1>5, <1>7, <2>1, <2>2 DEF ObjectSave
<1>8. ASSUME NEW z \in Zaken, NEW ingang \in Datum, NEW verval \in Datum \cup {0},
             BesluitSave(z, ingang, verval)
      PROVE  ArchiefInv'
  <2>1. PICK row : row = BesluitGewijzigd(z, ingang, verval)
    OBVIOUS
  <2>2. PICK leeg : leeg = [zaak[z] EXCEPT !.startdatum = 0, !.actiedatum = 0]
    OBVIOUS
  <2>3. Leeg(leeg) /\ leeg.einddatum = zaak[z].einddatum /\ leeg.hoofdzaak = zaak[z].hoofdzaak
    BY <1>1, <2>2 DEF Row, Leeg
  <2>4. Goed(leeg, resultaat[z])
    BY <2>3 DEF Goed, Passend, Leeg
  <2>5. \/ row = leeg \/ row = Recalculated(z, "vervaldatum_besluit", verval)
        \/ row = Recalculated(z, "ingangsdatum_besluit", ingang)
    BY <2>1, <2>2 DEF BesluitGewijzigd
  <2>6. /\ Goed(row, resultaat[z])
        /\ row.einddatum = zaak[z].einddatum /\ row.hoofdzaak = zaak[z].hoofdzaak
    BY <1>1, <2>3, <2>4, <2>5, RecalculatedGoed, RecalculatedType
  <2> QED BY <1>5, <1>8, <2>1, <2>6 DEF BesluitSave
<1>9. CASE UNCHANGED <<zaak, resultaat, req>>
  BY <1>9, OngewijzigdArchief
<1>10. ASSUME NEW z \in Zaken, NEW x \in Zaken, ResultaatUpdate(z, x) PROVE ArchiefInv'
  <2>1. PICK rt, row : rt = resultaat[z] /\ row = TryArchive(z, zaak[z], rt, FALSE)
    OBVIOUS
  <2>2. x = z /\ rt \in Resultaattype /\ zaak[z] \in Row /\ Goed(zaak[z], rt)
    BY <1>1, <1>10, <2>1 DEF ResultaatUpdate, TypeOK
  <2>3. Goed(row, rt)
    BY <2>1, <2>2, TryArchiveGoed
  <2>4. row.einddatum = zaak[z].einddatum /\ row.hoofdzaak = zaak[z].hoofdzaak
    BY <2>1, <2>2, TryArchiveType
  <2>5. /\ MayStart /\ UNCHANGED <<resultaat, req>>
        /\ zaak' = [zaak EXCEPT ![z] = row]
    BY <1>10, <2>1, <2>2 DEF ResultaatUpdate, TypeOK
  <2> QED BY <1>5, <2>1, <2>3, <2>4, <2>5
<1> QED BY <1>3, <1>4, <1>6, <1>7, <1>8, <1>9, <1>10
        DEF Elders, KenmerkStap, KenmerkDelete, BesluitDelete, Relate, DocumentChange

\* What a PATCH reads has the columns that are there.
LEMMA PatchedZelfde ==
  ASSUME TypeOK, "hoofdzaak" \notin Ops, "handmatig" \notin Ops, NEW z \in Zaken,
         NEW row \in Patched(z)
  PROVE  Zelfde(row, zaak[z])
<1>1. zaak[z] \in Row
  BY DEF TypeOK
<1>2. row = zaak[z] \/ row = [zaak[z] EXCEPT !.gearchiveerd = TRUE]
  BY DEF Patched
<1> QED BY <1>1, <1>2 DEF Zelfde, Row

LEMMA ZelfdeGoed ==
  ASSUME NEW row, NEW s, NEW rt, Zelfde(row, s), Goed(s, rt)
  PROVE  Goed(row, rt)
BY DEF Zelfde, Goed, Passend, Leeg, Onbeslist, FollowsHoofdzaak

\* Without concurrency a save changes nothing that archiving is about.
LEMMA SavedZelfde ==
  ASSUME NEW z \in Zaken, NEW row, Zelfde(row, zaak[z])
  PROVE  Saved(z, row) = row /\ ~Again(z, row)
BY DEF Saved, Again, Zelfde

LEMMA ArchiefStap ==
  ASSUME ~Gelijktijdig, Chronologisch, "hoofdzaak" \notin Ops, "handmatig" \notin Ops,
         "verplaats" \notin Ops,
         TypeOK, OneAtATime, EindstatusCloses, Found, ArchiefInv, [Next]_vars
  PROVE  ArchiefInv'
<1> USE NotIdle
<1>0. \A x \in Zaken : Goed(zaak[x], resultaat[x]) /\ zaak[x] \in Row
  BY DEF ArchiefInv, TypeOK
<1>1. ASSUME NEW r \in Requests, NEW z \in Zaken, NEW datum \in Datum, NEW nacht \in Nachten,
             NEW eind \in BOOLEAN, StatusRead(r, z, datum, nacht, eind)
      PROVE  ArchiefInv'
  <2>1. PICK q : q = MetStatus("status", z, zaak[z], resultaat[z], datum, nacht, eind)
    OBVIOUS
  <2>2. /\ q.fase = "status" /\ q.zaak = z /\ q.rij = zaak[z] /\ q.rt = resultaat[z]
        /\ q.eind = eind /\ (~q.eind => q.bron = 0)
    BY <2>1 DEF MetStatus
  <2>3. UNCHANGED <<zaak, resultaat>> /\ MayStart /\ req' = [req EXCEPT ![r] = q]
    BY <1>1, <2>1 DEF StatusRead
  <2>4. req'[r] = q /\ \A x \in Requests : x # r => req'[x] = Idle
    BY <2>3, StartsAlone DEF TypeOK
  <2>5. Aanvraag(q)
    BY <1>0, <2>2 DEF Aanvraag
  <2> QED BY <2>3, <2>4, <2>5, BegonnenArchief
<1>2. ASSUME NEW r \in Requests, StatusWrite(r) PROVE ArchiefInv'
  <2>1. PICK q : q = req[r]
    OBVIOUS
  <2>2. q \in Verzoek /\ q.fase = "status" /\ q.fase \in ZetStatus /\ q # Idle
    BY <1>2, <2>1 DEF StatusWrite, TypeOK, ZetStatus
  <2>3. \A x \in Requests : req'[x] = Idle
    BY <1>2, <2>1, <2>2, EndsAlone DEF StatusWrite
  <2>4. Aanvraag(q) /\ FoundFor(q)
    BY <2>1, <2>2 DEF ArchiefInv, Found
  <2>5. q.rij = zaak[q.zaak] /\ q.rt = resultaat[q.zaak] /\ q.zaak \in Zaken
    BY <2>2, <2>4, VerzoekType DEF Aanvraag
  <2>6. resultaat' = resultaat /\ resultaat' = [resultaat EXCEPT ![q.zaak] = q.rt]
    BY <1>2, <2>5 DEF StatusWrite, TypeOK
  <2>7. CASE Taken(q)
    <3>1. UNCHANGED <<zaak, resultaat>>
      BY <1>2, <2>1, <2>7 DEF StatusWrite
    <3> QED BY <1>0, <2>3, <3>1, GoedBlijft, KlaarArchief
  <2>8. CASE ~Taken(q)
    <3>1. StoreStatus(q, q.rij)
      BY <1>2, <2>1, <2>5, <2>8 DEF StatusWrite
    <3>2. \A x \in Zaken : Goed(zaak[x], resultaat[x])'
      BY <1>0, <2>2, <2>4, <2>6, <3>1, StoreGoed
    <3> QED BY <2>3, <3>2, KlaarArchief
  <2> QED BY <2>7, <2>8
<1>3. ASSUME NEW r \in Requests, NEW z \in Zaken, NEW row \in Patched(z),
             PatchRead(r, z, row) \/ SamenRead(r, z, row)
      PROVE  ArchiefInv'
  <2>1. PICK fase \in {"zaak", "samen"} :
          req' = [req EXCEPT ![r] = [fase |-> fase, zaak |-> z, rij |-> row]]
    BY <1>3 DEF PatchRead, SamenRead
  <2>2. PICK q : q = [fase |-> fase, zaak |-> z, rij |-> row]
    OBVIOUS
  <2>3. q.fase \in {"zaak", "samen"} /\ q.zaak = z /\ q.rij = row
    BY <2>2
  <2>4. UNCHANGED <<zaak, resultaat>> /\ MayStart /\ req' = [req EXCEPT ![r] = q]
    BY <1>3, <2>1, <2>2 DEF PatchRead, SamenRead
  <2>5. req'[r] = q /\ \A x \in Requests : x # r => req'[x] = Idle
    BY <2>4, StartsAlone DEF TypeOK
  <2>6. Aanvraag(q)
    BY <2>3, PatchedZelfde DEF Aanvraag, ZetStatus
  <2> QED BY <2>4, <2>5, <2>6, BegonnenArchief
<1>4. ASSUME NEW r \in Requests, PatchCheck(r) PROVE ArchiefInv'
  <2>1. /\ req[r] \in [fase : {"zaak", "zaak_save", "samen"}, zaak : Zaken, rij : Row]
        /\ req[r].fase = "zaak" /\ UNCHANGED <<zaak, resultaat>>
    BY <1>4 DEF TypeOK, PatchCheck, Verzoek, Idle
  <2>2. \A x \in Requests : x # r => req'[x] = Idle
    BY <1>4, <2>1 DEF OneAtATime, MetRij, TypeOK, PatchCheck
  <2>3. PICK q : q = req'[r]
    OBVIOUS
  <2>4. \/ q = Idle
        \/ q.fase = "zaak_save" /\ q.zaak = req[r].zaak /\ q.rij = req[r].rij
    BY <1>4, <2>1, <2>3 DEF TypeOK, PatchCheck
  <2>5. Zelfde(req[r].rij, zaak[req[r].zaak])
    BY <2>1 DEF ArchiefInv, Aanvraag
  <2>6. Aanvraag(q)
    BY <2>4, <2>5, IdleAanvraag DEF Aanvraag, ZetStatus
  <2> QED BY <2>1, <2>2, <2>3, <2>6, BegonnenArchief
<1>5. ASSUME NEW r \in Requests, PatchWrite(r) PROVE ArchiefInv'
  <2>1. PICK q, z : q = req[r] /\ z = q.zaak
    OBVIOUS
  <2>2. q.fase = "zaak_save" /\ q # Idle /\ z \in Zaken /\ Zelfde(q.rij, zaak[z]) /\ req[r] = q
    BY <1>5, <2>1, VerzoekType DEF PatchWrite, MetRij, TypeOK, ArchiefInv, Aanvraag
  <2>3. \A x \in Requests : req'[x] = Idle
    BY <1>5, <2>2, EndsAlone DEF PatchWrite
  <2>4. Saved(z, q.rij) = q.rij /\ ~Again(z, q.rij)
    BY <2>2, SavedZelfde
  <2>5. zaak' = [zaak EXCEPT ![z] = q.rij] /\ resultaat' = resultaat
    BY <1>5, <2>1, <2>4 DEF PatchWrite, TypeOK
  <2>6. Goed(q.rij, resultaat[z])
    BY <1>0, <2>2, ZelfdeGoed
  <2>7. resultaat' = [resultaat EXCEPT ![z] = resultaat[z]]
    BY <2>5 DEF TypeOK
  <2>8. q.rij.einddatum = zaak[z].einddatum /\ q.rij.hoofdzaak = zaak[z].hoofdzaak
    BY <2>2 DEF Zelfde
  <2>9. \A x \in Zaken : Goed(zaak[x], resultaat[x])'
    BY <1>0, <2>2, <2>5, <2>6, <2>7, <2>8, EenRijGoed
  <2> QED BY <2>3, <2>9, KlaarArchief
<1>6. CASE Elders
  BY <1>6, EldersArchief
<1>7. ASSUME NEW r \in Requests, NEW rt \in Resultaattype \cup {None}, NEW datum \in Datum,
             NEW nacht \in Nachten, NEW eind \in BOOLEAN, SamenSave(r, rt, datum, nacht, eind)
      PROVE  ArchiefInv'
  <2>1. PICK p, z : p = req[r] /\ z = p.zaak
    OBVIOUS
  <2>2. /\ p.fase = "samen" /\ p.fase \in MetRij /\ z \in Zaken /\ p.rij \in Row
        /\ Zelfde(p.rij, zaak[z])
    BY <1>7, <2>1, VerzoekType DEF SamenSave, MetRij, TypeOK, ArchiefInv, Aanvraag
  <2>3. Saved(z, p.rij) = p.rij
    BY <2>2, SavedZelfde
  <2>4. PICK row : row = IF eind THEN TryArchive(z, p.rij, rt, FALSE) ELSE p.rij
    OBVIOUS
  <2>5. PICK q : q = MetStatus("samen_save", z, row, rt, datum, nacht, eind)
    OBVIOUS
  <2>6. /\ req' = [req EXCEPT ![r] = q] /\ UNCHANGED <<zaak, resultaat>>
        /\ IF eind THEN resultaat[z] = None ELSE rt = resultaat[z]
        /\ StatusReady(z, row, rt, datum, nacht, eind)
    BY <1>7, <2>1, <2>3, <2>4, <2>5 DEF SamenSave
  <2>7. Goed(p.rij, resultaat[z])
    BY <1>0, <2>2, ZelfdeGoed
  <2>8. Goed(row, rt) /\ row.einddatum = p.rij.einddatum /\ row.hoofdzaak = p.rij.hoofdzaak
    <3>1. CASE eind
      <4>1. rt \in Resultaattype /\ Goed(p.rij, None)
        BY <2>6, <2>7, <3>1 DEF StatusReady, ResultaatReady
      <4>2. Goed(row, rt)
        BY <2>2, <2>4, <3>1, <4>1, TryArchiveGoed
      <4>3. /\ TryArchive(z, p.rij, rt, FALSE).einddatum = p.rij.einddatum
            /\ TryArchive(z, p.rij, rt, FALSE).hoofdzaak = p.rij.hoofdzaak
        <5>1. z \in Zaken /\ p.rij \in Row /\ FALSE \in BOOLEAN
          BY <2>2
        <5> QED BY <5>1, TryArchiveType
      <4> QED BY <2>4, <3>1, <4>2, <4>3
    <3>2. CASE ~eind
      BY <2>4, <2>6, <2>7, <3>2
    <3> QED BY <3>1, <3>2
  <2>9. /\ q.fase = "samen_save" /\ q.zaak = z /\ q.rij = row /\ q.rt = rt
        /\ q.eind = eind /\ (~q.eind => q.bron = 0)
    BY <2>5 DEF MetStatus
  <2>10. Aanvraag(q)
    BY <2>2, <2>8, <2>9 DEF Aanvraag, Zelfde
  <2>11. req'[r] = q /\ \A x \in Requests : x # r => req'[x] = Idle
    BY <2>1, <2>2, <2>6 DEF OneAtATime, TypeOK
  <2> QED BY <2>6, <2>10, <2>11, BegonnenArchief
<1>8. ASSUME NEW r \in Requests, SamenWrite(r) PROVE ArchiefInv'
  <2>1. PICK q : q = req[r]
    OBVIOUS
  <2>2. q \in Verzoek /\ q.fase \in ZetStatus /\ q # Idle
    BY <1>8, <2>1 DEF SamenWrite, TypeOK, ZetStatus
  <2>3. \A x \in Requests : req'[x] = Idle
    BY <1>8, <2>1, <2>2, EndsAlone DEF SamenWrite
  <2>4. Aanvraag(q) /\ FoundFor(q)
    BY <2>1, <2>2 DEF ArchiefInv, Found
  <2>5. StoreStatus(q, q.rij) /\ resultaat' = [resultaat EXCEPT ![q.zaak] = q.rt]
    BY <1>8, <2>1 DEF SamenWrite
  <2>6. \A x \in Zaken : Goed(zaak[x], resultaat[x])'
    BY <1>0, <2>2, <2>4, <2>5, StoreGoed
  <2> QED BY <2>3, <2>6, KlaarArchief
<1>9. ASSUME NEW r \in Requests, SamenFails(r) PROVE ArchiefInv'
  <2>1. req[r] # Idle /\ UNCHANGED <<zaak, resultaat>>
    BY <1>9 DEF SamenFails, ZetStatus, MetRij
  <2>2. \A x \in Requests : req'[x] = Idle
    BY <1>9, <2>1, EndsAlone DEF SamenFails
  <2> QED BY <1>0, <2>1, <2>2, GoedBlijft, KlaarArchief
<1> QED BY <1>1, <1>2, <1>3, <1>4, <1>5, <1>6, <1>7, <1>8, <1>9, Steps

LEMMA InitArchief ==
  ASSUME Init
  PROVE  ArchiefInv
<1>1. ASSUME NEW x \in Zaken PROVE Goed(zaak[x], resultaat[x])
  <2>1. zaak[x].startdatum = 0 /\ zaak[x].actiedatum = 0
    BY DEF Init
  <2> QED BY <2>1 DEF Goed, Passend, Leeg
<1>2. \A r \in Requests : Aanvraag(req[r])
  BY DEF Init, Aanvraag, Idle, ZetStatus
<1> QED BY <1>1, <1>2 DEF ArchiefInv

LEMMA GoedVolgt == ArchiefInv => ArchivingFollows
BY DEF ArchiefInv, Goed, Passend, Leeg, Onbeslist, ArchivingFollows, OpenNotArchived, ArchiveMatches,
       IsClosed, FollowsHoofdzaak

\* Requests that follow each other, with statuses in the order of their dates, leave no
\* archiving on a zaak that is open or that waits for its hoofdzaak, and give a closed zaak
\* the archiving of its result; not when clients write archiving dates themselves or move a
\* result to another zaak.
THEOREM ArchiveringVolgt ==
  ASSUME ~Gelijktijdig, Chronologisch, "hoofdzaak" \notin Ops, "handmatig" \notin Ops,
         "verplaats" \notin Ops
  PROVE  Spec => []ArchivingFollows
<1>1. Init => OneAtATime /\ EindstatusCloses
  BY DEF Init, OneAtATime, EindstatusCloses, Idle, IsClosed, AtEindstatus, ZetStatus, MetRij
<1>2. Init => Found /\ DeelzakenClosed /\ ArchiefInv
  BY InitArchief DEF Init, Found, DeelzakenClosed, IsClosed, Idle, ZetStatus, MetRij
<1>3. TypeOK /\ OneAtATime /\ EindstatusCloses /\ [Next]_vars => OneAtATime' /\ EindstatusCloses'
  BY SerialStep
<1>4. /\ TypeOK /\ OneAtATime /\ EindstatusCloses /\ Found /\ DeelzakenClosed /\ [Next]_vars
      => Found' /\ DeelzakenClosed'
  BY FamilyStep
<1>5. /\ TypeOK /\ OneAtATime /\ EindstatusCloses /\ Found /\ ArchiefInv /\ [Next]_vars
      => ArchiefInv'
  BY ArchiefStap
<1>6. ArchiefInv => ArchivingFollows
  BY GoedVolgt
<1> QED BY <1>1, <1>2, <1>3, <1>4, <1>5, <1>6, TypeCorrect, PTL DEF Spec

-----------------------------------------------------------------------------
(* The documents of a zaak that is being closed.  Statuses may be given in *)
(* any order here.                                                         *)

\* The one request read the einddatum that is there, and found the documents ready.
Gereed ==
  /\ \A r, q \in Requests : req[r] # Idle /\ req[q] # Idle => r = q
  /\ \A r \in Requests :
       /\ req[r].fase \in MetRij => req[r].rij.einddatum = zaak[req[r].zaak].einddatum
       /\ req[r].fase \in ZetStatus /\ req[r].eind => DocumentsReady(req[r].zaak)

\* What a step may do to a zaak that is open.
SluitGereed ==
  \A z \in Zaken : ~IsClosed(z) /\ IsClosed(z)' =>
    \A d \in zios'[z] : ~docs'[d].locked /\ docs'[d].indicatie

LEMMA NietsGesloten ==
  ASSUME \A x \in Zaken : zaak'[x].einddatum = zaak[x].einddatum
  PROVE  SluitGereed
BY DEF SluitGereed, IsClosed

\* A request that starts or goes on.
LEMMA BegonnenGereed ==
  ASSUME NEW r \in Requests, NEW q, req'[r] = q, \A x \in Requests : x # r => req'[x] = Idle,
         UNCHANGED <<zaak, docs, zios>>,
         q.fase \in MetRij => q.rij.einddatum = zaak[q.zaak].einddatum,
         q.fase \in ZetStatus /\ q.eind => DocumentsReady(q.zaak)
  PROVE  Gereed' /\ SluitGereed
<1>1. SluitGereed
  BY NietsGesloten
<1>2. \A x \in Requests : x # r => req'[x].fase \notin ZetStatus \cup MetRij
  BY DEF Idle, ZetStatus, MetRij
<1>3. Gereed'
  BY <1>2 DEF Gereed, DocumentsReady
<1> QED BY <1>1, <1>3

\* A request that ends.
LEMMA KlaarGereed ==
  ASSUME Gereed, TypeOK, NEW r \in Requests, req[r] # Idle, req' = [req EXCEPT ![r] = Idle]
  PROVE  Gereed'
<1>1. \A x \in Requests : req'[x] = Idle
  BY DEF Gereed, TypeOK
<1> QED BY <1>1 DEF Gereed, Idle, ZetStatus, MetRij

\* A status that is stored closes no other zaak than its own.
LEMMA StatusSluit ==
  ASSUME TypeOK, Gereed, NEW r \in Requests, req[r].fase \in ZetStatus, UNCHANGED <<docs, zios>>,
         \A x \in Zaken :
           zaak'[x].einddatum = IF x = req[r].zaak THEN Einddatum(req[r]) ELSE zaak[x].einddatum
  PROVE  SluitGereed
<1>1. req[r].eind => DocumentsReady(req[r].zaak)
  BY DEF Gereed
<1> QED BY <1>1 DEF SluitGereed, IsClosed, Einddatum, DocumentsReady

\* Documents change when no request is under way.
LEMMA EldersGereed ==
  ASSUME ~Gelijktijdig, TypeOK, Gereed, Elders
  PROVE  Gereed' /\ SluitGereed
<1>1. /\ UNCHANGED <<statussen, req>>
      /\ \A x \in Zaken : zaak'[x].einddatum = zaak[x].einddatum
  BY EldersType
<1>2. UNCHANGED <<docs, zios>> \/ MayStart
  BY DEF Elders, KenmerkStap, ResultaatCreate, ResultaatUpdate, ResultaatDelete, EigenschapSave, ObjectSave,
         KenmerkDelete, BesluitSave, BesluitDelete, Relate, DocumentChange
<1>3. \A r \in Requests : req[r].fase \in MetRij => req[r].zaak \in Zaken
  BY VerzoekType DEF TypeOK
<1>4. ASSUME UNCHANGED <<docs, zios>> PROVE Gereed'
  <2>1. \A z : DocumentsReady(z)' = DocumentsReady(z)
    BY <1>4 DEF DocumentsReady
  <2>2. \A r, q \in Requests : req'[r] # Idle /\ req'[q] # Idle => r = q
    BY <1>1 DEF Gereed
  <2>3. ASSUME NEW r \in Requests, req'[r].fase \in MetRij
        PROVE  req'[r].rij.einddatum = zaak'[req'[r].zaak].einddatum
    BY <1>1, <1>3, <2>3 DEF Gereed
  <2>4. ASSUME NEW r \in Requests, req'[r].fase \in ZetStatus, req'[r].eind
        PROVE  DocumentsReady(req[r].zaak)'
    BY <1>1, <2>1, <2>4 DEF Gereed
  <2> QED BY <1>1, <2>2, <2>3, <2>4 DEF Gereed, DocumentsReady
<1>5. ASSUME MayStart PROVE Gereed'
  <2>1. \A r \in Requests : req'[r] = Idle
    BY <1>1, <1>5 DEF MayStart
  <2>2. \A r \in Requests : req'[r].fase \notin ZetStatus \cup MetRij
    BY <2>1, NotIdle
  <2> QED BY <2>1, <2>2 DEF Gereed
<1>6. Gereed'
  BY <1>2, <1>4, <1>5
<1> QED BY <1>1, <1>6, NietsGesloten

LEMMA GereedStap ==
  ASSUME ~Gelijktijdig, TypeOK, Gereed, [Next]_vars
  PROVE  Gereed' /\ SluitGereed
<1> USE NotIdle
<1>1. ASSUME NEW r \in Requests, NEW z \in Zaken, NEW datum \in Datum, NEW nacht \in Nachten,
             NEW eind \in BOOLEAN, StatusRead(r, z, datum, nacht, eind)
      PROVE  Gereed' /\ SluitGereed
  <2>1. PICK q : q = MetStatus("status", z, zaak[z], resultaat[z], datum, nacht, eind)
    OBVIOUS
  <2>2. q.fase = "status" /\ q.zaak = z /\ q.eind = eind
    BY <2>1 DEF MetStatus
  <2>3. /\ UNCHANGED <<zaak, docs, zios>> /\ MayStart /\ req' = [req EXCEPT ![r] = q]
        /\ eind => DocumentsReady(z)
    BY <1>1, <2>1 DEF StatusRead, StatusReady
  <2>4. req'[r] = q /\ \A x \in Requests : x # r => req'[x] = Idle
    BY <2>3, StartsAlone DEF TypeOK
  <2>5. q.fase \notin MetRij
    BY <2>2 DEF MetRij
  <2> QED BY <2>2, <2>3, <2>4, <2>5, BegonnenGereed
<1>2. ASSUME NEW r \in Requests, StatusWrite(r) PROVE Gereed' /\ SluitGereed
  <2>1. req[r].fase \in ZetStatus /\ req[r] # Idle /\ UNCHANGED <<docs, zios>>
    BY <1>2 DEF StatusWrite, ZetStatus
  <2>2. Gereed'
    BY <1>2, <2>1, KlaarGereed DEF StatusWrite
  <2>3. CASE Taken(req[r])
    <3>1. UNCHANGED zaak
      BY <1>2, <2>3 DEF StatusWrite
    <3> QED BY <2>2, <3>1, NietsGesloten
  <2>4. CASE ~Taken(req[r])
    BY <1>2, <2>1, <2>2, <2>4, StatusWriteRows, StatusSluit
  <2> QED BY <2>3, <2>4
<1>3. ASSUME NEW r \in Requests, NEW z \in Zaken, NEW row \in Patched(z),
             PatchRead(r, z, row) \/ SamenRead(r, z, row)
      PROVE  Gereed' /\ SluitGereed
  <2>1. PICK fase \in {"zaak", "samen"} :
          req' = [req EXCEPT ![r] = [fase |-> fase, zaak |-> z, rij |-> row]]
    BY <1>3 DEF PatchRead, SamenRead
  <2>2. PICK q : q = [fase |-> fase, zaak |-> z, rij |-> row]
    OBVIOUS
  <2>3. q.fase \notin ZetStatus /\ q.zaak = z /\ q.rij = row
    BY <2>2 DEF ZetStatus
  <2>4. UNCHANGED <<zaak, docs, zios>> /\ MayStart /\ req' = [req EXCEPT ![r] = q]
    BY <1>3, <2>1, <2>2 DEF PatchRead, SamenRead
  <2>5. req'[r] = q /\ \A x \in Requests : x # r => req'[x] = Idle
    BY <2>4, StartsAlone DEF TypeOK
  <2>6. row.einddatum = zaak[z].einddatum
    BY PatchedType
  <2> QED BY <2>3, <2>4, <2>5, <2>6, BegonnenGereed
<1>4. ASSUME NEW r \in Requests, PatchCheck(r) PROVE Gereed' /\ SluitGereed
  <2>1. /\ req[r] \in [fase : {"zaak", "zaak_save", "samen"}, zaak : Zaken, rij : Row]
        /\ req[r].fase = "zaak" /\ UNCHANGED <<zaak, docs, zios>>
    BY <1>4 DEF TypeOK, PatchCheck, Verzoek, Idle
  <2>2. \A x \in Requests : x # r => req'[x] = Idle
    BY <1>4, <2>1 DEF Gereed, MetRij, TypeOK, PatchCheck
  <2>3. PICK q : q = req'[r]
    OBVIOUS
  <2>4. \/ q = Idle
        \/ q.fase = "zaak_save" /\ q.zaak = req[r].zaak /\ q.rij = req[r].rij
    BY <1>4, <2>1, <2>3 DEF TypeOK, PatchCheck
  <2>5. req[r].rij.einddatum = zaak[req[r].zaak].einddatum
    BY <2>1 DEF Gereed, MetRij
  <2>6. /\ q.fase \in MetRij => q.rij.einddatum = zaak[q.zaak].einddatum
        /\ q.fase \notin ZetStatus
    BY <2>4, <2>5 DEF Idle, ZetStatus, MetRij
  <2> QED BY <2>1, <2>2, <2>3, <2>6, BegonnenGereed
<1>5. ASSUME NEW r \in Requests, PatchWrite(r) PROVE Gereed' /\ SluitGereed
  <2>1. req[r].fase \in MetRij /\ req[r] # Idle /\ UNCHANGED <<docs, zios>>
    BY <1>5 DEF PatchWrite, MetRij
  <2>2. Gereed'
    BY <1>5, <2>1, KlaarGereed DEF PatchWrite
  <2>3. \A x \in Zaken : zaak'[x].einddatum = zaak[x].einddatum
    BY <1>5, <2>1, PatchWriteRows DEF Gereed
  <2> QED BY <2>2, <2>3, NietsGesloten
<1>6. CASE Elders
  BY <1>6, EldersGereed
<1>7. ASSUME NEW r \in Requests, NEW rt \in Resultaattype \cup {None}, NEW datum \in Datum,
             NEW nacht \in Nachten, NEW eind \in BOOLEAN, SamenSave(r, rt, datum, nacht, eind)
      PROVE  Gereed' /\ SluitGereed
  <2>1. PICK q \in Verzoek :
          /\ req' = [req EXCEPT ![r] = q]
          /\ q.fase = "samen_save" /\ q.zaak = req[r].zaak /\ q.eind = eind
          /\ q.rij.einddatum = req[r].rij.einddatum
          /\ StatusReady(q.zaak, q.rij, q.rt, datum, nacht, eind)
    BY <1>7, SamenSaveType
  <2>2. req[r].fase \in MetRij /\ req[r] # Idle /\ UNCHANGED <<zaak, docs, zios>>
    BY <1>7 DEF SamenSave, MetRij
  <2>3. req'[r] = q /\ \A x \in Requests : x # r => req'[x] = Idle
    BY <2>1, <2>2 DEF Gereed, TypeOK
  <2>4. q.rij.einddatum = zaak[q.zaak].einddatum
    BY <2>1, <2>2 DEF Gereed
  <2>5. q.eind => DocumentsReady(q.zaak)
    BY <2>1 DEF StatusReady
  <2> QED BY <2>2, <2>3, <2>4, <2>5, BegonnenGereed
<1>8. ASSUME NEW r \in Requests, SamenWrite(r) PROVE Gereed' /\ SluitGereed
  <2>1. req[r].fase \in ZetStatus /\ req[r] # Idle /\ UNCHANGED <<docs, zios>>
    BY <1>8 DEF SamenWrite, ZetStatus
  <2>2. Gereed'
    BY <1>8, <2>1, KlaarGereed DEF SamenWrite
  <2> QED BY <1>8, <2>1, <2>2, SamenWriteRows, StatusSluit
<1>9. ASSUME NEW r \in Requests, SamenFails(r) PROVE Gereed' /\ SluitGereed
  <2>1. req[r] # Idle /\ UNCHANGED zaak
    BY <1>9 DEF SamenFails, ZetStatus, MetRij
  <2> QED BY <1>9, <2>1, KlaarGereed, NietsGesloten DEF SamenFails
<1> QED BY <1>1, <1>2, <1>3, <1>4, <1>5, <1>6, <1>7, <1>8, <1>9, Steps

\* Requests that follow each other close a zaak only when its documents are unlocked and say
\* whether there are usage rights, by a status alone or by a combined endpoint, whatever is
\* related, locked and changed in between.
THEOREM SluitMetDocumenten ==
  ASSUME ~Gelijktijdig
  PROVE  Spec => ClosesWithDocumentsReady
<1>1. Init => Gereed
  BY DEF Init, Gereed, Idle, ZetStatus, MetRij
<1>2. TypeOK /\ Gereed /\ [Next]_vars => Gereed' /\ SluitGereed
  BY GereedStap
<1>3. Spec => [][SluitGereed]_vars
  BY <1>1, <1>2, TypeCorrect, PTL DEF Spec
<1> QED BY <1>3 DEF ClosesWithDocumentsReady, SluitGereed

-----------------------------------------------------------------------------
(* What a closed zaak is archived from: a date of its own.                 *)

\* This start is the date that this way of archiving finds here.
StartVan(start, rt, k) ==
  /\ rt.wijze = "eigenschap" /\ k.eigenschap \in Datum => start = k.eigenschap
  /\ rt.wijze = "zaakobject" /\ k.object \in Datum => start = k.object
  /\ rt.wijze = "ingangsdatum_besluit" /\ k.ingang # 0 => start = k.ingang
  /\ rt.wijze = "vervaldatum_besluit" /\ k.ingang # 0 => start = k.verval

VanKenmerk(row, rt, k) ==
  row.einddatum # 0 /\ rt # None /\ rt.termijn # 0 => StartVan(row.startdatum, rt, k)

\* Also of the rows and results that requests are going to store.
KenmerkInv ==
  /\ \A z \in Zaken : VanKenmerk(zaak[z], resultaat[z], kenmerk[z])
  /\ \A r \in Requests : req[r].fase \in ZetStatus =>
       VanKenmerk(req[r].rij, req[r].rt, kenmerk[req[r].zaak])

LEMMA ArchivedStart ==
  ASSUME NEW row \in Row, NEW rt \in Resultaattype, NEW bron \in Bron
  PROVE  Archived(row, rt, bron).startdatum = IF bron = 0 \/ bron = Fout THEN row.startdatum ELSE bron
<1>1. CASE bron = Fout
  BY <1>1 DEF Archived
<1>2. CASE bron = 0
  <2>1. PICK s : s = [row EXCEPT !.nominatie = rt.nominatie]
    OBVIOUS
  <2>2. s.startdatum = row.startdatum
    BY <2>1 DEF Row
  <2> QED BY <1>2, <2>1, <2>2 DEF Archived, Fout
<1>3. CASE bron # 0 /\ bron # Fout
  <2>1. PICK s : s = [row EXCEPT !.nominatie = rt.nominatie, !.startdatum = bron,
                                 !.actiedatum = bron + rt.termijn]
    OBVIOUS
  <2>2. s.startdatum = bron
    BY <2>1 DEF Row
  <2> QED BY <1>3, <2>1, <2>2 DEF Archived
<1> QED BY <1>1, <1>2, <1>3

\* The dates of its own that a zaak is archived from.
LEMMA BrondatumVan ==
  ASSUME TypeOK, NEW z \in Zaken, NEW row, NEW rt, NEW datum, NEW b,
         b = GetBrondatum(z, row, rt, datum)
  PROVE  /\ rt.wijze = "eigenschap" => b = kenmerk[z].eigenschap
         /\ rt.wijze = "zaakobject" => b = kenmerk[z].object
         /\ rt.wijze = "ingangsdatum_besluit" /\ kenmerk[z].ingang # 0 => b = kenmerk[z].ingang
         /\ rt.wijze = "vervaldatum_besluit" => b = kenmerk[z].verval
<1>1. rt.wijze = "eigenschap" => b = kenmerk[z].eigenschap
  BY DEF GetBrondatum
<1>2. rt.wijze = "zaakobject" => b = kenmerk[z].object
  BY DEF GetBrondatum
<1>3. rt.wijze = "ingangsdatum_besluit" /\ kenmerk[z].ingang # 0 => b = kenmerk[z].ingang
  BY DEF GetBrondatum
<1>4. rt.wijze = "vervaldatum_besluit" => b = kenmerk[z].verval
  BY DEF GetBrondatum
<1> QED BY <1>1, <1>2, <1>3, <1>4

\* The date that is calculated for a row without one, or with the right one.
LEMMA BerekendVan ==
  ASSUME TypeOK, NEW z \in Zaken, NEW row \in Row, NEW rt \in Resultaattype, rt.termijn # 0,
         NEW datum \in Datum, row.startdatum = 0 \/ StartVan(row.startdatum, rt, kenmerk[z]),
         NEW s \in Row, s.startdatum = row.startdatum,
         NEW c, c = Calculate(z, row, rt, datum, FALSE)
  PROVE  StartVan(Archived(s, rt, c).startdatum, rt, kenmerk[z])
<1>1. c \in Bron /\ row.startdatum \in Nat
  BY CalculateType DEF Row
<1>2. PICK d : d = Archived(s, rt, c).startdatum /\ d = IF c = 0 \/ c = Fout THEN row.startdatum ELSE c
  BY <1>1, ArchivedStart, ZenonT(50)
<1>3. CASE row.startdatum # 0
  <2>1. c = row.startdatum /\ StartVan(row.startdatum, rt, kenmerk[z])
    BY <1>3 DEF Calculate
  <2>2. d = row.startdatum
    BY <1>2, <2>1
  <2> QED BY <1>2, <2>1, <2>2
<1>4. CASE row.startdatum = 0
  <2>1. c = GetBrondatum(z, row, rt, datum)
    BY <1>4 DEF Calculate
  <2>2. PICK k : k = kenmerk[z] /\ k \in KenmerkRow
    BY DEF TypeOK
  <2>3. /\ rt.wijze = "eigenschap" => c = k.eigenschap
        /\ rt.wijze = "zaakobject" => c = k.object
        /\ rt.wijze = "ingangsdatum_besluit" /\ k.ingang # 0 => c = k.ingang
        /\ rt.wijze = "vervaldatum_besluit" => c = k.verval
    <3>1. /\ rt.wijze = "eigenschap" => c = kenmerk[z].eigenschap
          /\ rt.wijze = "zaakobject" => c = kenmerk[z].object
          /\ rt.wijze = "ingangsdatum_besluit" /\ kenmerk[z].ingang # 0 => c = kenmerk[z].ingang
          /\ rt.wijze = "vervaldatum_besluit" => c = kenmerk[z].verval
      BY <2>1, BrondatumVan
    <3> QED BY <2>2, <3>1
  <2>4. k.ingang \in Datum \cup {0} /\ k.verval \in Datum \cup {0}
    BY <2>2 DEF KenmerkRow
  <2>5. StartVan(d, rt, k)
    <3>1. \A n \in Datum : n # 0 /\ n # Fout
      BY AfhandelingAssumption DEF Datum, Fout
    <3> QED BY <1>2, <1>4, <2>3, <2>4, <3>1 DEF StartVan, Fout
  <2> QED BY <1>2, <2>2, <2>5
<1> QED BY <1>3, <1>4

\* The row of a zaak after its status.
LEMMA AfterStatusVan ==
  ASSUME TypeOK, NEW q \in Verzoek, q.fase \in ZetStatus, Aanvraag(q),
         VanKenmerk(q.rij, q.rt, kenmerk[q.zaak])
  PROVE  VanKenmerk(AfterStatus(q, q.rij), q.rt, kenmerk[q.zaak])
<1>1. /\ q.zaak \in Zaken /\ q.datum \in Datum /\ q.utc \in Datum /\ q.eind \in BOOLEAN
      /\ q.rij \in Row /\ q.rt \in Resultaattype \cup {None}
  BY VerzoekType
<1>2. PICK s : s = AfterStatus(q, q.rij)
  OBVIOUS
<1>3. s.einddatum = Einddatum(q)
  BY <1>1, <1>2, AfterStatusType
<1>4. CASE FollowsHoofdzaak(q.rij, q.rt)
  BY <1>2, <1>4 DEF FollowsHoofdzaak, VanKenmerk, StartVan
<1>5. CASE q.rt = None \/ ~q.eind \/ q.rt.termijn = 0
  BY <1>2, <1>3, <1>5 DEF VanKenmerk, Einddatum
<1>6. CASE ~FollowsHoofdzaak(q.rij, q.rt) /\ q.rt # None /\ q.eind /\ q.rt.termijn # 0
  <2>1. PICK row : row = [q.rij EXCEPT !.einddatum = Einddatum(q)]
    OBVIOUS
  <2>2. Einddatum(q) \in Datum \cup {0}
    BY <1>1 DEF Einddatum
  <2>3. row \in Row /\ row.startdatum = q.rij.startdatum
    BY <1>1, <2>1, <2>2 DEF Row
  <2>4. PICK c : c = Calculate(q.zaak, q.rij, q.rt, q.utc, FALSE)
    OBVIOUS
  <2>5. s = Archived(row, q.rt, c)
    BY <1>2, <1>6, <2>1, <2>4 DEF AfterStatus
  <2>6. q.rij.startdatum = 0 \/ StartVan(q.rij.startdatum, q.rt, kenmerk[q.zaak])
    <3>1. Goed(q.rij, q.rt)
      BY DEF Aanvraag
    <3> QED BY <1>6, <3>1 DEF Goed, Onbeslist, Leeg, VanKenmerk
  <2>7. StartVan(s.startdatum, q.rt, kenmerk[q.zaak])
    BY <1>1, <1>6, <2>3, <2>4, <2>5, <2>6, BerekendVan
  <2> QED BY <1>2, <2>7 DEF VanKenmerk
<1> QED BY <1>4, <1>5, <1>6

LEMMA StoreVan ==
  ASSUME TypeOK, \A x \in Zaken : VanKenmerk(zaak[x], resultaat[x], kenmerk[x]),
         NEW q \in Verzoek, q.fase \in ZetStatus, Aanvraag(q),
         VanKenmerk(q.rij, q.rt, kenmerk[q.zaak]), StoreStatus(q, q.rij),
         resultaat' = [resultaat EXCEPT ![q.zaak] = q.rt], UNCHANGED kenmerk
  PROVE  \A x \in Zaken : VanKenmerk(zaak[x], resultaat[x], kenmerk[x])'
<1>1. /\ q.zaak \in Zaken /\ q.eind \in BOOLEAN /\ q.bron \in Nat
      /\ q.rij \in Row /\ q.rt \in Resultaattype \cup {None}
  BY VerzoekType
<1>2. ASSUME NEW x \in Zaken, x = q.zaak PROVE VanKenmerk(zaak[x], resultaat[x], kenmerk[x])'
  <2>1. zaak'[x] = AfterStatus(q, q.rij) /\ resultaat'[x] = q.rt /\ kenmerk' = kenmerk
    BY <1>2 DEF StoreStatus, TypeOK
  <2> QED BY <1>2, <2>1, AfterStatusVan
<1>3. ASSUME NEW x \in Zaken, x # q.zaak PROVE VanKenmerk(zaak[x], resultaat[x], kenmerk[x])'
  <2>1. resultaat'[x] = resultaat[x] /\ kenmerk' = kenmerk
    BY <1>3 DEF TypeOK
  <2>2. zaak'[x] = zaak[x] \/ FollowsHoofdzaak(zaak[x], resultaat[x])
    BY <1>3 DEF StoreStatus
  <2> QED BY <1>3, <2>1, <2>2 DEF FollowsHoofdzaak, VanKenmerk, StartVan
<1> QED BY <1>2, <1>3

\* A request that starts or goes on, and requests that are done.
LEMMA BegonnenVan ==
  ASSUME KenmerkInv, UNCHANGED <<zaak, resultaat, kenmerk>>, NEW r \in Requests, NEW q,
         q.fase \in ZetStatus => VanKenmerk(q.rij, q.rt, kenmerk[q.zaak]),
         req'[r] = q, \A x \in Requests : x # r => req'[x] = Idle
  PROVE  KenmerkInv'
<1>1. \A x \in Zaken : VanKenmerk(zaak'[x], resultaat'[x], kenmerk'[x])
  BY DEF KenmerkInv
<1>2. ASSUME NEW x \in Requests, req'[x].fase \in ZetStatus
      PROVE  VanKenmerk(req'[x].rij, req'[x].rt, kenmerk'[req'[x].zaak])
  <2>1. req'[x] = q
    BY <1>2 DEF Idle, ZetStatus
  <2> QED BY <1>2, <2>1
<1> QED BY <1>1, <1>2 DEF KenmerkInv

LEMMA KlaarVan ==
  ASSUME \A x \in Requests : req'[x] = Idle,
         \A x \in Zaken : VanKenmerk(zaak[x], resultaat[x], kenmerk[x])'
  PROVE  KenmerkInv'
<1>1. \A x \in Requests : req'[x].fase \notin ZetStatus
  BY DEF Idle, ZetStatus
<1> QED BY <1>1 DEF KenmerkInv

\* A date of a zaak that archiving may start from changes.
LEMMA RecalculatedVan ==
  ASSUME TypeOK, NEW z \in Zaken, NEW wijze, NEW datum \in Datum \cup {0, Fout}, NEW k,
         VanKenmerk(zaak[z], resultaat[z], kenmerk[z]),
         \A rt \in Resultaattype :
           /\ rt.wijze # wijze /\ StartVan(zaak[z].startdatum, rt, kenmerk[z])
                => StartVan(zaak[z].startdatum, rt, k)
           /\ rt.wijze = wijze => \A start \in Nat :
                /\ (datum \in Datum => start = datum) => StartVan(start, rt, k)
  PROVE  VanKenmerk(Recalculated(z, wijze, datum), resultaat[z], k)
<1>1. PICK rt, row : rt = resultaat[z] /\ row = zaak[z]
  OBVIOUS
<1>2. row \in Row /\ rt \in Resultaattype \cup {None}
  BY <1>1 DEF TypeOK
<1>3. CASE rt = None \/ row.einddatum = 0
  BY <1>1, <1>3 DEF Recalculated, IsClosed, VanKenmerk
<1>4. CASE rt # None /\ row.einddatum # 0 /\ rt.wijze # wijze
  <2>1. Recalculated(z, wijze, datum) = row
    BY <1>1, <1>4 DEF Recalculated
  <2> QED BY <1>1, <1>2, <1>4, <2>1 DEF VanKenmerk
<1>5. CASE rt # None /\ row.einddatum # 0 /\ rt.wijze = wijze
  <2>1. PICK bron : bron = IF rt.termijn = 0 THEN 0 ELSE datum
    OBVIOUS
  <2>2. Recalculated(z, wijze, datum) = Archived(row, rt, bron)
    BY <1>1, <1>5, <2>1 DEF Recalculated, IsClosed
  <2>3. bron \in Bron
    BY <2>1 DEF Bron, Datum
  <2>4. PICK d : /\ d = Archived(row, rt, bron).startdatum
                 /\ d = IF bron = 0 \/ bron = Fout THEN row.startdatum ELSE bron
    BY <1>2, <1>5, <2>3, ArchivedStart
  <2>5. d \in Nat
    BY <1>2, <2>3, <2>4 DEF Bron, Row
  <2>6. rt.termijn # 0 /\ datum \in Datum => d = datum
    BY <2>1, <2>4 DEF Datum, Fout
  <2>7. rt.termijn # 0 => StartVan(d, rt, k)
    BY <1>2, <1>5, <2>5, <2>6
  <2> QED BY <1>1, <2>2, <2>4, <2>7 DEF VanKenmerk
<1> QED BY <1>3, <1>4, <1>5

\* The steps that change one row and no status.
LEMMA EldersVan ==
  ASSUME ~Gelijktijdig, "verplaats" \notin Ops, TypeOK, ArchiefInv, KenmerkInv, Elders
  PROVE  KenmerkInv'
<1>1. \A x \in Zaken : /\ VanKenmerk(zaak[x], resultaat[x], kenmerk[x])
                       /\ Goed(zaak[x], resultaat[x]) /\ zaak[x] \in Row /\ kenmerk[x] \in KenmerkRow
  BY DEF KenmerkInv, ArchiefInv, TypeOK
<1>2. ASSUME NEW z \in Zaken, NEW row, NEW rt, NEW k, VanKenmerk(row, rt, k), MayStart, req' = req,
             zaak' = [zaak EXCEPT ![z] = row], resultaat' = [resultaat EXCEPT ![z] = rt],
             kenmerk' = [kenmerk EXCEPT ![z] = k]
      PROVE  KenmerkInv'
  <2>1. \A x \in Requests : req'[x] = Idle
    BY <1>2 DEF MayStart
  <2>2. ASSUME NEW x \in Zaken PROVE VanKenmerk(zaak[x], resultaat[x], kenmerk[x])'
    <3>1. CASE x = z
      <4>1. zaak'[x] = row /\ resultaat'[x] = rt /\ kenmerk'[x] = k
        BY <1>2, <3>1 DEF TypeOK
      <4> QED BY <1>2, <4>1
    <3>2. CASE x # z
      <4>1. zaak'[x] = zaak[x] /\ resultaat'[x] = resultaat[x] /\ kenmerk'[x] = kenmerk[x]
        BY <1>2, <3>2 DEF TypeOK
      <4> QED BY <1>1, <4>1
    <3> QED BY <3>1, <3>2
  <2> QED BY <2>1, <2>2, KlaarVan
<1>3. ASSUME NEW z \in Zaken, NEW rt \in Resultaattype, ResultaatCreate(z, rt) PROVE KenmerkInv'
  <2>1. PICK row, oud : row = TryArchive(z, oud, rt, FALSE) /\ oud = zaak[z]
    OBVIOUS
  <2>2. Leeg(oud) /\ oud \in Row
    BY <1>1, <1>3, <2>1 DEF ResultaatCreate, Goed, Onbeslist
  <2>3. VanKenmerk(row, rt, kenmerk[z])
    <3>1. CASE oud.einddatum = 0 \/ rt = None
      BY <2>1, <3>1 DEF TryArchive, VanKenmerk
    <3>2. CASE oud.einddatum # 0 /\ rt # None
      <4>1. PICK c : c = Calculate(z, oud, rt, oud.einddatum, FALSE)
        OBVIOUS
      <4>2. row = Archived(oud, rt, c)
        BY <2>1, <3>2, <4>1 DEF TryArchive
      <4>3. rt.termijn # 0 => StartVan(row.startdatum, rt, kenmerk[z])
        <5>1. oud.einddatum \in Datum /\ oud.startdatum = 0
          BY <2>2, <3>2 DEF Row, Leeg
        <5> QED BY <2>2, <4>1, <4>2, <5>1, BerekendVan
      <4> QED BY <4>3 DEF VanKenmerk
    <3> QED BY <3>1, <3>2
  <2>4. /\ MayStart /\ req' = req /\ zaak' = [zaak EXCEPT ![z] = row]
        /\ resultaat' = [resultaat EXCEPT ![z] = rt] /\ kenmerk' = [kenmerk EXCEPT ![z] = kenmerk[z]]
    BY <1>3, <2>1 DEF ResultaatCreate, TypeOK
  <2> QED BY <1>2, <2>3, <2>4
<1>4. ASSUME NEW z \in Zaken, ResultaatDelete(z) PROVE KenmerkInv'
  <2>1. PICK row : row = [zaak[z] EXCEPT !.startdatum = 0, !.actiedatum = 0]
    OBVIOUS
  <2>2. VanKenmerk(row, None, kenmerk[z])
    BY DEF VanKenmerk
  <2>3. /\ MayStart /\ req' = req /\ zaak' = [zaak EXCEPT ![z] = row]
        /\ resultaat' = [resultaat EXCEPT ![z] = None] /\ kenmerk' = [kenmerk EXCEPT ![z] = kenmerk[z]]
    BY <1>4, <2>1 DEF ResultaatDelete, TypeOK
  <2> QED BY <1>2, <2>2, <2>3
<1>5. ASSUME NEW z \in Zaken, NEW row, NEW k, VanKenmerk(row, resultaat[z], k), MayStart,
             zaak' = [zaak EXCEPT ![z] = row], kenmerk' = [kenmerk EXCEPT ![z] = k],
             UNCHANGED <<resultaat, req>>
      PROVE  KenmerkInv'
  <2>1. resultaat' = [resultaat EXCEPT ![z] = resultaat[z]]
    BY <1>5 DEF TypeOK
  <2> QED BY <1>2, <1>5, <2>1
<1>6. ASSUME NEW z \in Zaken, NEW datum \in Datum \cup {Fout}, EigenschapSave(z, datum)
      PROVE  KenmerkInv'
  <2>1. PICK row, k : /\ row = Recalculated(z, "eigenschap", datum)
                      /\ k = [kenmerk[z] EXCEPT !.eigenschap = datum]
    OBVIOUS
  <2>2. /\ k.eigenschap = datum /\ k.object = kenmerk[z].object /\ k.ingang = kenmerk[z].ingang
        /\ k.verval = kenmerk[z].verval
    BY <1>1, <2>1 DEF KenmerkRow
  <2>3. VanKenmerk(row, resultaat[z], k)
    BY <1>1, <2>1, <2>2, RecalculatedVan DEF StartVan
  <2> QED BY <1>5, <1>6, <2>1, <2>3 DEF EigenschapSave
<1>7. ASSUME NEW z \in Zaken, NEW datum \in Datum \cup {Fout}, ObjectSave(z, datum)
      PROVE  KenmerkInv'
  <2>1. PICK row, k : /\ row = Recalculated(z, "zaakobject", datum)
                      /\ k = [kenmerk[z] EXCEPT !.object = datum]
    OBVIOUS
  <2>2. /\ k.object = datum /\ k.eigenschap = kenmerk[z].eigenschap /\ k.ingang = kenmerk[z].ingang
        /\ k.verval = kenmerk[z].verval
    BY <1>1, <2>1 DEF KenmerkRow
  <2>3. VanKenmerk(row, resultaat[z], k)
    BY <1>1, <2>1, <2>2, RecalculatedVan DEF StartVan
  <2> QED BY <1>5, <1>7, <2>1, <2>3 DEF ObjectSave
<1>8. ASSUME NEW z \in Zaken, NEW ingang \in Datum, NEW verval \in Datum \cup {0},
             BesluitSave(z, ingang, verval)
      PROVE  KenmerkInv'
  <2>1. PICK row, k : row = BesluitGewijzigd(z, ingang, verval)
                      /\ k = [kenmerk[z] EXCEPT !.ingang = ingang, !.verval = verval]
    OBVIOUS
  <2>2. /\ k.ingang = ingang /\ k.verval = verval /\ k.eigenschap = kenmerk[z].eigenschap
        /\ k.object = kenmerk[z].object
    BY <1>1, <2>1 DEF KenmerkRow
  <2>3. PICK oud, rt : oud = zaak[z] /\ rt = resultaat[z]
    OBVIOUS
  <2>4. oud \in Row /\ rt \in Resultaattype \cup {None} /\ VanKenmerk(oud, rt, kenmerk[z])
    BY <1>1, <2>3 DEF TypeOK
  <2>5. CASE oud.einddatum # 0 /\ rt # None /\ rt.wijze = "vervaldatum_besluit" /\ verval = 0
    <3>1. row = [oud EXCEPT !.startdatum = 0, !.actiedatum = 0]
      BY <2>1, <2>3, <2>5 DEF BesluitGewijzigd, IsClosed
    <3>2. row.startdatum = 0
      BY <2>4, <3>1 DEF Row
    <3>3. VanKenmerk(row, rt, k)
      BY <2>2, <2>5, <3>2 DEF VanKenmerk, StartVan
    <3> QED BY <1>5, <1>8, <2>1, <2>3, <3>3 DEF BesluitSave
  <2>6. CASE oud.einddatum # 0 /\ rt # None /\ rt.wijze = "vervaldatum_besluit" /\ verval # 0
    <3>1. row = Recalculated(z, "vervaldatum_besluit", verval)
      BY <2>1, <2>3, <2>6 DEF BesluitGewijzigd, IsClosed
    <3>2. row = Archived(oud, rt, IF rt.termijn = 0 THEN 0 ELSE verval)
      BY <2>3, <2>6, <3>1 DEF Recalculated, IsClosed
    <3>3. rt.termijn # 0 => row.startdatum = verval
      <4>1. verval \in Bron /\ verval # Fout /\ verval # 0
        BY <2>6 DEF Bron, Datum, Fout
      <4> QED BY <2>4, <2>6, <3>2, <4>1, ArchivedStart
    <3>4. VanKenmerk(row, rt, k)
      BY <2>2, <2>6, <3>3 DEF VanKenmerk, StartVan
    <3> QED BY <1>5, <1>8, <2>1, <2>3, <3>4 DEF BesluitSave
  <2>7. CASE ~(oud.einddatum # 0 /\ rt # None /\ rt.wijze = "vervaldatum_besluit")
    <3>1. row = Recalculated(z, "ingangsdatum_besluit", ingang)
      BY <2>1, <2>3, <2>7 DEF BesluitGewijzigd, IsClosed
    <3>2. CASE oud.einddatum # 0 /\ rt # None /\ rt.wijze = "ingangsdatum_besluit"
      <4>1. row = Archived(oud, rt, IF rt.termijn = 0 THEN 0 ELSE ingang)
        BY <2>3, <3>1, <3>2 DEF Recalculated, IsClosed
      <4>2. rt.termijn # 0 => row.startdatum = ingang
        <5>1. ingang \in Bron /\ ingang # Fout /\ ingang # 0
          BY DEF Bron, Datum, Fout
        <5> QED BY <2>4, <3>2, <4>1, <5>1, ArchivedStart
      <4>3. VanKenmerk(row, rt, k)
        BY <2>2, <3>2, <4>2 DEF VanKenmerk, StartVan
      <4> QED BY <1>5, <1>8, <2>1, <2>3, <4>3 DEF BesluitSave
    <3>3. CASE ~(oud.einddatum # 0 /\ rt # None /\ rt.wijze = "ingangsdatum_besluit")
      <4>1. row = oud
        BY <2>3, <3>1, <3>3 DEF Recalculated, IsClosed
      <4>2. VanKenmerk(row, rt, k)
        BY <2>2, <2>4, <2>7, <3>3, <4>1 DEF VanKenmerk, StartVan
      <4> QED BY <1>5, <1>8, <2>1, <2>3, <4>2 DEF BesluitSave
    <3> QED BY <3>2, <3>3
  <2> QED BY <2>5, <2>6, <2>7
<1>9. ASSUME NEW z \in Zaken, \/ KenmerkDelete(z, "eigenschap", 0) \/ KenmerkDelete(z, "object", Fout)
                               \/ BesluitDelete(z)
      PROVE  KenmerkInv'
  <2>1. PICK k : /\ kenmerk' = [kenmerk EXCEPT ![z] = k]
                 /\ \/ k = [kenmerk[z] EXCEPT !["eigenschap"] = 0]
                    \/ k = [kenmerk[z] EXCEPT !["object"] = Fout]
                    \/ k = [kenmerk[z] EXCEPT !.ingang = 0, !.verval = 0]
    BY <1>9 DEF KenmerkDelete, BesluitDelete
  <2>2. PICK o : o = kenmerk[z] /\ o \in KenmerkRow
    BY <1>1
  <2>3. \/ /\ k.eigenschap = 0 /\ k.object = o.object /\ k.ingang = o.ingang /\ k.verval = o.verval
        \/ /\ k.eigenschap = o.eigenschap /\ k.object = Fout /\ k.ingang = o.ingang /\ k.verval = o.verval
        \/ /\ k.eigenschap = o.eigenschap /\ k.object = o.object /\ k.ingang = 0
    BY <2>1, <2>2 DEF KenmerkRow
  <2>4. 0 \notin Datum /\ Fout \notin Datum
    BY AfhandelingAssumption DEF Datum, Fout
  <2>5. VanKenmerk(zaak[z], resultaat[z], k)
    BY <1>1, <2>2, <2>3, <2>4 DEF VanKenmerk, StartVan
  <2>6. zaak' = [zaak EXCEPT ![z] = zaak[z]] /\ MayStart /\ UNCHANGED <<resultaat, req>>
    BY <1>9 DEF KenmerkDelete, BesluitDelete, TypeOK
  <2> QED BY <1>5, <2>1, <2>5, <2>6
<1>10. CASE UNCHANGED <<zaak, resultaat, kenmerk, req>>
  BY <1>10 DEF KenmerkInv
<1>11. ASSUME NEW z \in Zaken, NEW x \in Zaken, ResultaatUpdate(z, x) PROVE KenmerkInv'
  <2>1. PICK rt, oud, row : /\ rt = resultaat[z] /\ oud = zaak[z]
                            /\ row = TryArchive(z, oud, rt, FALSE)
    OBVIOUS
  <2>2. /\ x = z /\ rt \in Resultaattype /\ rt # None /\ oud \in Row
        /\ VanKenmerk(oud, rt, kenmerk[z])
    BY <1>1, <1>11, <2>1 DEF ResultaatUpdate, TypeOK
  <2>3. VanKenmerk(row, rt, kenmerk[z])
    <3>1. CASE oud.einddatum = 0
      BY <2>1, <2>2, <3>1 DEF TryArchive
    <3>2. CASE oud.einddatum # 0
      <4>1. PICK c : c = Calculate(z, oud, rt, oud.einddatum, FALSE)
        OBVIOUS
      <4>2. row = Archived(oud, rt, c)
        BY <2>1, <2>2, <3>2, <4>1 DEF TryArchive
      <4>3. rt.termijn # 0 => StartVan(row.startdatum, rt, kenmerk[z])
        <5>1. oud.einddatum \in Datum
          BY <2>2, <3>2 DEF Row
        <5>2. rt.termijn # 0 => StartVan(oud.startdatum, rt, kenmerk[z])
          BY <2>2, <3>2 DEF VanKenmerk
        <5> QED BY <2>2, <4>1, <4>2, <5>1, <5>2, BerekendVan
      <4> QED BY <4>3 DEF VanKenmerk
    <3> QED BY <3>1, <3>2
  <2>4. /\ MayStart /\ UNCHANGED <<resultaat, req>> /\ zaak' = [zaak EXCEPT ![z] = row]
        /\ kenmerk' = [kenmerk EXCEPT ![z] = kenmerk[z]]
    BY <1>11, <2>1, <2>2 DEF ResultaatUpdate, TypeOK
  <2> QED BY <1>5, <2>1, <2>3, <2>4
<1> QED BY <1>3, <1>4, <1>6, <1>7, <1>8, <1>9, <1>10, <1>11
        DEF Elders, KenmerkStap, Relate, DocumentChange

LEMMA KenmerkInvStap ==
  ASSUME ~Gelijktijdig, Chronologisch, "hoofdzaak" \notin Ops, "handmatig" \notin Ops,
         "verplaats" \notin Ops,
         TypeOK, OneAtATime, EindstatusCloses, Found, ArchiefInv, KenmerkInv, [Next]_vars
  PROVE  KenmerkInv'
<1> USE NotIdle
<1>0. /\ \A x \in Zaken : /\ VanKenmerk(zaak[x], resultaat[x], kenmerk[x])
                          /\ Goed(zaak[x], resultaat[x]) /\ zaak[x] \in Row
      /\ \A x \in Requests : Aanvraag(req[x])
  BY DEF KenmerkInv, ArchiefInv, TypeOK
<1>1. ASSUME NEW r \in Requests, NEW z \in Zaken, NEW datum \in Datum, NEW nacht \in Nachten,
             NEW eind \in BOOLEAN, StatusRead(r, z, datum, nacht, eind)
      PROVE  KenmerkInv'
  <2>1. PICK q : q = MetStatus("status", z, zaak[z], resultaat[z], datum, nacht, eind)
    OBVIOUS
  <2>2. q.zaak = z /\ q.rij = zaak[z] /\ q.rt = resultaat[z]
    BY <2>1 DEF MetStatus
  <2>3. UNCHANGED <<zaak, resultaat, kenmerk>> /\ MayStart /\ req' = [req EXCEPT ![r] = q]
    BY <1>1, <2>1 DEF StatusRead
  <2>4. req'[r] = q /\ \A x \in Requests : x # r => req'[x] = Idle
    BY <2>3, StartsAlone DEF TypeOK
  <2>5. VanKenmerk(q.rij, q.rt, kenmerk[q.zaak])
    BY <1>0, <2>2
  <2> QED BY <2>3, <2>4, <2>5, BegonnenVan
<1>2. ASSUME NEW r \in Requests, StatusWrite(r) \/ SamenWrite(r) PROVE KenmerkInv'
  <2>1. PICK q : q = req[r]
    OBVIOUS
  <2>2. /\ q \in Verzoek /\ q.fase \in ZetStatus /\ q # Idle /\ req' = [req EXCEPT ![r] = Idle]
        /\ q.fase = "status" \/ SamenWrite(r)
    BY <1>2, <2>1 DEF StatusWrite, SamenWrite, TypeOK, ZetStatus
  <2>3. \A x \in Requests : req'[x] = Idle
    BY <2>1, <2>2, EndsAlone
  <2>4. Aanvraag(q) /\ VanKenmerk(q.rij, q.rt, kenmerk[q.zaak]) /\ q.zaak \in Zaken
    BY <1>0, <2>1, <2>2, VerzoekType DEF KenmerkInv
  <2>5. CASE StatusWrite(r)
    <3>1. q.fase = "status" /\ q.rij = zaak[q.zaak] /\ q.rt = resultaat[q.zaak]
      BY <2>1, <2>4, <2>5 DEF StatusWrite, Aanvraag
    <3>2. resultaat' = resultaat /\ resultaat' = [resultaat EXCEPT ![q.zaak] = q.rt] /\ kenmerk' = kenmerk
      BY <2>5, <3>1, <2>4 DEF StatusWrite, TypeOK
    <3>3. CASE Taken(q)
      <4>1. zaak' = zaak
        BY <2>1, <2>5, <3>3 DEF StatusWrite
      <4> QED BY <1>0, <2>3, <3>2, <4>1, KlaarVan
    <3>4. CASE ~Taken(q)
      <4>1. StoreStatus(q, q.rij)
        BY <2>1, <2>5, <3>1, <3>4 DEF StatusWrite
      <4> QED BY <1>0, <2>2, <2>3, <2>4, <3>2, <4>1, StoreVan, KlaarVan
    <3> QED BY <3>3, <3>4
  <2>6. CASE SamenWrite(r)
    <3>1. StoreStatus(q, q.rij) /\ resultaat' = [resultaat EXCEPT ![q.zaak] = q.rt] /\ kenmerk' = kenmerk
      BY <2>1, <2>6 DEF SamenWrite
    <3> QED BY <1>0, <2>2, <2>3, <2>4, <3>1, StoreVan, KlaarVan
  <2> QED BY <1>2, <2>5, <2>6
<1>3. ASSUME NEW r \in Requests, NEW z \in Zaken, NEW row \in Patched(z),
             PatchRead(r, z, row) \/ SamenRead(r, z, row)
      PROVE  KenmerkInv'
  <2>1. PICK fase \in {"zaak", "samen"} :
          req' = [req EXCEPT ![r] = [fase |-> fase, zaak |-> z, rij |-> row]]
    BY <1>3 DEF PatchRead, SamenRead
  <2>2. PICK q : q = [fase |-> fase, zaak |-> z, rij |-> row]
    OBVIOUS
  <2>3. q.fase \notin ZetStatus
    BY <2>2 DEF ZetStatus
  <2>4. UNCHANGED <<zaak, resultaat, kenmerk>> /\ MayStart /\ req' = [req EXCEPT ![r] = q]
    BY <1>3, <2>1, <2>2 DEF PatchRead, SamenRead
  <2>5. req'[r] = q /\ \A x \in Requests : x # r => req'[x] = Idle
    BY <2>4, StartsAlone DEF TypeOK
  <2> QED BY <2>3, <2>4, <2>5, BegonnenVan
<1>4. ASSUME NEW r \in Requests, PatchCheck(r) PROVE KenmerkInv'
  <2>1. /\ req[r] \in [fase : {"zaak", "zaak_save", "samen"}, zaak : Zaken, rij : Row]
        /\ req[r].fase = "zaak" /\ UNCHANGED <<zaak, resultaat, kenmerk>>
    BY <1>4 DEF TypeOK, PatchCheck, Verzoek, Idle
  <2>2. \A x \in Requests : x # r => req'[x] = Idle
    BY <1>4, <2>1 DEF OneAtATime, MetRij, TypeOK, PatchCheck
  <2>3. PICK q : q = req'[r]
    OBVIOUS
  <2>4. q = Idle \/ q.fase = "zaak_save"
    BY <1>4, <2>1, <2>3 DEF TypeOK, PatchCheck
  <2>5. q.fase \notin ZetStatus
    BY <2>4 DEF Idle, ZetStatus
  <2> QED BY <2>1, <2>2, <2>3, <2>5, BegonnenVan
<1>5. ASSUME NEW r \in Requests, PatchWrite(r) PROVE KenmerkInv'
  <2>1. PICK q, z : q = req[r] /\ z = q.zaak
    OBVIOUS
  <2>2. q.fase = "zaak_save" /\ q # Idle /\ z \in Zaken /\ Zelfde(q.rij, zaak[z]) /\ req[r] = q
    BY <1>5, <2>1, VerzoekType DEF PatchWrite, MetRij, TypeOK, ArchiefInv, Aanvraag
  <2>3. \A x \in Requests : req'[x] = Idle
    BY <1>5, <2>2, EndsAlone DEF PatchWrite
  <2>4. Saved(z, q.rij) = q.rij /\ ~Again(z, q.rij)
    BY <2>2, SavedZelfde
  <2>5. zaak' = [zaak EXCEPT ![z] = q.rij] /\ resultaat' = resultaat /\ kenmerk' = kenmerk
    BY <1>5, <2>1, <2>4 DEF PatchWrite, TypeOK
  <2>6. VanKenmerk(q.rij, resultaat[z], kenmerk[z])
    BY <1>0, <2>2 DEF Zelfde, VanKenmerk
  <2>7. ASSUME NEW x \in Zaken PROVE VanKenmerk(zaak[x], resultaat[x], kenmerk[x])'
    <3>1. zaak'[x] = IF x = z THEN q.rij ELSE zaak[x]
      BY <2>5 DEF TypeOK
    <3> QED BY <1>0, <2>5, <2>6, <3>1
  <2> QED BY <2>3, <2>7, KlaarVan
<1>6. CASE Elders
  BY <1>6, EldersVan
<1>7. ASSUME NEW r \in Requests, NEW rt \in Resultaattype \cup {None}, NEW datum \in Datum,
             NEW nacht \in Nachten, NEW eind \in BOOLEAN, SamenSave(r, rt, datum, nacht, eind)
      PROVE  KenmerkInv'
  <2>1. PICK p, z : p = req[r] /\ z = p.zaak
    OBVIOUS
  <2>2. /\ p.fase = "samen" /\ p.fase \in MetRij /\ z \in Zaken /\ p.rij \in Row
        /\ Zelfde(p.rij, zaak[z])
    BY <1>0, <1>7, <2>1, VerzoekType DEF SamenSave, MetRij, TypeOK, Aanvraag
  <2>3. Saved(z, p.rij) = p.rij
    BY <2>2, SavedZelfde
  <2>4. PICK row : row = IF eind THEN TryArchive(z, p.rij, rt, FALSE) ELSE p.rij
    OBVIOUS
  <2>5. PICK q : q = MetStatus("samen_save", z, row, rt, datum, nacht, eind)
    OBVIOUS
  <2>6. /\ req' = [req EXCEPT ![r] = q] /\ UNCHANGED <<zaak, resultaat, kenmerk>>
        /\ IF eind THEN resultaat[z] = None ELSE rt = resultaat[z]
    BY <1>7, <2>1, <2>3, <2>4, <2>5 DEF SamenSave
  <2>7. VanKenmerk(row, rt, kenmerk[z])
    <3>1. CASE eind /\ p.rij.einddatum # 0 /\ rt # None
      <4>1. PICK c : c = Calculate(z, p.rij, rt, p.rij.einddatum, FALSE)
        OBVIOUS
      <4>2. row = Archived(p.rij, rt, c)
        BY <2>4, <3>1, <4>1 DEF TryArchive
      <4>3. p.rij.startdatum = 0 /\ p.rij.einddatum \in Datum /\ rt \in Resultaattype
        <5>1. Leeg(zaak[z])
          BY <1>0, <2>2, <2>6, <3>1 DEF Goed, Onbeslist
        <5> QED BY <2>2, <3>1, <5>1 DEF Leeg, Zelfde, Row
      <4>4. rt.termijn # 0 => StartVan(row.startdatum, rt, kenmerk[z])
        BY <2>2, <4>1, <4>2, <4>3, BerekendVan
      <4> QED BY <4>4 DEF VanKenmerk
    <3>2. CASE eind /\ (p.rij.einddatum = 0 \/ rt = None)
      BY <2>4, <3>2 DEF TryArchive, VanKenmerk
    <3>3. CASE ~eind
      BY <1>0, <2>2, <2>4, <2>6, <3>3 DEF Zelfde, VanKenmerk
    <3> QED BY <3>1, <3>2, <3>3
  <2>8. q.zaak = z /\ q.rij = row /\ q.rt = rt
    BY <2>5 DEF MetStatus
  <2>9. VanKenmerk(q.rij, q.rt, kenmerk[q.zaak])
    BY <2>7, <2>8
  <2>10. req'[r] = q /\ \A x \in Requests : x # r => req'[x] = Idle
    BY <2>1, <2>2, <2>6 DEF OneAtATime, TypeOK
  <2> QED BY <2>6, <2>9, <2>10, BegonnenVan
<1>8. ASSUME NEW r \in Requests, SamenFails(r) PROVE KenmerkInv'
  <2>1. req[r] # Idle /\ UNCHANGED <<zaak, resultaat, kenmerk>>
    BY <1>8 DEF SamenFails, ZetStatus, MetRij
  <2>2. \A x \in Requests : req'[x] = Idle
    BY <1>8, <2>1, EndsAlone DEF SamenFails
  <2> QED BY <1>0, <2>1, <2>2, KlaarVan
<1> QED BY <1>1, <1>2, <1>3, <1>4, <1>5, <1>6, <1>7, <1>8, Steps

LEMMA InitKenmerk == Init => KenmerkInv
<1>1. ASSUME Init, NEW x \in Zaken PROVE VanKenmerk(zaak[x], resultaat[x], kenmerk[x])
  BY <1>1 DEF Init, VanKenmerk
<1>2. ASSUME Init, NEW r \in Requests PROVE req[r].fase \notin ZetStatus
  BY <1>2 DEF Init, Idle, ZetStatus
<1> QED BY <1>1, <1>2 DEF KenmerkInv

LEMMA KenmerkVolgt == KenmerkInv => StartsAtKenmerk
BY DEF KenmerkInv, VanKenmerk, StartVan, StartsAtKenmerk, IsClosed

\* Requests that follow each other, with statuses in the order of their dates, archive a closed
\* zaak from the date that its eigenschap, zaakobject or besluit has now, whether that date is
\* changed before or after the zaak is closed, reopened and closed again, or its result replaced
\* or stored again.
THEOREM StartVanKenmerk ==
  ASSUME ~Gelijktijdig, Chronologisch, "hoofdzaak" \notin Ops, "handmatig" \notin Ops,
         "verplaats" \notin Ops
  PROVE  Spec => []StartsAtKenmerk
<1>1. Init => OneAtATime /\ EindstatusCloses
  BY DEF Init, OneAtATime, EindstatusCloses, Idle, IsClosed, AtEindstatus, ZetStatus, MetRij
<1>2. Init => Found /\ DeelzakenClosed /\ ArchiefInv /\ KenmerkInv
  BY InitArchief, InitKenmerk DEF Init, Found, DeelzakenClosed, IsClosed, Idle, ZetStatus, MetRij
<1>3. TypeOK /\ OneAtATime /\ EindstatusCloses /\ [Next]_vars => OneAtATime' /\ EindstatusCloses'
  BY SerialStep
<1>4. /\ TypeOK /\ OneAtATime /\ EindstatusCloses /\ Found /\ DeelzakenClosed /\ [Next]_vars
      => Found' /\ DeelzakenClosed'
  BY FamilyStep
<1>5. /\ TypeOK /\ OneAtATime /\ EindstatusCloses /\ Found /\ ArchiefInv /\ [Next]_vars
      => ArchiefInv'
  BY ArchiefStap
<1>6. /\ TypeOK /\ OneAtATime /\ EindstatusCloses /\ Found /\ ArchiefInv /\ KenmerkInv /\ [Next]_vars
      => KenmerkInv'
  BY KenmerkInvStap
<1> QED BY <1>1, <1>2, <1>3, <1>4, <1>5, <1>6, KenmerkVolgt, TypeCorrect, PTL DEF Spec

-----------------------------------------------------------------------------
(* What a deelzaak that follows its hoofdzaak is archived from.            *)

\* No result is removed or stored again, and no date changes that a way of archiving in use
\* starts from.
VasteBron ==
  /\ Ops \cap {"geenresultaat", "herzien", "verplaats"} = {}
  /\ \/ Wijzen \cap {"eigenschap", "zaakobject", "ingangsdatum_besluit", "vervaldatum_besluit"} = {}
     \/ Ops \cap {"kenmerk", "object", "besluit"} = {}

\* A row with its result: closed with one, without a start when it has no term, and with the
\* start of the hoofdzaak that it follows.
Volgend(row, rt) ==
  /\ row.einddatum # 0 => rt # None
  /\ ~FollowsHoofdzaak(row, rt) /\ rt # None /\ rt.termijn = 0 => row.startdatum = 0
  /\ FollowsHoofdzaak(row, rt) /\ zaak[row.hoofdzaak].einddatum # 0 =>
       row.startdatum = zaak[row.hoofdzaak].startdatum

\* What deelzaken are going to get is what the zaak itself is archived from.
Bereid(q) ==
  /\ Volgend(q.rij, q.rt)
  /\ q.eind => /\ q.rt # None
               /\ ~FollowsHoofdzaak(q.rij, q.rt) =>
                    /\ q.bron = Calculate(q.zaak, q.rij, q.rt, q.utc, FALSE)
                    /\ q.bron # Fout

EenNiveau == \A z \in Zaken : zaak[z].hoofdzaak # None => zaak[zaak[z].hoofdzaak].hoofdzaak = None

VolgInv ==
  /\ EenNiveau
  /\ \A z \in Zaken : Volgend(zaak[z], resultaat[z])
  /\ \A r \in Requests : req[r].fase \in ZetStatus => Bereid(req[r])

\* Deelzaken stay with their hoofdzaak.
LEMMA HoofdzaakBlijft ==
  ASSUME "hoofdzaak" \notin Ops, TypeOK, Found, [Next]_vars
  PROVE  \A x \in Zaken : zaak'[x].hoofdzaak = zaak[x].hoofdzaak
<1>1. ASSUME NEW r \in Requests, StatusWrite(r) PROVE \A x \in Zaken : zaak'[x].hoofdzaak = zaak[x].hoofdzaak
  BY <1>1, StatusWriteRows DEF StatusWrite
<1>2. ASSUME NEW r \in Requests, PatchWrite(r) PROVE \A x \in Zaken : zaak'[x].hoofdzaak = zaak[x].hoofdzaak
  <2>1. req[r].rij.hoofdzaak = zaak[req[r].zaak].hoofdzaak
    BY <1>2 DEF PatchWrite, Found, MetRij
  <2> QED BY <1>2, <2>1, PatchWriteRows
<1>3. ASSUME NEW r \in Requests, SamenWrite(r) PROVE \A x \in Zaken : zaak'[x].hoofdzaak = zaak[x].hoofdzaak
  <2>1. req[r].rij.hoofdzaak = zaak[req[r].zaak].hoofdzaak
    BY <1>3 DEF SamenWrite, Found, MetRij
  <2> QED BY <1>3, <2>1, SamenWriteRows
<1>4. CASE Elders
  BY <1>4, EldersType
<1>5. CASE UNCHANGED zaak
  BY <1>5
<1>6. ASSUME NEW r \in Requests, NEW z, NEW row, NEW rt, NEW datum, NEW nacht, NEW eind,
             \/ StatusRead(r, z, datum, nacht, eind) \/ PatchRead(r, z, row) \/ PatchCheck(r)
             \/ SamenRead(r, z, row) \/ SamenSave(r, rt, datum, nacht, eind) \/ SamenFails(r)
      PROVE  UNCHANGED zaak
  BY <1>6 DEF StatusRead, PatchRead, PatchCheck, SamenRead, SamenSave, SamenFails
<1> QED BY <1>1, <1>2, <1>3, <1>4, <1>5, <1>6, Steps

\* The start that a zaak gets is the one that its deelzaken get.
LEMMA AfterStatusStart ==
  ASSUME TypeOK, NEW q \in Verzoek, q.fase \in ZetStatus, Bereid(q), q.eind,
         ~FollowsHoofdzaak(q.rij, q.rt)
  PROVE  AfterStatus(q, q.rij).startdatum = q.bron
<1>1. /\ q.zaak \in Zaken /\ q.datum \in Datum /\ q.utc \in Datum /\ q.rij \in Row
      /\ q.rt \in Resultaattype /\ q.rt # None
  BY VerzoekType DEF Bereid
<1>2. PICK row : row = [q.rij EXCEPT !.einddatum = Einddatum(q)]
  OBVIOUS
<1>3. row \in Row /\ row.startdatum = q.rij.startdatum
  <2>1. Einddatum(q) \in Datum \cup {0}
    BY <1>1 DEF Einddatum
  <2> QED BY <1>1, <1>2, <2>1 DEF Row
<1>4. PICK c : c = q.bron /\ c = Calculate(q.zaak, q.rij, q.rt, q.utc, FALSE)
  BY DEF Bereid
<1>5. c \in Bron /\ c # Fout
  BY <1>1, <1>4, CalculateType DEF Bereid
<1>6. AfterStatus(q, q.rij) = Archived(row, q.rt, c)
  BY <1>1, <1>2, <1>4 DEF AfterStatus
<1>7. c = 0 => q.rij.startdatum = 0
  BY <1>1, <1>4 DEF Calculate, Bereid, Volgend
<1>8. Archived(row, q.rt, c).startdatum = IF c = 0 \/ c = Fout THEN row.startdatum ELSE c
  BY <1>1, <1>3, <1>5, ArchivedStart
<1>9. Archived(row, q.rt, c).startdatum = c
  BY <1>3, <1>5, <1>7, <1>8
<1> QED BY <1>4, <1>6, <1>9

LEMMA StoreVolgend ==
  ASSUME TypeOK, EenNiveau, \A x \in Zaken : Volgend(zaak[x], resultaat[x]),
         NEW q \in Verzoek, q.fase \in ZetStatus, Aanvraag(q), FoundFor(q), Bereid(q),
         StoreStatus(q, q.rij), resultaat' = [resultaat EXCEPT ![q.zaak] = q.rt]
  PROVE  \A x \in Zaken : Volgend(zaak[x], resultaat[x])'
<1>1. /\ q.zaak \in Zaken /\ q.datum \in Datum /\ q.eind \in BOOLEAN /\ q.bron \in Nat
      /\ q.rij \in Row /\ q.rt \in Resultaattype \cup {None}
      /\ q.rij.hoofdzaak = zaak[q.zaak].hoofdzaak
  BY VerzoekType DEF Aanvraag
<1>2. \A x \in Zaken : /\ zaak'[x].einddatum = IF x = q.zaak THEN Einddatum(q) ELSE zaak[x].einddatum
                       /\ zaak'[x].hoofdzaak = zaak[x].hoofdzaak
  BY <1>1, StoreRows, ZenonT(50)
<1>3. Einddatum(q) # 0 <=> q.eind
  BY <1>1, AfhandelingAssumption DEF Einddatum, Datum
<1>4. PICK s : s = AfterStatus(q, q.rij)
  OBVIOUS
<1>5. /\ zaak'[q.zaak] = s /\ resultaat'[q.zaak] = q.rt
      /\ s.einddatum = Einddatum(q) /\ s.hoofdzaak = zaak[q.zaak].hoofdzaak
  BY <1>1, <1>4, AfterStatusType DEF StoreStatus, TypeOK
<1>6. ASSUME NEW h \in Zaken, zaak[h].hoofdzaak = None, h # q.zaak PROVE zaak'[h] = zaak[h]
  BY <1>1, <1>6 DEF StoreStatus, FollowsHoofdzaak
<1>7. FollowsHoofdzaak(s, q.rt) <=> FollowsHoofdzaak(q.rij, q.rt)
  BY <1>1, <1>5 DEF FollowsHoofdzaak
<1>8. PICK row : row = [q.rij EXCEPT !.einddatum = Einddatum(q)]
  OBVIOUS
<1>9. row.startdatum = q.rij.startdatum /\ row \in Row
  <2>1. Einddatum(q) \in Datum \cup {0}
    BY <1>1 DEF Einddatum
  <2> QED BY <1>1, <1>8, <2>1 DEF Row
<1>10. ASSUME ~FollowsHoofdzaak(q.rij, q.rt), q.rt # None, q.rt.termijn = 0 PROVE s.startdatum = 0
  <2>1. q.rij.startdatum = 0
    BY <1>10 DEF Bereid, Volgend
  <2>2. CASE q.eind
    <3>1. q.bron = 0
      BY <1>10, <2>2 DEF Bereid, Calculate
    <3> QED BY <1>4, <1>10, <2>2, <3>1, AfterStatusStart
  <2>3. CASE ~q.eind
    <3>1. s = row \/ s = NotArchived(row)
      BY <1>4, <1>8, <1>10, <2>3 DEF AfterStatus, Reopened
    <3> QED BY <1>9, <2>1, <3>1 DEF NotArchived, Row
  <2> QED BY <1>1, <2>2, <2>3
<1>11. ASSUME FollowsHoofdzaak(q.rij, q.rt), zaak'[s.hoofdzaak].einddatum # 0
       PROVE  s.startdatum = zaak'[s.hoofdzaak].startdatum
  <2>1. PICK h : h = s.hoofdzaak /\ h = q.rij.hoofdzaak /\ h = zaak[q.zaak].hoofdzaak
    BY <1>1, <1>5
  <2>2. h # None /\ h \in Zaken
    BY <1>1, <1>11, <2>1 DEF FollowsHoofdzaak, Row
  <2>3. zaak[h].hoofdzaak = None /\ h # q.zaak
    BY <1>1, <2>1, <2>2 DEF EenNiveau
  <2>4. zaak'[h] = zaak[h]
    BY <1>6, <2>2, <2>3
  <2>5. s = row
    BY <1>4, <1>8, <1>11 DEF AfterStatus
  <2>6. q.rij.startdatum = zaak[h].startdatum
    BY <1>11, <2>1, <2>4 DEF Bereid, Volgend
  <2> QED BY <1>9, <2>1, <2>4, <2>5, <2>6
<1>12. Volgend(zaak[q.zaak], resultaat[q.zaak])'
  <2>1. s.einddatum # 0 => q.rt # None
    BY <1>3, <1>5 DEF Bereid
  <2> QED BY <1>5, <1>7, <1>10, <1>11, <2>1 DEF Volgend, FollowsHoofdzaak
<1>13. ASSUME NEW x \in Zaken, x # q.zaak PROVE Volgend(zaak[x], resultaat[x])'
  <2>1. PICK oud, nieuw, rt : oud = zaak[x] /\ nieuw = zaak'[x] /\ rt = resultaat[x]
    OBVIOUS
  <2>2. /\ resultaat'[x] = rt /\ nieuw.einddatum = oud.einddatum /\ nieuw.hoofdzaak = oud.hoofdzaak
        /\ oud \in Row /\ Volgend(oud, rt)
    BY <1>2, <1>13, <2>1 DEF TypeOK
  <2>3. CASE ~FollowsHoofdzaak(oud, rt)
    <3>1. nieuw = oud
      BY <1>13, <2>1, <2>3 DEF StoreStatus
    <3> QED BY <2>1, <2>2, <2>3, <3>1 DEF Volgend, FollowsHoofdzaak
  <2>4. CASE FollowsHoofdzaak(oud, rt)
    <3>1. PICK h : h = oud.hoofdzaak /\ h \in Zaken /\ h # None
      BY <2>2, <2>4 DEF FollowsHoofdzaak, Row
    <3>2. zaak[h].hoofdzaak = None
      BY <2>1, <3>1 DEF EenNiveau
    <3>3. zaak'[h].einddatum # 0 => nieuw.startdatum = zaak'[h].startdatum
      <4>1. CASE h # q.zaak
        <5>1. zaak'[h] = zaak[h]
          BY <1>6, <3>1, <3>2, <4>1
        <5>2. nieuw = oud
          BY <1>13, <2>1, <3>1, <4>1 DEF StoreStatus, Deelzaken
        <5> QED BY <2>2, <2>4, <3>1, <5>1, <5>2 DEF Volgend
      <4>2. CASE h = q.zaak /\ q.eind
        <5>1. nieuw = UpdateDeelzaak(oud, rt, q.eind, q.bron)
          BY <1>13, <2>1, <2>4, <3>1, <4>2 DEF StoreStatus, Deelzaken
        <5>2. nieuw.startdatum = q.bron
          BY <2>2, <5>1 DEF UpdateDeelzaak, Row
        <5>3. ~FollowsHoofdzaak(q.rij, q.rt)
          BY <1>1, <3>2, <4>2 DEF FollowsHoofdzaak
        <5>4. s.startdatum = q.bron
          BY <1>4, <4>2, <5>3, AfterStatusStart
        <5> QED BY <1>5, <4>2, <5>2, <5>4
      <4>3. CASE h = q.zaak /\ ~q.eind
        BY <1>2, <1>3, <3>1, <4>3
      <4> QED BY <1>1, <4>1, <4>2, <4>3
    <3> QED BY <2>1, <2>2, <2>4, <3>1, <3>3 DEF Volgend, FollowsHoofdzaak
  <2> QED BY <2>3, <2>4
<1> QED BY <1>12, <1>13

\* Rows that keep the columns that this is about.
LEMMA VolgendBlijft ==
  ASSUME TypeOK, \A x \in Zaken : Volgend(zaak[x], resultaat[x]), UNCHANGED resultaat,
         \A x \in Zaken : /\ zaak'[x].hoofdzaak = zaak[x].hoofdzaak
                          /\ zaak'[x].einddatum = zaak[x].einddatum
                          /\ zaak'[x].startdatum = zaak[x].startdatum
  PROVE  \A x \in Zaken : Volgend(zaak[x], resultaat[x])'
<1>1. ASSUME NEW x \in Zaken PROVE Volgend(zaak[x], resultaat[x])'
  <2>1. PICK oud, nieuw, rt : oud = zaak[x] /\ nieuw = zaak'[x] /\ rt = resultaat[x]
    OBVIOUS
  <2>2. /\ oud.hoofdzaak \in Zaken \cup {None} /\ Volgend(oud, rt)
        /\ nieuw.hoofdzaak = oud.hoofdzaak /\ nieuw.einddatum = oud.einddatum
        /\ nieuw.startdatum = oud.startdatum
    BY <2>1 DEF TypeOK, Row
  <2> QED BY <2>1, <2>2 DEF Volgend, FollowsHoofdzaak
<1> QED BY <1>1

LEMMA BereidBlijft ==
  ASSUME UNCHANGED <<zaak, kenmerk>>, NEW q, Bereid(q)
  PROVE  Bereid(q)'
BY DEF Bereid, Volgend, FollowsHoofdzaak, Calculate, GetBrondatum

LEMMA NiveauBlijft ==
  ASSUME TypeOK, EenNiveau, \A x \in Zaken : zaak'[x].hoofdzaak = zaak[x].hoofdzaak
  PROVE  EenNiveau'
BY DEF EenNiveau, TypeOK, Row

\* A request that starts or goes on, and requests that are done.
LEMMA BegonnenVolgt ==
  ASSUME VolgInv, TypeOK, UNCHANGED <<zaak, resultaat, kenmerk>>, NEW r \in Requests, NEW q,
         q.fase \in ZetStatus => Bereid(q), req'[r] = q, \A x \in Requests : x # r => req'[x] = Idle
  PROVE  VolgInv'
<1>1. EenNiveau' /\ \A x \in Zaken : Volgend(zaak[x], resultaat[x])'
  BY NiveauBlijft, VolgendBlijft DEF VolgInv
<1>2. ASSUME NEW x \in Requests, req'[x].fase \in ZetStatus PROVE Bereid(req[x])'
  <2>1. req'[x] = q
    BY <1>2 DEF Idle, ZetStatus
  <2>2. Bereid(q)'
    BY <1>2, <2>1, BereidBlijft
  <2> QED BY <2>1, <2>2
<1> QED BY <1>1, <1>2 DEF VolgInv

LEMMA KlaarVolgt ==
  ASSUME \A x \in Requests : req'[x] = Idle, EenNiveau',
         \A x \in Zaken : Volgend(zaak[x], resultaat[x])'
  PROVE  VolgInv'
<1>1. \A x \in Requests : req'[x].fase \notin ZetStatus
  BY DEF Idle, ZetStatus
<1> QED BY <1>1 DEF VolgInv

\* Dates of their own change no row, when no way of archiving that is used starts from them.
LEMMA KenmerkVast ==
  ASSUME VasteBron, TypeOK, NEW z \in Zaken, KenmerkStap(z)
  PROVE  UNCHANGED zaak
<1>1. zaak = [zaak EXCEPT ![z] = zaak[z]]
  BY DEF TypeOK
<1>2. resultaat[z] = None \/ resultaat[z].wijze \in Wijzen
  BY DEF TypeOK, Resultaattype
<1>3. ASSUME NEW wijze, NEW datum, resultaat[z] = None \/ resultaat[z].wijze # wijze
      PROVE  Recalculated(z, wijze, datum) = zaak[z]
  BY <1>3 DEF Recalculated
<1>4. CASE Wijzen \cap {"eigenschap", "zaakobject", "ingangsdatum_besluit", "vervaldatum_besluit"} = {}
  <2>1. \A datum : /\ Recalculated(z, "eigenschap", datum) = zaak[z]
                   /\ Recalculated(z, "zaakobject", datum) = zaak[z]
                   /\ Recalculated(z, "ingangsdatum_besluit", datum) = zaak[z]
    BY <1>2, <1>3, <1>4
  <2>2. \A ingang, verval : BesluitGewijzigd(z, ingang, verval) = zaak[z]
    BY <1>2, <1>4, <2>1 DEF BesluitGewijzigd
  <2> QED BY <1>1, <2>1, <2>2
          DEF KenmerkStap, EigenschapSave, ObjectSave, KenmerkDelete, BesluitSave, BesluitDelete
<1>5. CASE Ops \cap {"kenmerk", "object", "besluit"} = {}
  BY <1>5 DEF KenmerkStap, EigenschapSave, ObjectSave, KenmerkDelete, BesluitSave, BesluitDelete
<1> QED BY <1>4, <1>5 DEF VasteBron

\* The steps that change one row and no status.
LEMMA EldersVolgt ==
  ASSUME ~Gelijktijdig, VasteBron, TypeOK, DeelzakenClosed, ArchiefInv, VolgInv, Elders
  PROVE  VolgInv'
<1>1. ASSUME NEW z \in Zaken, NEW rt \in Resultaattype, ResultaatCreate(z, rt) PROVE VolgInv'
  <2>1. resultaat[z] = None /\ zaak[z].einddatum = 0 /\ Leeg(zaak[z])
    BY <1>1 DEF ResultaatCreate, VolgInv, Volgend, ArchiefInv, Goed, Onbeslist
  <2>2. /\ zaak' = zaak /\ resultaat' = [resultaat EXCEPT ![z] = rt]
        /\ \A x \in Requests : req'[x] = Idle
    BY <1>1, <2>1 DEF ResultaatCreate, TryArchive, TypeOK, MayStart
  <2>3. ASSUME NEW x \in Zaken PROVE Volgend(zaak[x], resultaat[x])'
    <3>1. PICK row : row = zaak[x] /\ row = zaak'[x] /\ row \in Row
      BY <2>2 DEF TypeOK
    <3>2. CASE x # z
      <4>1. PICK t : t = resultaat[x] /\ t = resultaat'[x]
        BY <2>2, <3>2 DEF TypeOK
      <4>2. Volgend(row, t)
        BY <3>1, <4>1 DEF VolgInv
      <4> QED BY <2>2, <3>1, <4>1, <4>2 DEF Volgend, FollowsHoofdzaak
    <3>3. CASE x = z
      <4>1. resultaat'[x] = rt /\ row.einddatum = 0 /\ row.startdatum = 0
        BY <2>1, <2>2, <3>1, <3>3 DEF TypeOK, Leeg
      <4>2. row.hoofdzaak # None => zaak[row.hoofdzaak].einddatum = 0
        BY <3>1, <4>1 DEF DeelzakenClosed, Deelzaken, IsClosed, Row
      <4> QED BY <2>2, <3>1, <4>1, <4>2 DEF Volgend, FollowsHoofdzaak
    <3> QED BY <3>2, <3>3
  <2>4. EenNiveau'
    BY <2>2, NiveauBlijft DEF VolgInv
  <2> QED BY <2>2, <2>3, <2>4, KlaarVolgt
<1>2. ASSUME NEW z \in Zaken, ResultaatDelete(z) PROVE VolgInv'
  BY <1>2 DEF ResultaatDelete, VasteBron
<1>5. ASSUME NEW z \in Zaken, NEW x \in Zaken, ResultaatUpdate(z, x) PROVE VolgInv'
  BY <1>5 DEF ResultaatUpdate, VasteBron
<1>3. ASSUME NEW z \in Zaken, KenmerkStap(z) PROVE VolgInv'
  <2>1. UNCHANGED zaak
    BY <1>3, KenmerkVast
  <2>2. UNCHANGED <<resultaat, req>> /\ MayStart
    BY <1>3 DEF KenmerkStap, EigenschapSave, ObjectSave, KenmerkDelete, BesluitSave, BesluitDelete
  <2>3. EenNiveau' /\ \A x \in Zaken : Volgend(zaak[x], resultaat[x])'
    BY <2>1, <2>2, NiveauBlijft, VolgendBlijft DEF VolgInv
  <2>4. \A x \in Requests : req'[x] = Idle
    BY <2>2 DEF MayStart
  <2> QED BY <2>3, <2>4, KlaarVolgt
<1>4. CASE UNCHANGED <<zaak, resultaat, kenmerk, req>>
  <2>1. EenNiveau' /\ \A x \in Zaken : Volgend(zaak[x], resultaat[x])'
    BY <1>4, NiveauBlijft, VolgendBlijft DEF VolgInv
  <2>2. ASSUME NEW x \in Requests, req'[x].fase \in ZetStatus PROVE Bereid(req[x])'
    <3>1. PICK q : q = req[x] /\ q = req'[x]
      BY <1>4
    <3>2. Bereid(q)
      BY <2>2, <3>1 DEF VolgInv
    <3>3. Bereid(q)'
      BY <1>4, <3>2, BereidBlijft
    <3> QED BY <3>1, <3>3
  <2> QED BY <2>1, <2>2 DEF VolgInv
<1> QED BY <1>1, <1>2, <1>3, <1>4, <1>5 DEF Elders, Relate, DocumentChange

LEMMA VolgStap ==
  ASSUME ~Gelijktijdig, "hoofdzaak" \notin Ops, "handmatig" \notin Ops, VasteBron,
         TypeOK, OneAtATime, Found, DeelzakenClosed, ArchiefInv, VolgInv, [Next]_vars
  PROVE  VolgInv'
<1> USE NotIdle
<1>0. /\ \A x \in Zaken : Volgend(zaak[x], resultaat[x]) /\ Goed(zaak[x], resultaat[x]) /\ zaak[x] \in Row
      /\ \A x \in Requests : Aanvraag(req[x]) /\ (req[x].fase \in ZetStatus => Bereid(req[x]))
      /\ EenNiveau /\ EenNiveau'
  BY HoofdzaakBlijft, NiveauBlijft DEF VolgInv, ArchiefInv, TypeOK
<1>1. ASSUME NEW r \in Requests, NEW z \in Zaken, NEW datum \in Datum, NEW nacht \in Nachten,
             NEW eind \in BOOLEAN, StatusRead(r, z, datum, nacht, eind)
      PROVE  VolgInv'
  <2>1. PICK q : q = MetStatus("status", z, zaak[z], resultaat[z], datum, nacht, eind)
    OBVIOUS
  <2>2. /\ q.zaak = z /\ q.rij = zaak[z] /\ q.rt = resultaat[z] /\ q.eind = eind
        /\ q.utc = Utc(datum, nacht)
        /\ eind => q.bron = BronVoorDeelzaken(z, zaak[z], resultaat[z], Utc(datum, nacht))
    BY <2>1 DEF MetStatus
  <2>3. UNCHANGED <<zaak, resultaat, kenmerk>> /\ MayStart /\ req' = [req EXCEPT ![r] = q]
    BY <1>1, <2>1 DEF StatusRead
  <2>4. req'[r] = q /\ \A x \in Requests : x # r => req'[x] = Idle
    BY <2>3, StartsAlone DEF TypeOK
  <2>5. eind => ResultaatReady(z, zaak[z], resultaat[z], Utc(datum, nacht))
    BY <1>1 DEF StatusRead, StatusReady
  <2>6. Bereid(q)
    BY <1>0, <2>2, <2>5 DEF Bereid, ResultaatReady, BronVoorDeelzaken
  <2> QED BY <2>3, <2>4, <2>6, BegonnenVolgt
<1>2. ASSUME NEW r \in Requests, StatusWrite(r) \/ SamenWrite(r) PROVE VolgInv'
  <2>1. PICK q : q = req[r]
    OBVIOUS
  <2>2. /\ q \in Verzoek /\ q.fase \in ZetStatus /\ q # Idle /\ req' = [req EXCEPT ![r] = Idle]
    BY <1>2, <2>1 DEF StatusWrite, SamenWrite, TypeOK, ZetStatus
  <2>3. \A x \in Requests : req'[x] = Idle
    BY <2>1, <2>2, EndsAlone
  <2>4. Aanvraag(q) /\ FoundFor(q) /\ Bereid(q) /\ q.zaak \in Zaken
    BY <1>0, <2>1, <2>2, VerzoekType DEF Found
  <2>5. CASE StatusWrite(r)
    <3>1. q.rij = zaak[q.zaak] /\ q.rt = resultaat[q.zaak]
      BY <2>1, <2>4, <2>5 DEF StatusWrite, Aanvraag
    <3>2. resultaat' = resultaat /\ resultaat' = [resultaat EXCEPT ![q.zaak] = q.rt]
      BY <2>4, <2>5, <3>1 DEF StatusWrite, TypeOK
    <3>3. CASE Taken(q)
      <4>1. zaak' = zaak
        BY <2>1, <2>5, <3>3 DEF StatusWrite
      <4> QED BY <1>0, <2>3, <3>2, <4>1, VolgendBlijft, KlaarVolgt
    <3>4. CASE ~Taken(q)
      <4>1. StoreStatus(q, q.rij)
        BY <2>1, <2>5, <3>1, <3>4 DEF StatusWrite
      <4> QED BY <1>0, <2>2, <2>3, <2>4, <3>2, <4>1, StoreVolgend, KlaarVolgt
    <3> QED BY <3>3, <3>4
  <2>6. CASE SamenWrite(r)
    <3>1. StoreStatus(q, q.rij) /\ resultaat' = [resultaat EXCEPT ![q.zaak] = q.rt]
      BY <2>1, <2>6 DEF SamenWrite
    <3> QED BY <1>0, <2>2, <2>3, <2>4, <3>1, StoreVolgend, KlaarVolgt
  <2> QED BY <1>2, <2>5, <2>6
<1>3. ASSUME NEW r \in Requests, NEW z \in Zaken, NEW row \in Patched(z),
             PatchRead(r, z, row) \/ SamenRead(r, z, row)
      PROVE  VolgInv'
  <2>1. PICK fase \in {"zaak", "samen"} :
          req' = [req EXCEPT ![r] = [fase |-> fase, zaak |-> z, rij |-> row]]
    BY <1>3 DEF PatchRead, SamenRead
  <2>2. PICK q : q = [fase |-> fase, zaak |-> z, rij |-> row]
    OBVIOUS
  <2>3. q.fase \notin ZetStatus
    BY <2>2 DEF ZetStatus
  <2>4. UNCHANGED <<zaak, resultaat, kenmerk>> /\ MayStart /\ req' = [req EXCEPT ![r] = q]
    BY <1>3, <2>1, <2>2 DEF PatchRead, SamenRead
  <2>5. req'[r] = q /\ \A x \in Requests : x # r => req'[x] = Idle
    BY <2>4, StartsAlone DEF TypeOK
  <2> QED BY <2>3, <2>4, <2>5, BegonnenVolgt
<1>4. ASSUME NEW r \in Requests, PatchCheck(r) PROVE VolgInv'
  <2>1. /\ req[r] \in [fase : {"zaak", "zaak_save", "samen"}, zaak : Zaken, rij : Row]
        /\ req[r].fase = "zaak" /\ UNCHANGED <<zaak, resultaat, kenmerk>>
    BY <1>4 DEF TypeOK, PatchCheck, Verzoek, Idle
  <2>2. \A x \in Requests : x # r => req'[x] = Idle
    BY <1>4, <2>1 DEF OneAtATime, MetRij, TypeOK, PatchCheck
  <2>3. PICK q : q = req'[r]
    OBVIOUS
  <2>4. q = Idle \/ q.fase = "zaak_save"
    BY <1>4, <2>1, <2>3 DEF TypeOK, PatchCheck
  <2>5. q.fase \notin ZetStatus
    BY <2>4 DEF Idle, ZetStatus
  <2> QED BY <2>1, <2>2, <2>3, <2>5, BegonnenVolgt
<1>5. ASSUME NEW r \in Requests, PatchWrite(r) PROVE VolgInv'
  <2>1. PICK q, z : q = req[r] /\ z = q.zaak
    OBVIOUS
  <2>2. q.fase = "zaak_save" /\ q # Idle /\ z \in Zaken /\ Zelfde(q.rij, zaak[z]) /\ req[r] = q
    BY <1>5, <2>1, VerzoekType DEF PatchWrite, MetRij, TypeOK, ArchiefInv, Aanvraag
  <2>3. \A x \in Requests : req'[x] = Idle
    BY <1>5, <2>2, EndsAlone DEF PatchWrite
  <2>4. Saved(z, q.rij) = q.rij /\ ~Again(z, q.rij)
    BY <2>2, SavedZelfde
  <2>5. zaak' = [zaak EXCEPT ![z] = q.rij] /\ resultaat' = resultaat
    BY <1>5, <2>1, <2>4 DEF PatchWrite, TypeOK
  <2>6. \A x \in Zaken : zaak'[x] = IF x = z THEN q.rij ELSE zaak[x]
    BY <2>5 DEF TypeOK
  <2>7. \A x \in Zaken : /\ zaak'[x].hoofdzaak = zaak[x].hoofdzaak
                         /\ zaak'[x].einddatum = zaak[x].einddatum
                         /\ zaak'[x].startdatum = zaak[x].startdatum
    BY <2>2, <2>6 DEF Zelfde
  <2>8. \A x \in Zaken : Volgend(zaak[x], resultaat[x])'
    BY <1>0, <2>5, <2>7, VolgendBlijft
  <2> QED BY <1>0, <2>3, <2>8, KlaarVolgt
<1>6. CASE Elders
  BY <1>6, EldersVolgt
<1>7. ASSUME NEW r \in Requests, NEW rt \in Resultaattype \cup {None}, NEW datum \in Datum,
             NEW nacht \in Nachten, NEW eind \in BOOLEAN, SamenSave(r, rt, datum, nacht, eind)
      PROVE  VolgInv'
  <2>1. PICK p, z : p = req[r] /\ z = p.zaak
    OBVIOUS
  <2>2. /\ p.fase = "samen" /\ p.fase \in MetRij /\ z \in Zaken /\ p.rij \in Row
        /\ Zelfde(p.rij, zaak[z])
    BY <1>0, <1>7, <2>1, VerzoekType DEF SamenSave, MetRij, TypeOK, Aanvraag
  <2>3. Saved(z, p.rij) = p.rij
    BY <2>2, SavedZelfde
  <2>4. PICK row : row = IF eind THEN TryArchive(z, p.rij, rt, FALSE) ELSE p.rij
    OBVIOUS
  <2>5. PICK q : q = MetStatus("samen_save", z, row, rt, datum, nacht, eind)
    OBVIOUS
  <2>6. /\ req' = [req EXCEPT ![r] = q] /\ UNCHANGED <<zaak, resultaat, kenmerk>>
        /\ IF eind THEN resultaat[z] = None ELSE rt = resultaat[z]
        /\ StatusReady(z, row, rt, datum, nacht, eind)
    BY <1>7, <2>1, <2>3, <2>4, <2>5 DEF SamenSave
  <2>7. eind => zaak[z].einddatum = 0 /\ Leeg(zaak[z])
    BY <1>0, <2>2, <2>6 DEF Volgend, Goed, Onbeslist
  <2>8. row = p.rij
    BY <2>2, <2>4, <2>7 DEF TryArchive, Zelfde
  <2>9. eind => ResultaatReady(z, row, rt, Utc(datum, nacht))
    BY <2>6 DEF StatusReady
  <2>10. Volgend(row, rt)
    <3>1. CASE ~eind
      BY <1>0, <2>2, <2>6, <2>8, <3>1 DEF Zelfde, Volgend, FollowsHoofdzaak
    <3>2. CASE eind
      <4>1. rt # None /\ row.einddatum = 0 /\ row.startdatum = 0 /\ row.hoofdzaak = zaak[z].hoofdzaak
        BY <2>2, <2>7, <2>8, <2>9, <3>2 DEF ResultaatReady, Zelfde, Leeg
      <4>2. row.hoofdzaak # None => zaak[row.hoofdzaak].einddatum = 0
        BY <2>2, <2>7, <2>8, <3>2, <4>1 DEF DeelzakenClosed, Deelzaken, IsClosed, Row, Zelfde
      <4> QED BY <4>1, <4>2 DEF Volgend, FollowsHoofdzaak
    <3> QED BY <3>1, <3>2
  <2>11. /\ q.zaak = z /\ q.rij = row /\ q.rt = rt /\ q.eind = eind /\ q.utc = Utc(datum, nacht)
         /\ eind => q.bron = BronVoorDeelzaken(z, row, rt, Utc(datum, nacht))
    BY <2>5 DEF MetStatus
  <2>12. Bereid(q)
    BY <2>9, <2>10, <2>11 DEF Bereid, ResultaatReady, BronVoorDeelzaken
  <2>13. req'[r] = q /\ \A x \in Requests : x # r => req'[x] = Idle
    BY <2>1, <2>2, <2>6 DEF OneAtATime, TypeOK
  <2> QED BY <2>6, <2>12, <2>13, BegonnenVolgt
<1>8. ASSUME NEW r \in Requests, SamenFails(r) PROVE VolgInv'
  <2>1. req[r] # Idle /\ UNCHANGED <<zaak, resultaat, kenmerk>>
    BY <1>8 DEF SamenFails, ZetStatus, MetRij
  <2>2. \A x \in Requests : req'[x] = Idle
    BY <1>8, <2>1, EndsAlone DEF SamenFails
  <2>3. \A x \in Zaken : Volgend(zaak[x], resultaat[x])'
    BY <1>0, <2>1, VolgendBlijft
  <2> QED BY <1>0, <2>2, <2>3, KlaarVolgt
<1> QED BY <1>1, <1>2, <1>3, <1>4, <1>5, <1>6, <1>7, <1>8, Steps

LEMMA InitVolgt == Init => VolgInv
<1>1. ASSUME Init, NEW x \in Zaken PROVE Volgend(zaak[x], resultaat[x])
  <2>1. resultaat[x] = None /\ zaak[x].einddatum = 0
    BY <1>1 DEF Init
  <2> QED BY <2>1 DEF Volgend, FollowsHoofdzaak
<1>2. ASSUME Init, NEW r \in Requests PROVE req[r].fase \notin ZetStatus
  BY <1>2 DEF Init, Idle, ZetStatus
<1>3. Init => EenNiveau
  BY DEF Init, EenNiveau
<1> QED BY <1>1, <1>2, <1>3 DEF VolgInv

LEMMA VolgInvVolgt == VolgInv => DeelzaakFollows
BY DEF VolgInv, Volgend, DeelzaakFollows, IsClosed

\* The zaken have no deelzaken.
Los == \A z \in Zaken : zaak[z].hoofdzaak = None

LEMMA LosStap ==
  ASSUME "hoofdzaak" \notin Ops, TypeOK, Found, Los, [Next]_vars
  PROVE  Los'
BY HoofdzaakBlijft DEF Los

\* What a closed zaak is archived from: requests that follow each other, with statuses in order,
\* take the date of its own that its result names, whatever changes it, and a deelzaak takes the
\* start of its hoofdzaak, as long as no result is removed or stored again and the hoofdzaak does
\* not start from a date that changes after it was closed.
THEOREM BewaartermijnVolgt ==
  ASSUME ~Gelijktijdig, Chronologisch, "hoofdzaak" \notin Ops, "handmatig" \notin Ops,
         "verplaats" \notin Ops,
         Hoofdzaken = {} \/ VasteBron
  PROVE  Spec => []BewaartermijnBegint
<1>1. Init => OneAtATime /\ EindstatusCloses
  BY DEF Init, OneAtATime, EindstatusCloses, Idle, IsClosed, AtEindstatus, ZetStatus, MetRij
<1>2. Init => Found /\ DeelzakenClosed /\ ArchiefInv
  BY InitArchief DEF Init, Found, DeelzakenClosed, IsClosed, Idle, ZetStatus, MetRij
<1>3. TypeOK /\ OneAtATime /\ EindstatusCloses /\ [Next]_vars => OneAtATime' /\ EindstatusCloses'
  BY SerialStep
<1>4. /\ TypeOK /\ OneAtATime /\ EindstatusCloses /\ Found /\ DeelzakenClosed /\ [Next]_vars
      => Found' /\ DeelzakenClosed'
  BY FamilyStep
<1>5. /\ TypeOK /\ OneAtATime /\ EindstatusCloses /\ Found /\ ArchiefInv /\ [Next]_vars
      => ArchiefInv'
  BY ArchiefStap
<1>6. Spec => [](TypeOK /\ OneAtATime /\ Found /\ DeelzakenClosed /\ ArchiefInv)
  BY <1>1, <1>2, <1>3, <1>4, <1>5, TypeCorrect, PTL DEF Spec
<1>7. Spec => []DeelzaakFollows
  <2>1. CASE VasteBron
    <3>1. /\ TypeOK /\ OneAtATime /\ Found /\ DeelzakenClosed /\ ArchiefInv /\ VolgInv /\ [Next]_vars
          => VolgInv'
      BY <2>1, VolgStap
    <3> QED BY <1>6, <3>1, InitVolgt, VolgInvVolgt, PTL DEF Spec
  <2>2. CASE Hoofdzaken = {}
    <3>1. Init => Los
      BY <2>2 DEF Init, Los
    <3>2. TypeOK /\ Found /\ Los /\ [Next]_vars => Los'
      BY LosStap
    <3>3. Los => DeelzaakFollows
      BY DEF Los, DeelzaakFollows, FollowsHoofdzaak
    <3> QED BY <1>6, <3>1, <3>2, <3>3, PTL DEF Spec
  <2> QED BY <2>1, <2>2
<1>8. StartsAtKenmerk /\ DeelzaakFollows => BewaartermijnBegint
  BY DEF BewaartermijnBegint
<1> QED BY <1>7, <1>8, StartVanKenmerk, PTL

=============================================================================
