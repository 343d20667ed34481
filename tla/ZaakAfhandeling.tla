--------------------------- MODULE ZaakAfhandeling ---------------------------
(***************************************************************************)
(* Closing and reopening zaken, and what this does to their archiving.     *)
(*                                                                         *)
(* A zaak is closed by a status of the last statustype, an end status.     *)
(* The serializer validates a status against the documents, the result and *)
(* the deelzaken, and then stores it together with einddatum and the       *)
(* archiving columns of the zaak and of its deelzaken.  Nothing is locked  *)
(* between the validation and the transaction, and a PATCH of a zaak saves *)
(* every column of the row that it read.                                   *)
(*                                                                         *)
(* The combined endpoints do this in one transaction: they save the zaak,  *)
(* with its result if they close it, and then validate and store a status, *)
(* while the row of the zaak is locked by what they saved.                 *)
(*                                                                         *)
(* Two ideas of "closed" live side by side: is_closed looks at einddatum,  *)
(* the validators of deelzaken look at the status with the latest date.    *)
(***************************************************************************)
EXTENDS Integers, FiniteSets

CONSTANTS
  Zaken, Docs,     \* zaken and documents
  Requests,        \* requests being served at the same time
  None,
  Hoofdzaken,      \* zaken that may have deelzaken from the start
  Wijzen,          \* afleidingswijzen of the resultaattypen
  Termijnen,       \* archiefactietermijnen; 0 is none
  Procestermijn,   \* the procestermijn of resultaattypen
  Relevant,        \* zaken that others may be related to from the start
  Nachten,         \* whether statuses are set before, or after (TRUE), midnight UTC
  Ops,             \* the operations clients call in this instance
  Geforceerd,      \* clients have the scope zaken.geforceerd-bijwerken
  Chronologisch,   \* clients give every status a later date than the ones before
  Gelijktijdig,    \* other operations run between the two halves of a request
  MaxDatum         \* bound: dates

AllWijzen == {"afgehandeld", "hoofdzaak", "eigenschap", "ander_datumkenmerk", "ingangsdatum_besluit",
              "vervaldatum_besluit", "zaakobject", "termijn", "gerelateerde_zaak"}
AllOps == {"status", "omschrijving", "hoofdzaak", "handmatig", "archiveer", "resultaat", "herzien",
           "verplaats", "geenresultaat", "kenmerk", "besluit", "object", "document", "samen"}

ASSUME AfhandelingAssumption ==
  /\ None \notin Zaken
  /\ Hoofdzaken \subseteq Zaken
  /\ Wijzen \subseteq AllWijzen
  /\ Termijnen \subseteq Nat
  /\ Procestermijn \in Nat
  /\ Relevant \subseteq Zaken
  /\ Nachten \subseteq BOOLEAN
  /\ Ops \subseteq AllOps
  /\ Geforceerd \in BOOLEAN /\ Chronologisch \in BOOLEAN /\ Gelijktijdig \in BOOLEAN
  /\ MaxDatum \in Nat \ {0}

VARIABLES
  zaak,        \* rows of Zaak
  statussen,   \* the statuses of every zaak
  resultaat,   \* the resultaattype of the result of every zaak, or None
  kenmerk,     \* what archiving may start from: the eigenschap, the besluit, the zaakobject and
               \* the related zaken of every zaak
  docs,        \* rows of EnkelvoudigInformatieObject
  zios,        \* the documents related to every zaak
  req          \* what each request has validated and has still to store

vars == <<zaak, statussen, resultaat, kenmerk, docs, zios, req>>

-----------------------------------------------------------------------------
(* Rows.  A date 0 is NULL. *)

Datum == 1..MaxDatum
Fout == -1   \* no date can be read: DetermineProcessEndDateException
Nominaties == {"blijvend_bewaren", "vernietigen"}
Resultaattype == [wijze : Wijzen, termijn : Termijnen, nominatie : Nominaties]

Row == [hoofdzaak : Zaken \cup {None}, einddatum : Datum \cup {0},
        nominatie : Nominaties \cup {None}, startdatum : Nat, actiedatum : Nat,
        gearchiveerd : BOOLEAN]
KenmerkRow == [eigenschap : Datum \cup {0, Fout}, ingang : Datum \cup {0}, verval : Datum \cup {0},
               object : Datum \cup {Fout}, relevant : SUBSET Zaken]
StatusRow == [datum : Datum, eind : BOOLEAN]
DocRow == [locked : BOOLEAN, indicatie : BOOLEAN, gearchiveerd : BOOLEAN]

Idle == [fase |-> "vrij"]

\* Zaak.is_closed
IsClosed(z) == zaak[z].einddatum # 0

\* Zaak.current_status: the status with the latest date.
CurrentStatus(z) ==
  CHOOSE s \in statussen[z] : \A t \in statussen[z] : t.datum <= s.datum

Deelzaken(z) == {x \in Zaken : zaak[x].hoofdzaak = z}

AtEindstatus(z) == statussen[z] # {} /\ CurrentStatus(z).eind

\* A request that stores in one step, or the first half of one that does not.
MayStart == Gelijktijdig \/ \A r \in Requests : req[r] = Idle

\* A combined request saved this zaak and has still to commit: others wait for its row.
Vast(z) == \E r \in Requests : req[r].fase = "samen_save" /\ req[r].zaak = z

\* ClosedZaakMixin
MayChange(z) == ~IsClosed(z) \/ Geforceerd

-----------------------------------------------------------------------------
(* Archiving. *)

\* The last of some dates, with 0 for None.
Laatste(data) == CHOOSE d \in data : \A e \in data : e <= d

\* get_brondatum(), with 0 for None
GetBrondatum(z, row, rt, datum) ==
  CASE rt.wijze = "afgehandeld" -> datum
    [] rt.wijze = "hoofdzaak" -> IF row.hoofdzaak = None THEN Fout ELSE zaak[row.hoofdzaak].einddatum
    [] rt.wijze = "eigenschap" -> kenmerk[z].eigenschap
    [] rt.wijze = "ander_datumkenmerk" -> 0
    [] rt.wijze = "ingangsdatum_besluit" -> IF kenmerk[z].ingang = 0 THEN Fout ELSE kenmerk[z].ingang
    [] rt.wijze = "vervaldatum_besluit" -> kenmerk[z].verval
    [] rt.wijze = "zaakobject" -> kenmerk[z].object
    [] rt.wijze = "termijn" -> datum + Procestermijn
    [] rt.wijze = "gerelateerde_zaak" ->
         IF kenmerk[z].relevant = {} THEN Fout
         ELSE Laatste({zaak[x].einddatum : x \in kenmerk[z].relevant})

\* BrondatumCalculator.calculate(): a date that is there already is kept.
Calculate(z, row, rt, datum, force) ==
  IF rt.termijn = 0 THEN 0
  ELSE IF row.startdatum # 0 /\ ~force THEN row.startdatum
  ELSE GetBrondatum(z, row, rt, datum)

\* Mutant: the error is not handled.
ArchivedOnError(row, rt, bron) ==
  IF bron = 0 THEN [row EXCEPT !.nominatie = rt.nominatie]
  ELSE [row EXCEPT !.nominatie = rt.nominatie, !.startdatum = bron, !.actiedatum = bron + rt.termijn]

\* calculate_archiving_data() applied to the columns it names.
Archived(row, rt, bron) ==
  IF bron = Fout THEN row
  ELSE IF bron = 0 THEN [row EXCEPT !.nominatie = rt.nominatie]
  ELSE [row EXCEPT !.nominatie = rt.nominatie, !.startdatum = bron, !.actiedatum = bron + rt.termijn]

\* try_calculate_archiving(): nothing happens to a zaak that is open.
TryArchive(z, row, rt, force) ==
  IF row.einddatum = 0 \/ rt = None THEN row
  ELSE Archived(row, rt, Calculate(z, row, rt, row.einddatum, force))

NotArchived(row) == [row EXCEPT !.nominatie = None, !.startdatum = 0, !.actiedatum = 0]

\* Mutant: deelzaken keep their archiving when the hoofdzaak is reopened.
UpdateClosedDeelzaak(row, rt, closed, bron) ==
  IF ~closed THEN row
  ELSE [row EXCEPT !.nominatie = rt.nominatie, !.startdatum = bron,
                   !.actiedatum = IF bron = 0 \/ rt.termijn = 0 THEN 0 ELSE bron + rt.termijn]

\* update_deelzaken(), for one deelzaak
UpdateDeelzaak(row, rt, closed, bron) ==
  [row EXCEPT !.nominatie = IF closed THEN rt.nominatie ELSE None,
              !.startdatum = bron,
              !.actiedatum = IF bron = 0 \/ rt.termijn = 0 THEN 0 ELSE bron + rt.termijn]

\* A deelzaak whose archiving follows from its hoofdzaak.
FollowsHoofdzaak(row, rt) == row.hoofdzaak # None /\ rt # None /\ rt.wijze = "hoofdzaak"

-----------------------------------------------------------------------------
Init ==
  /\ zaak \in [Zaken -> {[hoofdzaak |-> h, einddatum |-> 0, nominatie |-> None, startdatum |-> 0,
                          actiedatum |-> 0, gearchiveerd |-> FALSE] : h \in Hoofdzaken \cup {None}}]
  /\ \A z \in Zaken : zaak[z].hoofdzaak # None => zaak[zaak[z].hoofdzaak].hoofdzaak = None
                                                   /\ zaak[z].hoofdzaak # z
  /\ statussen = [z \in Zaken |-> {}]
  /\ resultaat = [z \in Zaken |-> None]
  /\ kenmerk \in [Zaken -> {[eigenschap |-> 0, ingang |-> 0, verval |-> 0, object |-> Fout,
                              relevant |-> xs] : xs \in SUBSET Relevant}]
  /\ docs = [d \in Docs |-> [locked |-> FALSE, indicatie |-> FALSE, gearchiveerd |-> FALSE]]
  /\ zios = [z \in Zaken |-> {}]
  /\ req = [r \in Requests |-> Idle]

\* Mutant: the documents are not looked at.
DocumentsUnchecked(z) == TRUE

\* EndStatusIOsUnlockedValidator, EndStatusIOsIndicatieGebruiksrechtValidator
DocumentsReady(z) == \A d \in zios[z] : ~docs[d].locked /\ docs[d].indicatie

\* Mutant: deelzaken need not be closed.
DeelzakenUnchecked(z) == TRUE

\* EndStatusDeelZakenValidator
DeelzakenReady(z) == \A x \in Deelzaken(z) : AtEindstatus(x)

\* StatusSerializer.validate(): the date from which the zaak is archived can be
\* determined, or later.
ResultaatReady(z, row, rt, datum) ==
  LET bron == Calculate(z, row, rt, datum, FALSE)
  IN /\ rt # None
     /\ \/ FollowsHoofdzaak(row, rt)
        \/ /\ bron # Fout
           /\ bron = 0 => rt.wijze \in {"vervaldatum_besluit", "eigenschap", "ander_datumkenmerk"}
                            \/ rt.nominatie = "blijvend_bewaren"
           /\ \A x \in Deelzaken(z) : resultaat[x] # None

\* DeelzaakReopenValidator
HoofdzaakReady(row) == row.hoofdzaak # None => ~AtEindstatus(row.hoofdzaak)

\* Mutant: the date of the status.
DatumVoorDeelzaken(z, row, rt, datum) == datum

\* The date that a hoofdzaak passes on to its deelzaken.
BronVoorDeelzaken(z, row, rt, datum) ==
  IF rt = None \/ FollowsHoofdzaak(row, rt) THEN 0 ELSE Calculate(z, row, rt, datum, FALSE)

\* The date in UTC of a moment that is on a date for the client.
Utc(datum, nacht) == IF nacht THEN datum - 1 ELSE datum

\* The validators of StatusSerializer, for a zaak with this row and result.
StatusReady(z, row, rt, datum, nacht, eind) ==
  /\ nacht => datum > 1
  /\ \A s \in statussen[z] : IF Chronologisch THEN s.datum < datum ELSE s.datum # datum
  /\ ~row.gearchiveerd
  /\ eind => DocumentsReady(z) /\ DeelzakenReady(z) /\ ResultaatReady(z, row, rt, Utc(datum, nacht))
  /\ ~eind => HoofdzaakReady(row)

\* What a request knows when it is going to store a status.
MetStatus(fase, z, row, rt, datum, nacht, eind) ==
  [fase |-> fase, zaak |-> z, datum |-> datum, utc |-> Utc(datum, nacht), eind |-> eind,
   rij |-> row, rt |-> rt,
   bron |-> IF eind THEN BronVoorDeelzaken(z, row, rt, Utc(datum, nacht)) ELSE 0]

\* POST of a status, up to the transaction.
StatusRead(r, z, datum, nacht, eind) ==
  /\ "status" \in Ops /\ MayStart /\ req[r] = Idle
  /\ StatusReady(z, zaak[z], resultaat[z], datum, nacht, eind)
  /\ req' = [req EXCEPT ![r] = MetStatus("status", z, zaak[z], resultaat[z], datum, nacht, eind)]
  /\ UNCHANGED <<zaak, statussen, resultaat, kenmerk, docs, zios>>

\* Mutant: archiving is not reset.
ReopenedAsIs(row) == row

\* The archiving columns of a zaak that is reopened.
Reopened(row) == NotArchived(row)

\* Mutant: einddatum stays when the zaak is reopened.
EinddatumKept(q) == IF q.eind THEN q.datum ELSE q.rij.einddatum

\* The einddatum that a status gives its zaak.
Einddatum(q) == IF q.eind THEN q.datum ELSE 0

\* The row of the zaak after its status, which leaves the other columns of the table alone.
AfterStatus(q, oud) ==
  LET row == [oud EXCEPT !.einddatum = Einddatum(q)]
  IN IF FollowsHoofdzaak(q.rij, q.rt) THEN row
     ELSE IF q.eind
       THEN IF q.rt = None THEN row
            ELSE Archived(row, q.rt, Calculate(q.zaak, q.rij, q.rt, q.utc, FALSE))
     ELSE IF q.rij.einddatum # 0 THEN Reopened(row)
     ELSE row

\* Status.Meta.unique_together
Taken(q) == \E s \in statussen[q.zaak] : s.datum = q.datum

\* The status is stored, with the zaak, whose row was this, and its deelzaken.
StoreStatus(q, oud) ==
  LET changes  == q.eind \/ q.rij.einddatum # 0
      volgt(x) == changes /\ x \in Deelzaken(q.zaak) /\ FollowsHoofdzaak(zaak[x], resultaat[x])
  IN /\ statussen' = [statussen EXCEPT ![q.zaak] = @ \cup {[datum |-> q.datum, eind |-> q.eind]}]
     /\ zaak' = [x \in Zaken |->
          IF x = q.zaak THEN AfterStatus(q, oud)
          ELSE IF volgt(x) THEN UpdateDeelzaak(zaak[x], resultaat[x], q.eind, q.bron)
          ELSE zaak[x]]
     /\ \A x \in Deelzaken(q.zaak) : ~Vast(x)

\* The transaction of a status; it fails if the date is taken meanwhile.
StatusWrite(r) ==
  LET q == req[r]
  IN /\ req[r].fase = "status" /\ ~Vast(q.zaak)
     /\ req' = [req EXCEPT ![r] = Idle]
     /\ IF Taken(q) THEN UNCHANGED <<zaak, statussen>> ELSE StoreStatus(q, zaak[q.zaak])
     /\ UNCHANGED <<resultaat, kenmerk, docs, zios>>

\* ZaakArchiveIOsArchivedValidator
Archivable(z, row) ==
  row.gearchiveerd => /\ \A d \in zios[z] : docs[d].gearchiveerd
                      /\ row.nominatie # None /\ row.actiedatum # 0

\* What a PATCH makes of the row that it read.  HoofdzaakValidator looks at the
\* hoofdzaak only.
Patched(z) ==
  (IF "omschrijving" \in Ops THEN {zaak[z]} ELSE {})
  \cup (IF "hoofdzaak" \in Ops
          THEN {[zaak[z] EXCEPT !.hoofdzaak = h] :
                  h \in {x \in Zaken \ {z} : zaak[x].hoofdzaak = None} \cup {None}}
          ELSE {})
  \cup (IF "handmatig" \in Ops
          THEN {[zaak[z] EXCEPT !.startdatum = datum, !.actiedatum = datum] : datum \in Datum \cup {0}}
          ELSE {})
  \cup (IF "archiveer" \in Ops THEN {[zaak[z] EXCEPT !.gearchiveerd = TRUE]} ELSE {})

\* PUT or PATCH of a zaak: the row is read and validated, ...
PatchRead(r, z, row) ==
  /\ MayStart /\ req[r] = Idle
  /\ Archivable(z, row)
  /\ req' = [req EXCEPT ![r] = [fase |-> "zaak", zaak |-> z, rij |-> row]]
  /\ UNCHANGED <<zaak, statussen, resultaat, kenmerk, docs, zios>>

\* ... perform_update() reads it again to see whether it is closed, ...
PatchCheck(r) ==
  /\ req[r].fase = "zaak"
  /\ req' = [req EXCEPT ![r] = IF MayChange(@.zaak) THEN [@ EXCEPT !.fase = "zaak_save"] ELSE Idle]
  /\ UNCHANGED <<zaak, statussen, resultaat, kenmerk, docs, zios>>

\* The row that is stored has another einddatum than the table: archiving is done again.
Again(z, row) == row.einddatum # 0 /\ row.einddatum # zaak[z].einddatum

\* What Zaak.save() makes of a row.
Saved(z, row) ==
  IF Again(z, row) /\ resultaat[z] # None /\ resultaat[z].wijze = "afgehandeld"
    THEN TryArchive(z, row, resultaat[z], TRUE)
    ELSE row

\* ... and Zaak.save() stores every column, and archiving again if that changes einddatum.
PatchWrite(r) ==
  LET q       == req[r]
      z       == q.zaak
      volgt(x) == /\ Again(z, q.rij) /\ x # z /\ zaak[x].hoofdzaak = z
                  /\ FollowsHoofdzaak(zaak[x], resultaat[x])
      deel(x) == IF zaak[x].einddatum = 0 THEN zaak[x]
                 ELSE Archived(zaak[x], resultaat[x],
                               IF resultaat[x].termijn = 0 THEN 0 ELSE q.rij.einddatum)
  IN /\ req[r].fase = "zaak_save" /\ ~Vast(z) /\ \A x \in Zaken : volgt(x) => ~Vast(x)
     /\ req' = [req EXCEPT ![r] = Idle]
     /\ zaak' = [x \in Zaken |->
          IF x = z THEN Saved(z, q.rij) ELSE IF volgt(x) THEN deel(x) ELSE zaak[x]]
     /\ UNCHANGED <<statussen, resultaat, kenmerk, docs, zios>>

\* The combined endpoints (closing, updating, suspending, extending): the zaak is read, and what
\* is closed is refused, ...
SamenRead(r, z, row) ==
  /\ "samen" \in Ops /\ MayStart /\ req[r] = Idle
  /\ MayChange(z) /\ Archivable(z, row)
  /\ req' = [req EXCEPT ![r] = [fase |-> "samen", zaak |-> z, rij |-> row]]
  /\ UNCHANGED <<zaak, statussen, resultaat, kenmerk, docs, zios>>

\* ... it is saved, with the result that closes it, and the status is validated against
\* that; only the closing endpoint, which takes a result, accepts an end status, ...  What the
\* save does to deelzaken is overwritten by the status.
SamenSave(r, rt, datum, nacht, eind) ==
  LET z    == req[r].zaak
      oud  == Saved(z, req[r].rij)
      row  == IF eind THEN TryArchive(z, oud, rt, FALSE) ELSE oud
  IN /\ req[r].fase = "samen" /\ ~Vast(z)
     /\ IF eind THEN resultaat[z] = None ELSE rt = resultaat[z]
     /\ StatusReady(z, row, rt, datum, nacht, eind)
     /\ req' = [req EXCEPT ![r] = MetStatus("samen_save", z, row, rt, datum, nacht, eind)]
     /\ UNCHANGED <<zaak, statussen, resultaat, kenmerk, docs, zios>>

\* ... and the status is stored and all of it committed, ...
SamenWrite(r) ==
  LET q == req[r]
  IN /\ req[r].fase = "samen_save" /\ ~Taken(q)
     /\ req' = [req EXCEPT ![r] = Idle]
     /\ StoreStatus(q, q.rij)
     /\ resultaat' = [resultaat EXCEPT ![q.zaak] = q.rt]
     /\ UNCHANGED <<kenmerk, docs, zios>>

\* ... or nothing is: what is validated on the way undoes what was saved before.
SamenFails(r) ==
  /\ req[r].fase \in {"samen", "samen_save"}
  /\ req' = [req EXCEPT ![r] = Idle]
  /\ UNCHANGED <<zaak, statussen, resultaat, kenmerk, docs, zios>>

\* POST of a result; a zaak that is closed already can now be archived.
ResultaatCreate(z, rt) ==
  /\ "resultaat" \in Ops /\ MayStart /\ MayChange(z) /\ ~Vast(z)
  /\ ~zaak[z].gearchiveerd /\ resultaat[z] = None
  /\ resultaat' = [resultaat EXCEPT ![z] = rt]
  /\ zaak' = [zaak EXCEPT ![z] = TryArchive(z, @, rt, FALSE)]
  /\ UNCHANGED <<statussen, kenmerk, docs, zios, req>>

\* PUT or PATCH of a result: its resultaattype cannot change, its zaak can.  The zaak that it
\* leaves keeps the archiving that it has.
ResultaatUpdate(z, x) ==
  /\ MayStart /\ MayChange(z) /\ ~Vast(z) /\ ~Vast(x)
  /\ resultaat[z] # None /\ ~zaak[x].gearchiveerd
  /\ IF x = z THEN "herzien" \in Ops ELSE "verplaats" \in Ops /\ resultaat[x] = None
  /\ resultaat' = [resultaat EXCEPT ![z] = None, ![x] = resultaat[z]]
  /\ zaak' = [zaak EXCEPT ![x] = TryArchive(x, @, resultaat[z], FALSE)]
  /\ UNCHANGED <<statussen, kenmerk, docs, zios, req>>

\* DELETE of a result
ResultaatDelete(z) ==
  /\ "geenresultaat" \in Ops /\ MayStart /\ MayChange(z) /\ ~Vast(z)
  /\ resultaat[z] # None
  /\ resultaat' = [resultaat EXCEPT ![z] = None]
  /\ zaak' = [zaak EXCEPT ![z] = [@ EXCEPT !.startdatum = 0, !.actiedatum = 0]]
  /\ UNCHANGED <<statussen, kenmerk, docs, zios, req>>

\* The row of a zaak after a date changed that a way of archiving starts from.
Recalculated(z, wijze, datum) ==
  LET rt == resultaat[z]
  IN IF IsClosed(z) /\ rt # None /\ rt.wijze = wijze
       THEN Archived(zaak[z], rt, IF rt.termijn = 0 THEN 0 ELSE datum)
       ELSE zaak[z]

\* POST or PATCH of a zaakeigenschap; its value need not be a date.
EigenschapSave(z, datum) ==
  /\ "kenmerk" \in Ops /\ MayStart /\ MayChange(z) /\ ~Vast(z)
  /\ ~zaak[z].gearchiveerd /\ datum # kenmerk[z].eigenschap
  /\ kenmerk' = [kenmerk EXCEPT ![z].eigenschap = datum]
  /\ zaak' = [zaak EXCEPT ![z] = Recalculated(z, "eigenschap", datum)]
  /\ UNCHANGED <<statussen, resultaat, docs, zios, req>>

\* POST or PATCH of a zaakobject with a date: its details are stored anew.
ObjectSave(z, datum) ==
  /\ "object" \in Ops /\ MayStart /\ MayChange(z) /\ ~Vast(z)
  /\ ~zaak[z].gearchiveerd /\ datum # kenmerk[z].object
  /\ kenmerk' = [kenmerk EXCEPT ![z].object = datum]
  /\ zaak' = [zaak EXCEPT ![z] = Recalculated(z, "zaakobject", datum)]
  /\ UNCHANGED <<statussen, resultaat, docs, zios, req>>

\* DELETE of a zaakeigenschap or zaakobject: nothing is recalculated.
KenmerkDelete(z, veld, leeg) ==
  /\ MayStart /\ MayChange(z)
  /\ kenmerk[z][veld] # leeg
  /\ kenmerk' = [kenmerk EXCEPT ![z] = [@ EXCEPT ![veld] = leeg]]
  /\ UNCHANGED <<zaak, statussen, resultaat, docs, zios, req>>

\* The row of a zaak after the dates of its besluit: an empty vervaldatum clears the archiving.
BesluitGewijzigd(z, ingang, verval) ==
  IF IsClosed(z) /\ resultaat[z] # None /\ resultaat[z].wijze = "vervaldatum_besluit"
    THEN IF verval = 0 THEN [zaak[z] EXCEPT !.startdatum = 0, !.actiedatum = 0]
         ELSE Recalculated(z, "vervaldatum_besluit", verval)
    ELSE Recalculated(z, "ingangsdatum_besluit", ingang)

\* POST or PATCH of a besluit, also for a zaak that is closed or archived
BesluitSave(z, ingang, verval) ==
  /\ "besluit" \in Ops /\ MayStart /\ ~Vast(z)
  /\ <<ingang, verval>> # <<kenmerk[z].ingang, kenmerk[z].verval>>
  /\ kenmerk' = [kenmerk EXCEPT ![z] = [@ EXCEPT !.ingang = ingang, !.verval = verval]]
  /\ zaak' = [zaak EXCEPT ![z] = BesluitGewijzigd(z, ingang, verval)]
  /\ UNCHANGED <<statussen, resultaat, docs, zios, req>>

\* DELETE of a besluit
BesluitDelete(z) ==
  /\ MayStart /\ kenmerk[z].ingang # 0
  /\ kenmerk' = [kenmerk EXCEPT ![z] = [@ EXCEPT !.ingang = 0, !.verval = 0]]
  /\ UNCHANGED <<zaak, statussen, resultaat, docs, zios, req>>

\* Another part of the system changes a document.
DocumentChange(d) ==
  /\ "document" \in Ops /\ MayStart
  /\ \/ docs' = [docs EXCEPT ![d].locked = ~@]
     \/ docs' = [docs EXCEPT ![d].indicatie = ~@]
     \/ "archiveer" \in Ops /\ docs' = [docs EXCEPT ![d].gearchiveerd = ~@]
  /\ UNCHANGED <<zaak, statussen, resultaat, kenmerk, zios, req>>

\* POST or DELETE of a zaakinformatieobject
Relate(z, d) ==
  /\ "document" \in Ops /\ MayStart /\ MayChange(z)
  /\ \/ d \notin zios[z] /\ ~zaak[z].gearchiveerd /\ zios' = [zios EXCEPT ![z] = @ \cup {d}]
     \/ d \in zios[z] /\ zios' = [zios EXCEPT ![z] = @ \ {d}]
  /\ UNCHANGED <<zaak, statussen, resultaat, kenmerk, docs, req>>

Next ==
  \/ \E r \in Requests :
       \/ \E z \in Zaken, datum \in Datum, nacht \in Nachten, eind \in BOOLEAN :
            StatusRead(r, z, datum, nacht, eind)
       \/ StatusWrite(r)
       \/ \E z \in Zaken : \E row \in Patched(z) : PatchRead(r, z, row)
       \/ PatchCheck(r)
       \/ PatchWrite(r)
       \/ \E z \in Zaken : \E row \in Patched(z) : SamenRead(r, z, row)
       \/ \E rt \in Resultaattype \cup {None}, datum \in Datum, nacht \in Nachten, eind \in BOOLEAN :
            SamenSave(r, rt, datum, nacht, eind)
       \/ SamenWrite(r)
       \/ SamenFails(r)
  \/ \E z \in Zaken :
       \/ \E rt \in Resultaattype : ResultaatCreate(z, rt)
       \/ \E x \in Zaken : ResultaatUpdate(z, x)
       \/ ResultaatDelete(z)
       \/ \E datum \in Datum \cup {Fout} : EigenschapSave(z, datum)
       \/ \E datum \in Datum \cup {Fout} : ObjectSave(z, datum)
       \/ KenmerkDelete(z, "eigenschap", 0)
       \/ KenmerkDelete(z, "object", Fout)
       \/ \E ingang \in Datum, verval \in Datum \cup {0} : BesluitSave(z, ingang, verval)
       \/ BesluitDelete(z)
       \/ \E d \in Docs : Relate(z, d)
  \/ \E d \in Docs : DocumentChange(d)

Spec == Init /\ [][Next]_vars

-----------------------------------------------------------------------------
(* Properties *)

Verzoek == [fase : {"vrij"}]
  \cup [fase : {"status", "samen_save"}, zaak : Zaken, datum : Datum, utc : Datum, eind : BOOLEAN, rij : Row,
        rt : Resultaattype \cup {None}, bron : Nat]
  \cup [fase : {"zaak", "zaak_save", "samen"}, zaak : Zaken, rij : Row]

\* The variables have their types.
TypeOK ==
  /\ zaak \in [Zaken -> Row]
  /\ statussen \in [Zaken -> SUBSET StatusRow]
  /\ resultaat \in [Zaken -> Resultaattype \cup {None}]
  /\ kenmerk \in [Zaken -> KenmerkRow]
  /\ docs \in [Docs -> DocRow]
  /\ zios \in [Zaken -> SUBSET Docs]
  /\ req \in [Requests -> Verzoek]

\* A zaak is closed exactly when its latest status is an end status.
EindstatusCloses == \A z \in Zaken : IsClosed(z) <=> AtEindstatus(z)

\* The einddatum of a zaak is the date of one of its end statuses.
EinddatumFromStatus ==
  \A z \in Zaken : IsClosed(z) => \E s \in statussen[z] : s.eind /\ s.datum = zaak[z].einddatum

\* The deelzaken of a closed hoofdzaak are closed.
DeelzakenClosed == \A z \in Zaken : IsClosed(z) => \A x \in Deelzaken(z) : IsClosed(x)

\* A zaak that is open, or whose hoofdzaak is open and decides, has no archiving.
OpenNotArchived ==
  \A z \in Zaken :
    ~IsClosed(z) \/ (FollowsHoofdzaak(zaak[z], resultaat[z]) /\ ~IsClosed(zaak[z].hoofdzaak))
      => zaak[z].actiedatum = 0 /\ zaak[z].startdatum = 0

\* The archiving of a closed zaak follows from its result.
ArchiveMatches ==
  \A z \in Zaken : IsClosed(z) /\ zaak[z].actiedatum # 0 =>
    /\ resultaat[z] # None
    /\ zaak[z].actiedatum = zaak[z].startdatum + resultaat[z].termijn
    /\ zaak[z].nominatie = resultaat[z].nominatie

\* The archiving follows from closing, reopening and the results, of the zaak and of
\* its hoofdzaak.
ArchivingFollows == OpenNotArchived /\ ArchiveMatches

\* The archiving of a closed zaak starts on the date that its eigenschap, zaakobject or besluit
\* has now, as long as it is there and has a date.
StartsAtKenmerk ==
  \A z \in Zaken :
    IsClosed(z) /\ resultaat[z] # None /\ resultaat[z].termijn # 0 =>
      LET k == kenmerk[z]
      IN /\ resultaat[z].wijze = "eigenschap" /\ k.eigenschap \in Datum => zaak[z].startdatum = k.eigenschap
         /\ resultaat[z].wijze = "zaakobject" /\ k.object \in Datum => zaak[z].startdatum = k.object
         /\ resultaat[z].wijze = "ingangsdatum_besluit" /\ k.ingang # 0 => zaak[z].startdatum = k.ingang
         /\ resultaat[z].wijze = "vervaldatum_besluit" /\ k.ingang # 0 => zaak[z].startdatum = k.verval

\* A deelzaak that follows its hoofdzaak is archived from the same date; if the hoofdzaak
\* has none and the result of the deelzaak is stored again, from the close of the hoofdzaak.
DeelzaakFollows ==
  \A z \in Zaken : FollowsHoofdzaak(zaak[z], resultaat[z]) /\ IsClosed(zaak[z].hoofdzaak) =>
    LET hoofd == zaak[zaak[z].hoofdzaak]
    IN \/ zaak[z].startdatum = hoofd.startdatum
       \/ "herzien" \in Ops /\ hoofd.startdatum = 0 /\ zaak[z].startdatum = hoofd.einddatum

\* What a closed zaak is archived from is what its result, or that of its hoofdzaak, says.
BewaartermijnBegint == StartsAtKenmerk /\ DeelzaakFollows

\* An archived zaak has a nominatie and an actiedatum.
ArchivedComplete ==
  \A z \in Zaken : zaak[z].gearchiveerd => zaak[z].nominatie # None /\ zaak[z].actiedatum # 0

\* When a zaak is closed, its documents are unlocked and say whether there are
\* usage rights.
ClosesWithDocumentsReady ==
  [][\A z \in Zaken : ~IsClosed(z) /\ IsClosed(z)' =>
       \A d \in zios'[z] : ~docs'[d].locked /\ docs'[d].indicatie]_vars

=============================================================================
