-------------------------- MODULE DocumentRegistratie --------------------------
(***************************************************************************)
(* The numbers of documents and their dispatches.  A number is named by    *)
(* the client, reserved beforehand, generated for a new document or given  *)
(* by the bulk import.  Unlike the numbers of zaken they are handed out    *)
(* without a lock, and no constraint of the database keeps the numbers of  *)
(* documents apart: versions of a document share one.                      *)
(*                                                                         *)
(* A request reads (the greatest number, the rows it validates against)    *)
(* and then writes in one transaction; others may commit in between.       *)
(* Versions, locks and relations of documents are in Documenten.           *)
(***************************************************************************)
EXTENDS Integers, FiniteSets, Sequences

CONSTANTS
  Docs,           \* documents
  Orgs,           \* bronorganisaties
  Verzendingen,   \* dispatches
  Kanalen,        \* contact channels in use, see AlleKanalen
  Niets,          \* no request, no dispatch
  Werkers,        \* requests being served at the same time
  Batch,          \* IMPORT_DOCUMENTEN_BATCH_SIZE
  MaxAantal,      \* bound: numbers reserved at once
  MaxNr,          \* bound: numbers of a year
  MaxVersies      \* bound: versions of a document

AlleKanalen == {"binnenland", "buitenland", "postadres", "telefoon", "fax", "email", "mijnoverheid"}

ASSUME RegistratieAssumption ==
  /\ MaxNr \in Nat /\ MaxAantal \in Nat
  /\ Batch \in Nat \ {0} /\ MaxVersies \in Nat \ {0}
  /\ Kanalen \subseteq AlleKanalen

VARIABLES
  rijen,         \* of each document: the numbers of its versions, none if it is not there
  gereserveerd,  \* rows of ReservedDocument
  verzending,    \* rows of Verzending
  tx,            \* what each request read and is going to write
  ingehaald,     \* numbers that others took after a request had read them as free
  dubbel,        \* numbers that an import gave to two rows of a batch
  overgenomen,   \* numbers that an update took from another document
  voorbij        \* reserved numbers that an import took

merken == <<ingehaald, dubbel, overgenomen, voorbij>>
registratieVars == <<rijen, gereserveerd, verzending, tx, merken>>

-----------------------------------------------------------------------------
\* bronorganisatie and identificatie; those of a year are numbered from 1.
Sleutel == [org : Orgs, nr : 1..MaxNr]
Nummer(org, nr) == [org |-> org, nr |-> nr]

\* A version to be stored: of a document, with a number, that the client named or not
Rij == [doc : Docs, sleutel : Sleutel, genoemd : BOOLEAN]
VanDoc(d, k, genoemd) == [doc |-> d, sleutel |-> k, genoemd |-> genoemd]

Verzonden == [doc : Docs, kanalen : SUBSET Kanalen]

RegistratieInit ==
  /\ rijen = [d \in Docs |-> <<>>]
  /\ gereserveerd = {}
  /\ verzending = [v \in Verzendingen |-> Niets]
  /\ tx = [w \in Werkers |-> Niets]
  /\ ingehaald = {} /\ dubbel = {} /\ overgenomen = {} /\ voorbij = {}

Aanwezig(d) == rijen[d] # <<>>
Sleutels(d) == {rijen[d][i] : i \in DOMAIN rijen[d]}
Gebruikt == UNION {Sleutels(d) : d \in Docs}
Nrs(S) == {k.nr : k \in S}
Laatste(d) == rijen[d][Len(rijen[d])]

\* No row has this uuid, and no request is going to store it.
Ongebruikt(d) ==
  /\ ~Aanwezig(d)
  /\ \A w \in Werkers : tx[w] # Niets =>
       /\ \A i \in DOMAIN tx[w].nieuw : tx[w].nieuw[i].doc # d
       /\ tx[w].rij # Niets => tx[w].rij.doc # d

MaxVan(S) == CHOOSE x \in S : \A y \in S : y <= x

\* Mutant: the numbers that were reserved are not looked at.
HoogsteUitgegeven(org) == MaxVan(Nrs(Gebruikt) \cup {0})

\* generate_document_identificatie: after the greatest that a document of any organisation
\* has, or that this organisation reserved
Hoogste(org) == MaxVan(Nrs(Gebruikt) \cup Nrs({k \in gereserveerd : k.org = org}) \cup {0})

\* generate_unique_identification, for the import, only looks at documents.
HoogsteVanDocumenten == MaxVan(Nrs(Gebruikt) \cup {0})

\* Mutant: any number will do.
AltijdVrij(k, d) == TRUE

\* UniekeIdentificatieValidator: no other document has it.
Vrij(k, d) == \A e \in Docs \ {d} : k \notin Sleutels(e)

Taak(op) ==
  [op |-> op, nieuw |-> <<>>, versie |-> 0, sleutels |-> {}, verz |-> Niets, rij |-> Niets]

Met(w, t) == tx' = [tx EXCEPT ![w] = t]

-----------------------------------------------------------------------------
(* Reading and validating. *)

Lees(w, t) ==
  /\ tx[w] = Niets
  /\ Met(w, t)
  /\ UNCHANGED <<rijen, gereserveerd, verzending, merken>>

\* A new version of d, whose number is named (nr) or generated (0)
NieuweVersie(w, op, d, org, nr) ==
  LET k == Nummer(org, IF nr = 0 THEN Hoogste(org) + 1 ELSE nr) IN
  /\ k \in Sleutel
  /\ Lees(w, [Taak(op) EXCEPT !.nieuw = <<VanDoc(d, k, nr # 0)>>, !.versie = Len(rijen[d])])

Wijzigbaar(d) == Aanwezig(d) /\ Len(rijen[d]) < MaxVersies

\* POST, alone or with the relation to a zaak.
Maak(w, d, org, nr) ==
  /\ Ongebruikt(d)
  /\ nr # 0 => Vrij(Nummer(org, nr), d)
  /\ NieuweVersie(w, "maak", d, org, nr)

\* PUT: generates a number when the request leaves it out, and does not check whether the
\* number it names is free.
PutDocument(w, d, org, nr) == Wijzigbaar(d) /\ NieuweVersie(w, "wijzig", d, org, nr)

\* PATCH: the number that the request leaves out is copied from the version before, and
\* counts as named.  (A PATCH that names one is as a PUT.)
PatchDocument(w, d) == Wijzigbaar(d) /\ NieuweVersie(w, "wijzig", d, Laatste(d).org, Laatste(d).nr)

\* The numbers that follow are reserved.
Reserveer(w, org, aantal) ==
  LET eerste == Hoogste(org) + 1 IN
  /\ eerste + aantal - 1 <= MaxNr
  /\ Lees(w, [Taak("reserveer") EXCEPT
                !.sleutels = {Nummer(org, n) : n \in eerste..(eerste + aantal - 1)}])

\* A batch of the import: _get_identifiers() makes a number for each row, from the last to
\* the first, and a row that has a number of its own leaves it unused.
Importeer(w, docs, orgs, nrs) ==
  LET k(i) == Nummer(orgs[i], IF nrs[i] = 0 THEN HoogsteVanDocumenten + Batch + 1 - i ELSE nrs[i]) IN
  /\ \A i \in DOMAIN docs : /\ Ongebruikt(docs[i]) /\ k(i) \in Sleutel
                            /\ nrs[i] # 0 => Vrij(k(i), docs[i])
                            /\ \A j \in DOMAIN docs : docs[i] = docs[j] => i = j
  /\ Lees(w, [Taak("importeer") EXCEPT
                !.nieuw = [i \in DOMAIN docs |-> VanDoc(docs[i], k(i), nrs[i] # 0)]])

-----------------------------------------------------------------------------
(* Writing. *)

Schrijft(w, ops) == tx[w] # Niets /\ tx[w].op \in ops

\* The numbers that w is going to store, for other documents than D
Neemt(w, D) ==
  LET nieuw == tx[w].nieuw
  IN tx[w].sleutels \cup {nieuw[i].sleutel : i \in {j \in DOMAIN nieuw : nieuw[j].doc \notin D}}

\* What w takes although another request read that it is free
Haalt(w) ==
  ingehaald' = ingehaald \cup
    UNION {Neemt(w, {}) \cap Neemt(v, {tx[w].nieuw[i].doc : i \in DOMAIN tx[w].nieuw}) :
             v \in {u \in Werkers \ {w} : tx[u] # Niets}}

\* InformatieObject.save(): a document that names a reserved number uses it up.
Verbruikt(rij) == {k \in gereserveerd : rij.genoemd /\ k = rij.sleutel}

\* There is no second version with the same number, nor a version of a document that is gone.
Schrijf(w) ==
  /\ Schrijft(w, {"maak", "wijzig"})
  /\ LET rij == tx[w].nieuw[1] IN
     IF Len(rijen[rij.doc]) = tx[w].versie
     THEN /\ rijen' = [rijen EXCEPT ![rij.doc] = Append(@, rij.sleutel)]
          /\ gereserveerd' = gereserveerd \ Verbruikt(rij)
          /\ overgenomen' = IF Schrijft(w, {"wijzig"}) /\ rij.genoemd /\ ~Vrij(rij.sleutel, rij.doc)
                            THEN overgenomen \cup {rij.sleutel} ELSE overgenomen
          /\ Haalt(w)
     ELSE UNCHANGED <<rijen, gereserveerd, overgenomen, ingehaald>>
  /\ Met(w, Niets)
  /\ UNCHANGED <<verzending, dubbel, voorbij>>

\* bronorganisatie_identificatie_unique_together
SchrijfReservering(w) ==
  /\ Schrijft(w, {"reserveer"})
  /\ IF tx[w].sleutels \cap gereserveerd = {}
     THEN gereserveerd' = gereserveerd \cup tx[w].sleutels /\ Haalt(w)
     ELSE UNCHANGED <<gereserveerd, ingehaald>>
  /\ Met(w, Niets)
  /\ UNCHANGED <<rijen, verzending, dubbel, overgenomen, voorbij>>

\* bulk_create() does not call save(): reservations stay.
SchrijfBatch(w) ==
  /\ Schrijft(w, {"importeer"})
  /\ LET nieuw == tx[w].nieuw
         van(d) == {i \in DOMAIN nieuw : nieuw[i].doc = d}
     IN /\ rijen' = [d \in Docs |->
             IF van(d) = {} THEN rijen[d] ELSE <<nieuw[CHOOSE i \in van(d) : TRUE].sleutel>>]
        /\ dubbel' = dubbel \cup {k \in Neemt(w, {}) :
             \E i, j \in DOMAIN nieuw : i # j /\ nieuw[i].sleutel = k /\ nieuw[j].sleutel = k}
  /\ voorbij' = voorbij \cup (gereserveerd \cap Neemt(w, {}))
  /\ Haalt(w)
  /\ Met(w, Niets)
  /\ UNCHANGED <<gereserveerd, verzending, overgenomen>>

\* A combined registration turns out to be for a closed zaak, a batch or another statement
\* fails, a worker dies: the transaction is rolled back.
Afgebroken(w) ==
  /\ tx[w] # Niets
  /\ Met(w, Niets)
  /\ UNCHANGED <<rijen, gereserveerd, verzending, merken>>

\* Mutant: the dispatches stay.
VerwijderZonderVerzendingen(d) ==
  /\ Aanwezig(d)
  /\ rijen' = [rijen EXCEPT ![d] = <<>>]
  /\ UNCHANGED <<gereserveerd, verzending, tx, merken>>

\* DELETE: the versions and the dispatches go with the canonical row.
Verwijder(d) ==
  /\ Aanwezig(d)
  /\ rijen' = [rijen EXCEPT ![d] = <<>>]
  /\ verzending' = [v \in Verzendingen |->
       IF verzending[v] # Niets /\ verzending[v].doc = d THEN Niets ELSE verzending[v]]
  /\ UNCHANGED <<gereserveerd, tx, merken>>

-----------------------------------------------------------------------------
(* Dispatches. *)

\* VerzendingAddressValidator: counts the telephone number twice and the fax number never.
Geldig(K) == Cardinality(K \ {"fax"}) + Cardinality(K \cap {"telefoon"}) = 1

\* A PATCH is validated with the row that was read.
PatchGeldig(K, aan, uit) == Geldig((K \cup aan) \ uit)

VerzendingTaak(v, d, K) ==
  [Taak("verzending") EXCEPT !.verz = v, !.rij = [doc |-> d, kanalen |-> K]]

\* POST and PUT
MaakVerzending(w, v, d, K) ==
  /\ verzending[v] = Niets /\ Aanwezig(d) /\ Geldig(K)
  /\ \A u \in Werkers : tx[u] # Niets => tx[u].verz # v
  /\ Lees(w, VerzendingTaak(v, d, K))

PutVerzending(w, v, d, K) ==
  /\ verzending[v] # Niets /\ Aanwezig(d) /\ Geldig(K)
  /\ Lees(w, VerzendingTaak(v, d, K))

\* PATCH: channels that are given, and channels that are emptied
PatchVerzending(w, v, aan, uit) ==
  /\ verzending[v] # Niets
  /\ LET rij == verzending[v] IN
     /\ PatchGeldig(rij.kanalen, aan, uit)
     /\ Lees(w, VerzendingTaak(v, rij.doc, (rij.kanalen \cup aan) \ uit))

\* Every column is written, and the row is inserted if it is gone.
SchrijfVerzending(w) ==
  /\ Schrijft(w, {"verzending"})
  /\ verzending' = IF Aanwezig(tx[w].rij.doc)
                   THEN [verzending EXCEPT ![tx[w].verz] = tx[w].rij] ELSE verzending
  /\ Met(w, Niets)
  /\ UNCHANGED <<rijen, gereserveerd, merken>>

VerwijderVerzending(v) ==
  /\ verzending[v] # Niets
  /\ verzending' = [verzending EXCEPT ![v] = Niets]
  /\ UNCHANGED <<rijen, gereserveerd, tx, merken>>

-----------------------------------------------------------------------------
\* One row or two
Rijtjes(S) == {<<x>> : x \in S} \cup {<<x, y>> : x, y \in S}

NummerNext(w) ==
  \/ \E org \in Orgs :
       \/ \E d \in Docs, nr \in 0..MaxNr : Maak(w, d, org, nr) \/ PutDocument(w, d, org, nr)
       \/ \E aantal \in 1..MaxAantal : Reserveer(w, org, aantal)
  \/ \E d \in Docs : PatchDocument(w, d)
  \/ tx[w] = Niets /\ \E docs \in Rijtjes(Docs) :
       /\ Len(docs) <= Batch
       /\ \E orgs \in [DOMAIN docs -> Orgs], nrs \in [DOMAIN docs -> 0..MaxNr] :
            Importeer(w, docs, orgs, nrs)
  \/ Schrijf(w) \/ SchrijfReservering(w) \/ SchrijfBatch(w)

VerzendingNext(w) ==
  \/ \E v \in Verzendingen, K \in SUBSET Kanalen :
       \/ \E d \in Docs : MaakVerzending(w, v, d, K) \/ PutVerzending(w, v, d, K)
       \/ \E uit \in SUBSET (Kanalen \ K) : PatchVerzending(w, v, K, uit)
  \/ SchrijfVerzending(w)

RegistratieNext ==
  \/ \E w \in Werkers : NummerNext(w) \/ VerzendingNext(w) \/ Afgebroken(w)
  \/ \E d \in Docs : Verwijder(d)
  \/ \E v \in Verzendingen : VerwijderVerzending(v)

RegistratieSpec == RegistratieInit /\ [][RegistratieNext]_registratieVars

-----------------------------------------------------------------------------
Verzoek ==
  [op : {"maak", "wijzig", "reserveer", "importeer", "verzending"}, nieuw : Seq(Rij),
   versie : 0..MaxVersies, sleutels : SUBSET Sleutel, verz : Verzendingen \cup {Niets},
   rij : Verzonden \cup {Niets}]

\* Types, and the foreign keys of the dispatches.
RegistratieTypeOK ==
  /\ DOMAIN rijen = Docs
  /\ \A d \in Docs : rijen[d] \in Seq(Sleutel) /\ Len(rijen[d]) <= MaxVersies
  /\ gereserveerd \subseteq Sleutel
  /\ verzending \in [Verzendingen -> Verzonden \cup {Niets}]
  /\ \A v \in Verzendingen : verzending[v] # Niets => Aanwezig(verzending[v].doc)
  /\ DOMAIN tx = Werkers /\ \A w \in Werkers : tx[w] = Niets \/ tx[w] \in Verzoek
  /\ ingehaald \cup dubbel \cup overgenomen \cup voorbij \subseteq Sleutel

\* Two documents of an organisation only have the same number when two requests read that it
\* was free, two rows of a batch of the import have it, or an update took it: reservations,
\* deletions and generated numbers never lead to it when requests follow each other.
EenDocumentPerNummer ==
  \A d, e \in Docs : d # e => Sleutels(d) \cap Sleutels(e) \subseteq
                               ingehaald \cup dubbel \cup overgenomen

\* The holder of a reservation can use it: no document of the organisation has its number,
\* unless two requests read that it was free, or an import took it.
ReserveringVrij == gereserveerd \cap Gebruikt \subseteq ingehaald \cup voorbij

\* A number is of one document or of one reservation that nobody used yet.
NummerEenmaal == EenDocumentPerNummer /\ ReserveringVrij

\* "Check that Verzending can have only one attribute filled of the following"
EenKanaal == \A v \in Verzendingen : verzending[v] # Niets => Cardinality(verzending[v].kanalen) = 1

=============================================================================
