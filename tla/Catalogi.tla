-------------------------------- MODULE Catalogi --------------------------------
(***************************************************************************)
(* The types in a catalogus: zaaktypen, informatieobjecttypen and          *)
(* besluittypen, their periods of validity, the relations between them and *)
(* the parts of a zaaktype.  A type is a concept until it is published.    *)
(*                                                                         *)
(* A handler reads and validates first and writes later.  What it is going *)
(* to write is kept in req: whole rows of types, as they were read, and    *)
(* the relations that it removes and adds.                                 *)
(***************************************************************************)
EXTENDS Integers, FiniteSets

CONSTANTS
  Zaaktypen, Informatieobjecttypen, Besluittypen,
  Statustypen, Roltypen,  \* the parts that a zaaktype may have
  Resultaten,    \* resultaattypen that a zaaktype may have
  Namen,         \* identificatie or omschrijving: the versions of a type share it
  MaxDatum,      \* bound: the last date
  Geen,          \* there is no such row, or no such request
  Werkers,       \* requests being served at the same time
  Gelijktijdig,  \* requests run at the same time
  Geforceerd,    \* clients may write and delete with the forced scopes
  Beheer         \* the admin and the import are used

ASSUME CatalogiAssumption ==
  /\ MaxDatum \in Nat \ {0}
  /\ {Gelijktijdig, Geforceerd, Beheer} \subseteq BOOLEAN

VARIABLES
  rij,       \* rows of types
  rel,       \* relations between types, and the parts of zaaktypen: a set of pairs
  req        \* what each request is going to write

vars == <<rij, rel, req>>

-----------------------------------------------------------------------------
Typen == Zaaktypen \cup Informatieobjecttypen \cup Besluittypen

\* A resultaattype is there with or without a selectielijstklasse.
Resultaattypen == Resultaten \X BOOLEAN
ZonderKlasse == Resultaten \X {FALSE}
Onderdelen == Statustypen \cup Roltypen \cup Resultaattypen

\* An end of Open stands for no end.
Open == MaxDatum + 1
Rij == [concept : BOOLEAN, naam : Namen, begin : 1..MaxDatum, eind : 1..Open]

\* A row has one kind.
ASSUME SoortenAssumption ==
  /\ Zaaktypen \cap Informatieobjecttypen = {} /\ Zaaktypen \cap Besluittypen = {}
  /\ Informatieobjecttypen \cap Besluittypen = {}
  /\ Typen \cap Onderdelen = {}
  /\ Geen \notin Rij

Paren(x, S) == {{x, y} : y \in S}
Verbanden ==
  (UNION {Paren(z, Informatieobjecttypen \cup Besluittypen \cup Onderdelen) : z \in Zaaktypen})
    \cup (UNION {Paren(b, Informatieobjecttypen) : b \in Besluittypen})

Verwant(x, S) == {y \in S : {x, y} \in rel}

Bestaat(t) == rij[t] # Geen
Gepubliceerd(r) == r # Geen /\ ~r.concept
Bestaand(S) == {t \in S : Bestaat(t)}
Concepten(S) == \A t \in S : ~Gepubliceerd(rij[t])

\* The types of the same kind
Soorten == {Zaaktypen, Informatieobjecttypen, Besluittypen}
Soort(t) == UNION {S \in Soorten : t \in S}

Init ==
  /\ rij = [t \in Typen |-> Geen]
  /\ rel = {}
  /\ req = [w \in Werkers |-> Geen]

-----------------------------------------------------------------------------
(* The validators. *)

Overlapt(r, s) == r.begin < s.eind /\ s.begin < r.eind

\* An overlap of row r of type t with another published version, in the given rows
HasOverlappingObjects(t, r, rijen) ==
  /\ ~r.concept
  /\ \E u \in Soort(t) \ {t} :
       Gepubliceerd(rijen[u]) /\ rijen[u].naam = r.naam /\ Overlapt(r, rijen[u])

\* The parts that a zaaktype needs
Compleet(z, verb) ==
  /\ \A o \in ZonderKlasse : {z, o} \notin verb
  /\ \E o \in Roltypen : {z, o} \in verb
  /\ \E o \in Resultaattypen : {z, o} \in verb
  /\ \E o, p \in Statustypen : o # p /\ {z, o} \in verb /\ {z, p} \in verb

ValidateZaaktypeForPublish(z, rijen) ==
  /\ \A t \in Verwant(z, Besluittypen \cup Informatieobjecttypen) : Gepubliceerd(rijen[t])
  /\ Compleet(z, rel)

\* The relations that are written with a type, and those that the validators of an
\* update and of a delete look at
Schrijfbaar(t) ==
  IF t \in Zaaktypen THEN Besluittypen
  ELSE IF t \in Besluittypen THEN Informatieobjecttypen ELSE {}

UpdateRelated(t) ==
  IF t \in Informatieobjecttypen THEN Besluittypen \cup Zaaktypen ELSE Schrijfbaar(t)

\* Mutant: the besluittypen of an informatieobjecttype are forgotten.
DestroyForgotten(t) ==
  IF t \in Zaaktypen THEN Besluittypen \cup Informatieobjecttypen
  ELSE IF t \in Besluittypen THEN Informatieobjecttypen ELSE Zaaktypen

DestroyRelated(t) == Typen \ Soort(t)

\* ConceptUpdateValidator, M2MConceptUpdateValidator
MagWijzigen(t, verwant) ==
  \/ Geforceerd
  \/ rij[t].concept /\ Concepten(Verwant(t, UpdateRelated(t))) /\ Concepten(verwant)

\* Mutant: every zaaktype counts as a concept.
ZaakTypeBestaat(z) == Bestaat(z)

\* ZaakTypeConceptValidator, ZaakTypeConceptDestroyMixin
ZaakTypeConcept(z) == Geforceerd \/ (Bestaat(z) /\ rij[z].concept)

\* ZaakTypeInformatieObjectTypeSerializer.validate(): one of both is enough.
MagVerbinden(z, i) == Geforceerd \/ rij[z].concept \/ rij[i].concept

-----------------------------------------------------------------------------
(* A request that was validated *)

Vrij(w) == req[w] = Geen /\ (Gelijktijdig \/ \A v \in Werkers : req[v] = Geen)

Start(w, rijen, weg, erbij) ==
  /\ req' = [req EXCEPT ![w] = [rijen |-> rijen, weg |-> weg, erbij |-> erbij]]
  /\ UNCHANGED <<rij, rel>>

\* One row is written.
Rijen(t, r) == [u \in {t} |-> r]

\* The row of a type that does not exist, also not for a request that is busy
Nieuw(t) ==
  /\ ~Bestaat(t)
  /\ \A w \in Werkers : req[w] # Geen => t \notin DOMAIN req[w].rijen

-----------------------------------------------------------------------------
(* Types *)

Create(w, t, r, verwant) ==
  /\ Vrij(w)
  /\ Nieuw(t)
  /\ r.concept
  /\ Geforceerd \/ Concepten(verwant)
  /\ Start(w, Rijen(t, r), {}, Paren(t, verwant))

\* PUT, and PATCH of anything: velden are the relations that the request gives.
Update(w, t, r, velden, verwant) ==
  /\ Vrij(w)
  /\ Bestaat(t)
  /\ r.concept = rij[t].concept
  /\ MagWijzigen(t, verwant)
  /\ ~HasOverlappingObjects(t, r, rij)
  /\ Start(w, Rijen(t, r), Paren(t, velden), Paren(t, verwant))

\* Mutant: the other versions are not looked at.
PatchEindeZonderControle(w, t, eind) ==
  /\ Vrij(w)
  /\ Bestaat(t)
  /\ Start(w, Rijen(t, [rij[t] EXCEPT !.eind = eind]), {}, {})

\* A PATCH of eindeGeldigheid only, which needs no concept.
PatchEinde(w, t, eind) ==
  LET r == [rij[t] EXCEPT !.eind = eind]
  IN /\ Vrij(w)
     /\ Bestaat(t)
     /\ Geforceerd \/ eind # Open \/ Concepten(Verwant(t, UpdateRelated(t)))
     /\ ~HasOverlappingObjects(t, r, rij)
     /\ Start(w, Rijen(t, r), {}, {})

Publish(w, t) ==
  LET r == [rij[t] EXCEPT !.concept = FALSE]
  IN /\ Vrij(w)
     /\ Bestaat(t)
     /\ t \in Zaaktypen => ValidateZaaktypeForPublish(t, rij)
     /\ ~HasOverlappingObjects(t, r, rij)
     /\ Start(w, Rijen(t, r), {}, {})

Destroy(w, t) ==
  /\ Vrij(w)
  /\ Bestaat(t)
  /\ Geforceerd \/ (rij[t].concept /\ Concepten(Verwant(t, DestroyRelated(t))))
  /\ Start(w, Rijen(t, Geen), {}, {})

-----------------------------------------------------------------------------
(* Parts of zaaktypen, and their relations with informatieobjecttypen *)

\* A resultaattype is one row, with or without its klasse.
ZelfdeRij(o) == IF o \in Resultaattypen THEN {o[1]} \X BOOLEAN ELSE {o}

CreateOnderdeel(w, z, o) ==
  /\ Vrij(w)
  /\ ZaakTypeConcept(z)
  /\ Bestaat(z)
  /\ \A p \in ZelfdeRij(o) : {z, p} \notin rel
  /\ Start(w, <<>>, {}, {{z, o}})

\* A part is changed: it gets a klasse, or another zaaktype.
UpdateOnderdeel(w, z, o, y, p) ==
  /\ Vrij(w)
  /\ {z, o} \in rel
  /\ p \in ZelfdeRij(o) \ ZonderKlasse
  /\ Bestaat(y)
  /\ y # z => \A q \in ZelfdeRij(o) : {y, q} \notin rel
  /\ ZaakTypeConcept(z) /\ ZaakTypeConcept(y)
  /\ Start(w, <<>>, {{z, o}}, {{y, p}})

DestroyOnderdeel(w, z, o) ==
  /\ Vrij(w)
  /\ {z, o} \in rel
  /\ ZaakTypeConcept(z)
  /\ Start(w, <<>>, {{z, o}}, {})

CreateZiot(w, z, i) ==
  /\ Vrij(w)
  /\ Bestaat(z) /\ Bestaat(i) /\ {z, i} \notin rel
  /\ MagVerbinden(z, i)
  /\ Start(w, <<>>, {}, {{z, i}})

\* Only the types that the relation gets are looked at.
UpdateZiot(w, z, i, y, j) ==
  /\ Vrij(w)
  /\ {z, i} \in rel
  /\ Bestaat(y) /\ Bestaat(j) /\ {y, j} \notin rel
  /\ MagVerbinden(y, j)
  /\ Start(w, <<>>, {{z, i}}, {{y, j}})

DestroyZiot(w, z, i) ==
  /\ Vrij(w)
  /\ {z, i} \in rel
  /\ MagVerbinden(z, i)
  /\ Start(w, <<>>, {{z, i}}, {})

-----------------------------------------------------------------------------
(* The admin, and the import of zaaktypen *)

\* GeldigheidMixin.clean()
Clean(t, r, rijen) == r.begin <= r.eind /\ ~HasOverlappingObjects(t, r, rijen)

\* The relations on the form of a type
FormVelden(t) == IF t \in Zaaktypen THEN Besluittypen
                 ELSE IF t \in Besluittypen THEN Informatieobjecttypen \cup Zaaktypen ELSE {}

\* Everything of a concept, whatever it is related to; of a published type its end.
AdminSave(w, t, r, verwant) ==
  LET open == ~Gepubliceerd(rij[t])
  IN /\ Vrij(w) /\ Beheer
     /\ verwant \subseteq Bestaand(FormVelden(t))
     /\ IF open THEN r.concept /\ (Bestaat(t) \/ Nieuw(t))
        ELSE r = [rij[t] EXCEPT !.eind = r.eind] /\ verwant = {}
     /\ Clean(t, r, rij)
     /\ Start(w, Rijen(t, r), IF open THEN Paren(t, FormVelden(t)) ELSE {}, Paren(t, verwant))

\* selectielijst_reset: the resultaattypen lose their klasse, also those of a
\* published zaaktype.
AdminReset(w, z) ==
  LET met == Verwant(z, Resultaten \X {TRUE})
  IN /\ Vrij(w) /\ Beheer
     /\ Bestaat(z)
     /\ Clean(z, rij[z], rij)
     /\ Start(w, Rijen(z, rij[z]), Paren(z, met), Paren(z, {<<o[1], FALSE>> : o \in met}))

\* A new resultaattype does not need a klasse.
AdminResultaattype(w, z, o) ==
  /\ Vrij(w) /\ Beheer
  /\ Bestaat(z) /\ rij[z].concept
  /\ \A p \in ZelfdeRij(o) : {z, p} \notin rel
  /\ Start(w, <<>>, {}, {{z, o}})

AdminDeleteType(w, t) ==
  /\ Vrij(w) /\ Beheer
  /\ Bestaat(t)
  /\ Start(w, Rijen(t, Geen), {}, {})

\* Parts of published zaaktypen, and relations of published types, are deleted as well.
AdminDeleteVerband(w, z, x) ==
  /\ Vrij(w) /\ Beheer
  /\ z \in Zaaktypen /\ x \in Informatieobjecttypen \cup Onderdelen /\ {z, x} \in rel
  /\ Start(w, <<>>, {{z, x}}, {})

\* ZaaktypePublishView: the related types in P are published and the others fail.
\* The transaction commits them also when the zaaktype cannot be published.
AdminPublish(w, z, P) ==
  LET K     == {t \in Verwant(z, Besluittypen \cup Informatieobjecttypen) : ~Gepubliceerd(rij[t])}
      pub(t) == [rij[t] EXCEPT !.concept = FALSE]
      na    == [t \in Typen |-> IF t \in P THEN pub(t) ELSE rij[t]]
      slaagt == /\ ValidateZaaktypeForPublish(z, na)
                /\ Clean(z, pub(z), na)
      alle  == P \cup (IF slaagt THEN {z} ELSE {})
  IN /\ Vrij(w) /\ Beheer
     /\ Bestaat(z) /\ rij[z].concept
     /\ P \subseteq K
     /\ \A t \in P : Clean(t, pub(t), na)
     /\ P = {} \/ \A t \in K \ P : ~Clean(t, pub(t), na)
     /\ alle # {}
     /\ Start(w, [t \in alle |-> pub(t)], {}, {})

\* VersioningSideEffect: a copy of a published zaaktype with everything it has.  The
\* original is saved with it.
AddVersion(w, z, eind, y, begin) ==
  LET r    == [rij[z] EXCEPT !.eind = eind]
      nieuw == [r EXCEPT !.concept = TRUE, !.begin = begin, !.eind = Open]
  IN /\ Vrij(w) /\ Beheer
     /\ Gepubliceerd(rij[z])
     /\ Clean(z, r, rij)
     /\ Nieuw(y)
     /\ Start(w, [t \in {y, z} |-> IF t = y THEN nieuw ELSE r], {},
              Paren(y, Verwant(z, Besluittypen \cup Informatieobjecttypen \cup Onderdelen)))

\* What a file may hold
Inhouden(z, T) ==
  SUBSET (Paren(z, T \cup (Onderdelen \ ZonderKlasse))
            \cup UNION {Paren(b, T \cap Informatieobjecttypen) : b \in T \cap Besluittypen})

\* A file with zaaktype z, its parts and types: each type is created as a concept,
\* or stands for one that exists.  The besluittypen get the informatieobjecttypen of
\* the file, also if they existed and were published.
Import(w, z, T, r) ==
  LET nieuw == {t \in T : ~Bestaat(t)} \cup {z}
  IN /\ Vrij(w) /\ Beheer
     /\ \A t \in nieuw : Nieuw(t)
     /\ r.concept
     /\ \E verb \in Inhouden(z, T) :
          Start(w, [t \in nieuw |-> r],
                UNION {Paren(b, Informatieobjecttypen) : b \in T \cap Besluittypen}, verb)

-----------------------------------------------------------------------------
(* The request writes, in one transaction. *)

\* The rows after those in d are written
Bij(d) == [t \in Typen |-> IF t \in DOMAIN d THEN d[t] ELSE rij[t]]
Na(w) == Bij(req[w].rijen)

Verwijst(v, rijen) == \A t \in v \cap Typen : rijen[t] # Geen

\* Mutant: relations stay when a type is deleted.
SchrijfZonderCascade(w) ==
  /\ req[w] # Geen
  /\ rij' = Na(w)
  /\ rel' = (rel \ req[w].weg) \cup req[w].erbij
  /\ req' = [req EXCEPT ![w] = Geen]

\* A relation with a type that is gone by now fails.  Deleting a type deletes its
\* parts and relations.
Schrijf(w) ==
  /\ req[w] # Geen
  /\ IF \A v \in req[w].erbij : Verwijst(v, Na(w))
       THEN /\ rij' = Na(w)
            /\ rel' = {v \in (rel \ req[w].weg) \cup req[w].erbij : Verwijst(v, Na(w))}
       ELSE UNCHANGED <<rij, rel>>
  /\ req' = [req EXCEPT ![w] = Geen]

\* The request fails: a type that is in use cannot be deleted, a process dies.
Faalt(w) ==
  /\ req[w] # Geen
  /\ req' = [req EXCEPT ![w] = Geen]
  /\ UNCHANGED <<rij, rel>>

-----------------------------------------------------------------------------
TypeNext(w) ==
  \E t \in Typen :
    \/ \E r \in Rij, verwant \in SUBSET Bestaand(Schrijfbaar(t)) : Create(w, t, r, verwant)
    \/ \E r \in Rij :
         \/ Update(w, t, r, {}, {})
         \/ \E verwant \in SUBSET Bestaand(Schrijfbaar(t)) :
              Update(w, t, r, Schrijfbaar(t), verwant)
    \/ \E eind \in 1..Open : PatchEinde(w, t, eind)
    \/ Publish(w, t)
    \/ Destroy(w, t)

OnderdeelNext(w) ==
  \E z \in Zaaktypen :
    \/ \E o \in Onderdelen \ ZonderKlasse : CreateOnderdeel(w, z, o)
    \/ \E o, p \in Onderdelen, y \in Zaaktypen : UpdateOnderdeel(w, z, o, y, p)
    \/ \E o \in Onderdelen : DestroyOnderdeel(w, z, o)
    \/ \E i \in Informatieobjecttypen :
         \/ CreateZiot(w, z, i)
         \/ \E y \in Zaaktypen, j \in Informatieobjecttypen : UpdateZiot(w, z, i, y, j)
         \/ DestroyZiot(w, z, i)

BeheerNext(w) ==
  \/ \E t \in Typen, r \in Rij, verwant \in SUBSET Typen : AdminSave(w, t, r, verwant)
  \/ \E t \in Typen : AdminDeleteType(w, t)
  \/ \E z \in Zaaktypen :
       \/ AdminReset(w, z)
       \/ \E o \in ZonderKlasse : AdminResultaattype(w, z, o)
       \/ \E x \in Informatieobjecttypen \cup Onderdelen : AdminDeleteVerband(w, z, x)
       \/ \E P \in SUBSET (Besluittypen \cup Informatieobjecttypen) : AdminPublish(w, z, P)
       \/ \E y \in Zaaktypen, eind \in 1..Open, begin \in 1..MaxDatum :
            AddVersion(w, z, eind, y, begin)
       \/ \E T \in SUBSET (Besluittypen \cup Informatieobjecttypen), r \in Rij :
            Import(w, z, T, r)

Next ==
  \E w \in Werkers :
    TypeNext(w) \/ OnderdeelNext(w) \/ BeheerNext(w) \/ Schrijf(w) \/ Faalt(w)

Spec == Init /\ [][Next]_vars

-----------------------------------------------------------------------------
(* Properties *)

OpdrachtOK(q) ==
  /\ DOMAIN q.rijen \subseteq Typen
  /\ \A t \in DOMAIN q.rijen : q.rijen[t] \in Rij \cup {Geen}
  /\ q.erbij \subseteq Verbanden

\* The variables have their types, and relations are between rows that exist.
TypeOK ==
  /\ rij \in [Typen -> Rij \cup {Geen}]
  /\ rel \subseteq {v \in Verbanden : Verwijst(v, rij)}
  /\ DOMAIN req = Werkers
  /\ \A w \in Werkers : req[w] # Geen => OpdrachtOK(req[w])

Geldig(r, datum) == Gepubliceerd(r) /\ r.begin <= datum /\ datum < r.eind

\* On every date at most one published version of a type is valid, whatever is
\* published, updated, imported and moved by requests that follow each other.
EenVersieGeldig ==
  \A S \in Soorten : \A t, u \in S : \A datum \in 1..MaxDatum :
    Geldig(rij[t], datum) /\ Geldig(rij[u], datum) /\ rij[t].naam = rij[u].naam => t = u

\* A published zaaktype keeps what it needed to be published: its parts, and
\* besluittypen that are published themselves.
GepubliceerdCompleet ==
  \A z \in Zaaktypen : Gepubliceerd(rij[z]) =>
    /\ Compleet(z, rel)
    /\ \A b \in Verwant(z, Besluittypen) : Gepubliceerd(rij[b])

\* What must not change of a published type: its name, begin, parts and the relations
\* that belong to it.
Stand(t) == IF ~Bestaat(t) THEN "geen" ELSE IF rij[t].concept THEN "concept" ELSE "gepubliceerd"
Inhoud(t) ==
  IF ~Bestaat(t) THEN Geen
  ELSE <<rij[t].naam, rij[t].begin, Verwant(t, Schrijfbaar(t) \cup Onderdelen)>>

Belofte == INSTANCE Publicatie WITH
       stand <- [t \in Typen |-> Stand(t)], inhoud <- [t \in Typen |-> Inhoud(t)]

\* The requests of clients without the forced scopes do what the catalogi promise.
ImplementsPublicatie == Belofte!Spec

=============================================================================
