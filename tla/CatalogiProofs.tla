----------------------------- MODULE CatalogiProofs -----------------------------
(***************************************************************************)
(* Proofs about Catalogi, for every set of types, names and dates: its     *)
(* type invariant; that requests that follow each other leave at most one  *)
(* published version of a type valid on a date; and that, without the      *)
(* forced scopes and the admin, what is published stays as it was, which   *)
(* keeps published zaaktypen complete and implements Publicatie.           *)
(***************************************************************************)
EXTENDS Catalogi, TLAPS

\* Any handler that validated a request
Begin(w) == TypeNext(w) \/ OnderdeelNext(w) \/ BeheerNext(w)

-----------------------------------------------------------------------------
(* Relations *)

\* A zaaktype may be related to everything else, a besluittype to informatieobjecttypen.
LEMMA ZaaktypeVerband ==
  ASSUME NEW z \in Zaaktypen,
         NEW x \in Informatieobjecttypen \cup Besluittypen \cup Onderdelen
  PROVE  {z, x} \in Verbanden
<1> DEFINE R == Informatieobjecttypen \cup Besluittypen \cup Onderdelen
<1>1. {z, x} \in Paren(z, R)
  BY DEF Paren
<1>2. {z, x} \in UNION {Paren(y, R) : y \in Zaaktypen}
  BY <1>1
<1> QED BY <1>2 DEF Verbanden

LEMMA BesluittypeVerband ==
  ASSUME NEW b \in Besluittypen, NEW i \in Informatieobjecttypen
  PROVE  {b, i} \in Verbanden
<1>1. {b, i} \in Paren(b, Informatieobjecttypen)
  BY DEF Paren
<1>2. {b, i} \in UNION {Paren(c, Informatieobjecttypen) : c \in Besluittypen}
  BY <1>1
<1> QED BY <1>2 DEF Verbanden

\* The relations that are written with a type are relations.
LEMMA SchrijfbaarVerband ==
  ASSUME NEW t \in Typen, NEW S \in SUBSET Schrijfbaar(t)
  PROVE  Paren(t, S) \subseteq Verbanden
<1> SUFFICES ASSUME NEW x \in S PROVE {t, x} \in Verbanden
  BY DEF Paren
<1>1. CASE t \in Zaaktypen
  BY <1>1, ZaaktypeVerband DEF Schrijfbaar
<1>2. CASE t \notin Zaaktypen
  BY <1>2, BesluittypeVerband DEF Schrijfbaar
<1> QED BY <1>1, <1>2

LEMMA FormVerband ==
  ASSUME NEW t \in Typen, NEW S \in SUBSET FormVelden(t)
  PROVE  Paren(t, S) \subseteq Verbanden
<1> SUFFICES ASSUME NEW x \in S PROVE {t, x} \in Verbanden
  BY DEF Paren
<1>1. CASE t \in Zaaktypen
  BY <1>1, ZaaktypeVerband DEF FormVelden
<1>2. CASE t \notin Zaaktypen /\ x \in Informatieobjecttypen
  BY <1>2, BesluittypeVerband DEF FormVelden
<1>3. CASE t \notin Zaaktypen /\ x \notin Informatieobjecttypen
  <2>1. t \in Besluittypen /\ x \in Zaaktypen
    BY <1>3 DEF FormVelden
  <2> QED BY <2>1, ZaaktypeVerband, {t, x} = {x, t}
<1> QED BY <1>1, <1>2, <1>3

-----------------------------------------------------------------------------
(* Requests *)

\* A request that starts leaves the other requests and the rows alone.
LEMMA StartFrame ==
  ASSUME TypeOK, NEW w \in Werkers, NEW d, NEW weg, NEW erbij, Start(w, d, weg, erbij)
  PROVE  /\ rij' = rij /\ rel' = rel
         /\ DOMAIN req' = Werkers
         /\ req'[w] = [rijen |-> d, weg |-> weg, erbij |-> erbij]
         /\ \A v \in Werkers : v # w => req'[v] = req[v]
BY DEF TypeOK, Start

LEMMA StartOK ==
  ASSUME TypeOK, NEW w \in Werkers, NEW d, NEW weg, NEW erbij, Start(w, d, weg, erbij),
         DOMAIN d \subseteq Typen, \A t \in DOMAIN d : d[t] \in Rij \cup {Geen},
         erbij \subseteq Verbanden
  PROVE  OpdrachtOK(req'[w])
<1>1. req'[w] = [rijen |-> d, weg |-> weg, erbij |-> erbij]
  BY StartFrame
<1>2. req'[w].rijen = d /\ req'[w].erbij = erbij
  BY <1>1
<1> QED BY <1>2 DEF OpdrachtOK

\* A request that writes one row.
LEMMA StartRij ==
  ASSUME TypeOK, NEW w \in Werkers, NEW t \in Typen, NEW r \in Rij \cup {Geen}, NEW weg,
         NEW erbij, Start(w, Rijen(t, r), weg, erbij), erbij \subseteq Verbanden
  PROVE  OpdrachtOK(req'[w])
<1>1. DOMAIN Rijen(t, r) \subseteq Typen /\ \A u \in DOMAIN Rijen(t, r) : Rijen(t, r)[u] \in Rij \cup {Geen}
  BY DEF Rijen
<1> QED BY <1>1, StartOK

\* A request that writes relations only.
LEMMA StartVerband ==
  ASSUME TypeOK, NEW w \in Werkers, NEW weg, NEW erbij, Start(w, <<>>, weg, erbij),
         erbij \subseteq Verbanden
  PROVE  OpdrachtOK(req'[w])
<1>1. DOMAIN <<>> = {}
  OBVIOUS
<1> QED BY <1>1, StartOK

LEMMA BestaandRij ==
  ASSUME TypeOK, NEW t \in Typen, Bestaat(t)
  PROVE  /\ rij[t] \in Rij
         /\ [rij[t] EXCEPT !.concept = FALSE] \in Rij
         /\ \A eind \in 1..Open : [rij[t] EXCEPT !.eind = eind] \in Rij
BY DEF TypeOK, Bestaat, Rij

\* What the handlers for types are going to write is of the right type.
LEMMA TypeNextOK ==
  ASSUME TypeOK, NEW w \in Werkers, TypeNext(w)
  PROVE  OpdrachtOK(req'[w])
<1>1. PICK t \in Typen :
        \/ \E r \in Rij, verwant \in SUBSET Bestaand(Schrijfbaar(t)) : Create(w, t, r, verwant)
        \/ \E r \in Rij :
             \/ Update(w, t, r, {}, {})
             \/ \E verwant \in SUBSET Bestaand(Schrijfbaar(t)) :
                  Update(w, t, r, Schrijfbaar(t), verwant)
        \/ \E eind \in 1..Open : PatchEinde(w, t, eind)
        \/ Publish(w, t)
        \/ Destroy(w, t)
  BY DEF TypeNext
<1>2. Paren(t, {}) \subseteq Verbanden /\ {} \subseteq Verbanden
  BY DEF Paren
<1>3. ASSUME NEW verwant \in SUBSET Bestaand(Schrijfbaar(t))
      PROVE  Paren(t, verwant) \subseteq Verbanden
  BY SchrijfbaarVerband DEF Bestaand
<1>4. ASSUME NEW r \in Rij, NEW verwant \in SUBSET Bestaand(Schrijfbaar(t)),
             Create(w, t, r, verwant)
      PROVE  OpdrachtOK(req'[w])
  BY <1>3, <1>4, StartRij DEF Create
<1>5. ASSUME NEW r \in Rij, Update(w, t, r, {}, {})
      PROVE  OpdrachtOK(req'[w])
  BY <1>2, <1>5, StartRij DEF Update
<1>6. ASSUME NEW r \in Rij, NEW verwant \in SUBSET Bestaand(Schrijfbaar(t)),
             Update(w, t, r, Schrijfbaar(t), verwant)
      PROVE  OpdrachtOK(req'[w])
  BY <1>3, <1>6, StartRij DEF Update
<1>7. ASSUME NEW eind \in 1..Open, PatchEinde(w, t, eind)
      PROVE  OpdrachtOK(req'[w])
  <2> DEFINE r == [rij[t] EXCEPT !.eind = eind]
  <2>1. Bestaat(t) /\ Start(w, Rijen(t, r), {}, {})
    BY <1>7 DEF PatchEinde
  <2>2. r \in Rij
    BY <2>1, BestaandRij
  <2> QED BY <1>2, <2>1, <2>2, StartRij
<1>8. ASSUME Publish(w, t) PROVE OpdrachtOK(req'[w])
  BY <1>2, <1>8, StartRij, BestaandRij DEF Publish
<1>9. ASSUME Destroy(w, t) PROVE OpdrachtOK(req'[w])
  BY <1>2, <1>9, StartRij DEF Destroy
<1> QED BY <1>1, <1>4, <1>5, <1>6, <1>7, <1>8, <1>9

\* The same of parts and relations.
LEMMA OnderdeelNextOK ==
  ASSUME TypeOK, NEW w \in Werkers, OnderdeelNext(w)
  PROVE  OpdrachtOK(req'[w])
<1>1. PICK z \in Zaaktypen :
        \/ \E o \in Onderdelen \ ZonderKlasse : CreateOnderdeel(w, z, o)
        \/ \E o, p \in Onderdelen, y \in Zaaktypen : UpdateOnderdeel(w, z, o, y, p)
        \/ \E o \in Onderdelen : DestroyOnderdeel(w, z, o)
        \/ \E i \in Informatieobjecttypen :
             \/ CreateZiot(w, z, i)
             \/ \E y \in Zaaktypen, j \in Informatieobjecttypen : UpdateZiot(w, z, i, y, j)
             \/ DestroyZiot(w, z, i)
  BY DEF OnderdeelNext
<1>2. ASSUME NEW y \in Zaaktypen, NEW x \in Informatieobjecttypen \cup Onderdelen
      PROVE  {{y, x}} \subseteq Verbanden
  BY ZaaktypeVerband
<1>3. ASSUME NEW o \in Onderdelen, CreateOnderdeel(w, z, o) PROVE OpdrachtOK(req'[w])
  BY <1>2, <1>3, StartVerband DEF CreateOnderdeel
<1>4. ASSUME NEW o \in Onderdelen, NEW p \in Onderdelen, NEW y \in Zaaktypen,
             UpdateOnderdeel(w, z, o, y, p)
      PROVE  OpdrachtOK(req'[w])
  BY <1>2, <1>4, StartVerband DEF UpdateOnderdeel
<1>5. ASSUME NEW o \in Onderdelen, DestroyOnderdeel(w, z, o) PROVE OpdrachtOK(req'[w])
  BY <1>5, StartVerband, {} \subseteq Verbanden DEF DestroyOnderdeel
<1>6. ASSUME NEW i \in Informatieobjecttypen, CreateZiot(w, z, i) PROVE OpdrachtOK(req'[w])
  BY <1>2, <1>6, StartVerband DEF CreateZiot
<1>7. ASSUME NEW i \in Informatieobjecttypen, NEW y \in Zaaktypen,
             NEW j \in Informatieobjecttypen, UpdateZiot(w, z, i, y, j)
      PROVE  OpdrachtOK(req'[w])
  BY <1>2, <1>7, StartVerband DEF UpdateZiot
<1>8. ASSUME NEW i \in Informatieobjecttypen, DestroyZiot(w, z, i) PROVE OpdrachtOK(req'[w])
  BY <1>8, StartVerband, {} \subseteq Verbanden DEF DestroyZiot
<1> QED BY <1>1, <1>3, <1>4, <1>5, <1>6, <1>7, <1>8

\* The same of the admin and the import.
LEMMA AdminPublishOK ==
  ASSUME TypeOK, NEW w \in Werkers, NEW z \in Zaaktypen,
         NEW P \in SUBSET (Besluittypen \cup Informatieobjecttypen), AdminPublish(w, z, P)
  PROVE  OpdrachtOK(req'[w])
<1> DEFINE K == {t \in Verwant(z, Besluittypen \cup Informatieobjecttypen) : ~Gepubliceerd(rij[t])}
           pub(t) == [rij[t] EXCEPT !.concept = FALSE]
           na == [t \in Typen |-> IF t \in P THEN pub(t) ELSE rij[t]]
           slaagt == ValidateZaaktypeForPublish(z, na) /\ Clean(z, pub(z), na)
           alle == P \cup (IF slaagt THEN {z} ELSE {})
           d == [t \in alle |-> pub(t)]
<1>1. Bestaat(z) /\ P \subseteq K /\ Start(w, d, {}, {})
  BY DEF AdminPublish
<1>2. ASSUME NEW t \in P PROVE t \in Typen /\ Bestaat(t)
  <2>1. {z, t} \in rel /\ t \in Typen
    BY <1>1 DEF Verwant, Typen
  <2> QED BY <2>1 DEF TypeOK, Verwijst, Bestaat
<1>3. z \in Typen
  BY DEF Typen
<1>4. ASSUME NEW t \in alle PROVE t \in Typen /\ pub(t) \in Rij
  <2>1. t \in Typen /\ Bestaat(t)
    BY <1>1, <1>2, <1>3
  <2> QED BY <2>1, BestaandRij
<1> HIDE DEF pub, alle
<1>5. DOMAIN d \subseteq Typen /\ \A t \in DOMAIN d : d[t] \in Rij \cup {Geen}
  BY <1>4
<1> QED BY <1>1, <1>5, StartOK, {} \subseteq Verbanden

LEMMA AddVersionOK ==
  ASSUME TypeOK, CatalogiAssumption, NEW w \in Werkers, NEW z \in Zaaktypen,
         NEW eind \in 1..Open, NEW y \in Zaaktypen, NEW begin \in 1..MaxDatum,
         AddVersion(w, z, eind, y, begin)
  PROVE  OpdrachtOK(req'[w])
<1> DEFINE r == [rij[z] EXCEPT !.eind = eind]
           nieuw == [r EXCEPT !.concept = TRUE, !.begin = begin, !.eind = Open]
           X == Besluittypen \cup Informatieobjecttypen \cup Onderdelen
           d == [t \in {y, z} |-> IF t = y THEN nieuw ELSE r]
           E == Paren(y, Verwant(z, X))
<1>1. Gepubliceerd(rij[z]) /\ Start(w, d, {}, E)
  BY DEF AddVersion
<1>2. y \in Typen /\ z \in Typen
  BY DEF Typen
<1>3. r \in Rij
  BY <1>1, <1>2, BestaandRij DEF Gepubliceerd, Bestaat
<1>4. nieuw \in Rij
  <2>1. Open \in 1..Open
    BY DEF CatalogiAssumption, Open
  <2> HIDE DEF r
  <2> QED BY <1>3, <2>1 DEF Rij
<1>5. E \subseteq Verbanden
  BY ZaaktypeVerband DEF Paren, Verwant
<1> HIDE DEF r, nieuw, E
<1>6. DOMAIN d \subseteq Typen /\ \A t \in DOMAIN d : d[t] \in Rij \cup {Geen}
  BY <1>2, <1>3, <1>4
<1> QED BY <1>1, <1>5, <1>6, StartOK

LEMMA ImportOK ==
  ASSUME TypeOK, NEW w \in Werkers, NEW z \in Zaaktypen,
         NEW T \in SUBSET (Besluittypen \cup Informatieobjecttypen), NEW r \in Rij,
         Import(w, z, T, r)
  PROVE  OpdrachtOK(req'[w])
<1> DEFINE nieuw == {t \in T : ~Bestaat(t)} \cup {z}
           d == [t \in nieuw |-> r]
           weg == UNION {Paren(b, Informatieobjecttypen) : b \in T \cap Besluittypen}
           A == Paren(z, T \cup (Onderdelen \ ZonderKlasse))
           B == UNION {Paren(b, T \cap Informatieobjecttypen) : b \in T \cap Besluittypen}
<1>1. PICK verb \in Inhouden(z, T) : Start(w, d, weg, verb)
  BY DEF Import
<1>2. verb \subseteq A \cup B
  BY Zenon DEF Inhouden
<1>3. A \subseteq Verbanden
  BY ZaaktypeVerband DEF Paren
<1>4. B \subseteq Verbanden
  <2> SUFFICES ASSUME NEW b \in T \cap Besluittypen, NEW i \in T \cap Informatieobjecttypen
               PROVE  {b, i} \in Verbanden
    BY DEF Paren
  <2> QED BY BesluittypeVerband
<1>5. nieuw \subseteq Typen
  BY DEF Typen
<1> HIDE DEF nieuw, weg, A, B
<1>6. DOMAIN d \subseteq Typen /\ \A t \in DOMAIN d : d[t] \in Rij \cup {Geen}
  BY <1>5
<1>7. verb \subseteq Verbanden
  BY <1>2, <1>3, <1>4
<1> QED BY <1>1, <1>6, <1>7, StartOK

LEMMA BeheerNextOK ==
  ASSUME TypeOK, CatalogiAssumption, NEW w \in Werkers, BeheerNext(w)
  PROVE  OpdrachtOK(req'[w])
<1>1. ASSUME NEW t \in Typen, NEW r \in Rij, NEW verwant, AdminSave(w, t, r, verwant)
      PROVE  OpdrachtOK(req'[w])
  <2>1. Paren(t, verwant) \subseteq Verbanden
    BY <1>1, FormVerband DEF Bestaand, AdminSave
  <2> QED BY <1>1, <2>1, StartRij DEF AdminSave
<1>2. ASSUME NEW t \in Typen, AdminDeleteType(w, t) PROVE OpdrachtOK(req'[w])
  BY <1>2, StartRij, {} \subseteq Verbanden DEF AdminDeleteType
<1>3. ASSUME NEW z \in Zaaktypen, AdminReset(w, z) PROVE OpdrachtOK(req'[w])
  <2> DEFINE met == Verwant(z, Resultaten \X {TRUE})
             E == Paren(z, {<<o[1], FALSE>> : o \in met})
  <2>1. z \in Typen
    BY DEF Typen
  <2>2. {<<o[1], FALSE>> : o \in met} \subseteq Onderdelen
    <3> SUFFICES ASSUME NEW o \in Resultaten \X {TRUE} PROVE <<o[1], FALSE>> \in Onderdelen
      BY DEF Verwant
    <3> QED BY DEF Onderdelen, Resultaattypen, Verwant
  <2>3. E \subseteq Verbanden
    BY <2>2, ZaaktypeVerband DEF Paren
  <2>4. Bestaat(z) /\ Start(w, Rijen(z, rij[z]), Paren(z, met), E)
    BY <1>3 DEF AdminReset
  <2> HIDE DEF E
  <2> QED BY <2>1, <2>3, <2>4, BestaandRij, StartRij
<1>4. ASSUME NEW z \in Zaaktypen, NEW o \in ZonderKlasse, AdminResultaattype(w, z, o)
      PROVE  OpdrachtOK(req'[w])
  <2>1. o \in Onderdelen
    BY DEF Onderdelen, Resultaattypen, ZonderKlasse
  <2>2. {{z, o}} \subseteq Verbanden
    BY <2>1, ZaaktypeVerband
  <2> QED BY <1>4, <2>2, StartVerband DEF AdminResultaattype
<1>5. ASSUME NEW z \in Zaaktypen, NEW x \in Informatieobjecttypen \cup Onderdelen,
             AdminDeleteVerband(w, z, x)
      PROVE  OpdrachtOK(req'[w])
  BY <1>5, StartVerband, {} \subseteq Verbanden DEF AdminDeleteVerband
<1> QED BY <1>1, <1>2, <1>3, <1>4, <1>5, AdminPublishOK, AddVersionOK, ImportOK DEF BeheerNext

-----------------------------------------------------------------------------
(* Type correctness *)

LEMMA BeginFrame ==
  ASSUME NEW w \in Werkers, Begin(w)
  PROVE  \E d, weg, erbij : Vrij(w) /\ Start(w, d, weg, erbij)
<1>1. CASE TypeNext(w)
  BY <1>1 DEF TypeNext, Create, Update, PatchEinde, Publish, Destroy
<1>2. CASE OnderdeelNext(w)
  BY <1>2 DEF OnderdeelNext, CreateOnderdeel, UpdateOnderdeel, DestroyOnderdeel, CreateZiot,
              UpdateZiot, DestroyZiot
<1>3. CASE BeheerNext(w)
  BY <1>3, ZenonT(40) DEF BeheerNext, AdminSave, AdminReset, AdminResultaattype, AdminDeleteType,
              AdminDeleteVerband, AdminPublish, AddVersion, Import
<1> QED BY <1>1, <1>2, <1>3 DEF Begin

\* The rows that a request writes are rows.
LEMMA NaOK ==
  ASSUME TypeOK, NEW w \in Werkers, req[w] # Geen
  PROVE  Na(w) \in [Typen -> Rij \cup {Geen}]
BY DEF TypeOK, OpdrachtOK, Na, Bij

LEMMA SchrijfOK ==
  ASSUME TypeOK, NEW w \in Werkers, Schrijf(w)
  PROVE  TypeOK'
<1>1. Na(w) \in [Typen -> Rij \cup {Geen}] /\ OpdrachtOK(req[w])
  BY NaOK DEF Schrijf, TypeOK
<1>2. rij' \in [Typen -> Rij \cup {Geen}]
  BY <1>1 DEF Schrijf, TypeOK
<1>3. rel' \subseteq {v \in Verbanden : Verwijst(v, rij')}
  <2>1. CASE \A v \in req[w].erbij : Verwijst(v, Na(w))
    <3>1. rij' = Na(w) /\ rel' = {v \in (rel \ req[w].weg) \cup req[w].erbij : Verwijst(v, Na(w))}
      BY <2>1 DEF Schrijf
    <3>2. rel \subseteq Verbanden /\ req[w].erbij \subseteq Verbanden
      BY <1>1 DEF TypeOK, OpdrachtOK
    <3> QED BY <3>1, <3>2
  <2>2. CASE ~ \A v \in req[w].erbij : Verwijst(v, Na(w))
    BY <2>2 DEF Schrijf, TypeOK
  <2> QED BY <2>1, <2>2
<1>4. DOMAIN req' = Werkers /\ \A v \in Werkers : req'[v] # Geen => OpdrachtOK(req'[v])
  BY DEF Schrijf, TypeOK
<1> QED BY <1>2, <1>3, <1>4 DEF TypeOK, OpdrachtOK

\* The variables have their types, for every set of types, names and dates.
THEOREM TypeCorrect == Spec => []TypeOK
<1> USE CatalogiAssumption
<1>1. Init => TypeOK
  BY DEF Init, TypeOK
<1>2. TypeOK /\ [Next]_vars => TypeOK'
  <2> SUFFICES ASSUME TypeOK, [Next]_vars PROVE TypeOK'
    OBVIOUS
  <2>1. ASSUME NEW w \in Werkers, Begin(w) PROVE TypeOK'
    <3>1. PICK d, weg, erbij : Start(w, d, weg, erbij)
      BY <2>1, BeginFrame
    <3>2. OpdrachtOK(req'[w])
      BY <2>1, TypeNextOK, OnderdeelNextOK, BeheerNextOK DEF Begin
    <3>3. /\ rij' = rij /\ rel' = rel /\ DOMAIN req' = Werkers
          /\ \A v \in Werkers : v # w => req'[v] = req[v]
      BY <3>1, StartFrame
    <3> QED BY <3>2, <3>3 DEF TypeOK, OpdrachtOK
  <2>2. ASSUME NEW w \in Werkers, Schrijf(w) PROVE TypeOK'
    BY <2>2, SchrijfOK
  <2>3. ASSUME NEW w \in Werkers, Faalt(w) PROVE TypeOK'
    BY <2>3 DEF Faalt, TypeOK, OpdrachtOK
  <2>4. CASE UNCHANGED vars
    BY <2>4 DEF vars, TypeOK, OpdrachtOK
  <2> QED BY <2>1, <2>2, <2>3, <2>4 DEF Next, Begin
<1> QED BY <1>1, <1>2, PTL DEF Spec

-----------------------------------------------------------------------------
(* One published version at a time *)

\* Published versions of a type have periods that do not overlap.
OverlapVrij(rijen) ==
  \A S \in Soorten : \A t, u \in S :
    t # u /\ Gepubliceerd(rijen[t]) /\ Gepubliceerd(rijen[u]) /\ rijen[t].naam = rijen[u].naam
      => ~Overlapt(rijen[t], rijen[u])

\* A row may be written: it is no published version, or one that overlaps no other.
Past(t, r, rijen) == Gepubliceerd(r) => ~HasOverlappingObjects(t, r, rijen)

\* One request at a time, which leaves such rows.
VersieInv ==
  /\ TypeOK
  /\ OverlapVrij(rij)
  /\ \A w \in Werkers : req[w] # Geen => OverlapVrij(Na(w))
  /\ \A v, w \in Werkers : req[v] # Geen /\ req[w] # Geen => v = w

LEMMA SoortTypen ==
  ASSUME NEW S \in Soorten, NEW t \in S
  PROVE  t \in Typen /\ \A u \in S : u # t => u \in Soort(t) \ {t}
BY DEF Soorten, Typen, Soort

\* Writing one row that may be written.
LEMMA EenRij ==
  ASSUME NEW rijen, OverlapVrij(rijen), DOMAIN rijen = Typen, NEW t \in Typen, NEW r,
         Past(t, r, rijen)
  PROVE  OverlapVrij([rijen EXCEPT ![t] = r])
<1> DEFINE na == [rijen EXCEPT ![t] = r]
<1> SUFFICES ASSUME NEW S \in Soorten, NEW x \in S, NEW y \in S, x # y,
                    Gepubliceerd(na[x]), Gepubliceerd(na[y]), na[x].naam = na[y].naam
             PROVE  ~Overlapt(na[x], na[y])
  BY DEF OverlapVrij
<1>1. x \in Typen /\ y \in Typen /\ y \in Soort(x) \ {x} /\ x \in Soort(y) \ {y}
  BY SoortTypen
<1>2. CASE x = t
  <2>1. na[x] = r /\ na[y] = rijen[y]
    BY <1>1, <1>2
  <2> HIDE DEF na
  <2> QED BY <1>1, <1>2, <2>1 DEF Past, HasOverlappingObjects, Gepubliceerd
<1>3. CASE y = t
  <2>1. na[y] = r /\ na[x] = rijen[x]
    BY <1>1, <1>3
  <2> HIDE DEF na
  <2> QED BY <1>1, <1>3, <2>1 DEF Past, HasOverlappingObjects, Gepubliceerd, Overlapt
<1>4. CASE x # t /\ y # t
  <2>1. na[x] = rijen[x] /\ na[y] = rijen[y]
    BY <1>1, <1>4
  <2> HIDE DEF na
  <2> QED BY <2>1 DEF OverlapVrij
<1> QED BY <1>2, <1>3, <1>4

\* Writing rows that are not published.
LEMMA RijenVrij ==
  ASSUME OverlapVrij(rij), NEW d, \A t \in DOMAIN d : ~Gepubliceerd(d[t])
  PROVE  OverlapVrij(Bij(d))
<1> SUFFICES ASSUME NEW S \in Soorten, NEW x \in S, NEW y \in S, x # y,
                    Gepubliceerd(Bij(d)[x]), Gepubliceerd(Bij(d)[y]),
                    Bij(d)[x].naam = Bij(d)[y].naam
             PROVE  ~Overlapt(Bij(d)[x], Bij(d)[y])
  BY DEF OverlapVrij
<1>1. x \in Typen /\ y \in Typen
  BY SoortTypen
<1>2. Bij(d)[x] = rij[x] /\ Bij(d)[y] = rij[y]
  BY <1>1 DEF Bij
<1> QED BY <1>2 DEF OverlapVrij

LEMMA BijRij ==
  ASSUME TypeOK, OverlapVrij(rij), NEW t \in Typen, NEW r, Past(t, r, rij)
  PROVE  OverlapVrij(Bij(Rijen(t, r)))
<1>1. Bij(Rijen(t, r)) = [rij EXCEPT ![t] = r]
  BY DEF Bij, Rijen, TypeOK
<1>2. DOMAIN rij = Typen
  BY DEF TypeOK
<1>3. OverlapVrij([rij EXCEPT ![t] = r])
  BY <1>2, EenRij
<1> QED BY <1>1, <1>3

\* A request that starts leaves such rows when it is written.
LEMMA StartVrij ==
  ASSUME TypeOK, NEW w \in Werkers, NEW d, NEW weg, NEW erbij, Start(w, d, weg, erbij),
         OverlapVrij(Bij(d))
  PROVE  OverlapVrij(Na(w)')
<1>1. rij' = rij /\ req'[w] = [rijen |-> d, weg |-> weg, erbij |-> erbij]
  BY StartFrame
<1>2. req'[w].rijen = d
  BY <1>1
<1>3. Na(w)' = Bij(d)
  BY <1>1, <1>2 DEF Na, Bij
<1> QED BY <1>3

LEMMA StartRijVrij ==
  ASSUME TypeOK, OverlapVrij(rij), NEW w \in Werkers, NEW t \in Typen, NEW r, NEW weg,
         NEW erbij, Start(w, Rijen(t, r), weg, erbij), Past(t, r, rij)
  PROVE  OverlapVrij(Na(w)')
BY BijRij, StartVrij

LEMMA StartVerbandVrij ==
  ASSUME TypeOK, OverlapVrij(rij), NEW w \in Werkers, NEW weg, NEW erbij,
         Start(w, <<>>, weg, erbij)
  PROVE  OverlapVrij(Na(w)')
<1>1. \A t \in DOMAIN <<>> : ~Gepubliceerd(<<>>[t])
  OBVIOUS
<1> QED BY <1>1, RijenVrij, StartVrij

LEMMA TypeNextVrij ==
  ASSUME TypeOK, OverlapVrij(rij), NEW w \in Werkers, TypeNext(w)
  PROVE  OverlapVrij(Na(w)')
<1>1. PICK t \in Typen :
        \/ \E r \in Rij, verwant \in SUBSET Bestaand(Schrijfbaar(t)) : Create(w, t, r, verwant)
        \/ \E r \in Rij :
             \/ Update(w, t, r, {}, {})
             \/ \E verwant \in SUBSET Bestaand(Schrijfbaar(t)) :
                  Update(w, t, r, Schrijfbaar(t), verwant)
        \/ \E eind \in 1..Open : PatchEinde(w, t, eind)
        \/ Publish(w, t)
        \/ Destroy(w, t)
  BY DEF TypeNext
<1>2. ASSUME NEW r, NEW verwant, Create(w, t, r, verwant) PROVE OverlapVrij(Na(w)')
  BY <1>2, StartRijVrij DEF Create, Past, Gepubliceerd
<1>3. ASSUME NEW r, NEW velden, NEW verwant, Update(w, t, r, velden, verwant)
      PROVE  OverlapVrij(Na(w)')
  BY <1>3, StartRijVrij DEF Update, Past
<1>4. ASSUME NEW eind, PatchEinde(w, t, eind) PROVE OverlapVrij(Na(w)')
  BY <1>4, StartRijVrij DEF PatchEinde, Past
<1>5. ASSUME Publish(w, t) PROVE OverlapVrij(Na(w)')
  BY <1>5, StartRijVrij DEF Publish, Past
<1>6. ASSUME Destroy(w, t) PROVE OverlapVrij(Na(w)')
  BY <1>6, StartRijVrij DEF Destroy, Past, Gepubliceerd
<1> QED BY <1>1, <1>2, <1>3, <1>4, <1>5, <1>6

LEMMA OnderdeelNextVrij ==
  ASSUME TypeOK, OverlapVrij(rij), NEW w \in Werkers, OnderdeelNext(w)
  PROVE  OverlapVrij(Na(w)')
<1>1. \E weg, erbij : Start(w, <<>>, weg, erbij)
  BY DEF OnderdeelNext, CreateOnderdeel, UpdateOnderdeel, DestroyOnderdeel, CreateZiot,
         UpdateZiot, DestroyZiot
<1> QED BY <1>1, StartVerbandVrij

\* The types that are published together with a zaaktype overlap no other version, and
\* the zaaktype is compared with the rows that this leaves.
LEMMA AdminPublishVrij ==
  ASSUME TypeOK, OverlapVrij(rij), NEW w \in Werkers, NEW z \in Zaaktypen,
         NEW P \in SUBSET (Besluittypen \cup Informatieobjecttypen), AdminPublish(w, z, P)
  PROVE  OverlapVrij(Na(w)')
<1> DEFINE pub(t) == [rij[t] EXCEPT !.concept = FALSE]
           na == [t \in Typen |-> IF t \in P THEN pub(t) ELSE rij[t]]
           slaagt == ValidateZaaktypeForPublish(z, na) /\ Clean(z, pub(z), na)
           alle == P \cup (IF slaagt THEN {z} ELSE {})
           d == [t \in alle |-> pub(t)]
<1>1. (\A t \in P : Clean(t, pub(t), na)) /\ Start(w, d, {}, {})
  BY DEF AdminPublish
<1>2. z \in Typen /\ P \subseteq Typen
  BY DEF Typen
<1>3. \A t \in Typen : t \in P => na[t] = pub(t)
  OBVIOUS
<1>4. \A t \in Typen : t \notin P => na[t] = rij[t]
  OBVIOUS
<1>5. Bij(d) = IF slaagt THEN [na EXCEPT ![z] = pub(z)] ELSE na
  <2> HIDE DEF pub, slaagt
  <2> QED BY <1>2 DEF Bij
<1>6. slaagt => ~HasOverlappingObjects(z, pub(z), na)
  BY DEF Clean
<1>7. \A t \in P : ~HasOverlappingObjects(t, na[t], na)
  BY <1>1, <1>2, <1>3 DEF Clean
<1>8. DOMAIN na = Typen
  OBVIOUS
<1> HIDE DEF pub, na, slaagt, d
<1>9. OverlapVrij(na)
  <2> SUFFICES ASSUME NEW S \in Soorten, NEW x \in S, NEW y \in S, x # y,
                      Gepubliceerd(na[x]), Gepubliceerd(na[y]), na[x].naam = na[y].naam
               PROVE  ~Overlapt(na[x], na[y])
    BY DEF OverlapVrij
  <2>1. x \in Typen /\ y \in Typen /\ y \in Soort(x) \ {x} /\ x \in Soort(y) \ {y}
    BY SoortTypen
  <2>2. CASE x \in P
    BY <1>7, <2>1, <2>2 DEF HasOverlappingObjects, Gepubliceerd
  <2>3. CASE y \in P
    BY <1>7, <2>1, <2>3 DEF HasOverlappingObjects, Gepubliceerd, Overlapt
  <2>4. CASE x \notin P /\ y \notin P
    BY <1>4, <2>1, <2>4 DEF OverlapVrij
  <2> QED BY <2>2, <2>3, <2>4
<1>10. slaagt => OverlapVrij([na EXCEPT ![z] = pub(z)])
  BY <1>2, <1>6, <1>8, <1>9, EenRij DEF Past
<1>11. OverlapVrij(Bij(d))
  BY <1>5, <1>9, <1>10
<1> QED BY <1>1, <1>11, StartVrij

LEMMA AddVersionVrij ==
  ASSUME TypeOK, OverlapVrij(rij), NEW w \in Werkers, NEW z \in Zaaktypen,
         NEW eind \in 1..Open, NEW y \in Zaaktypen, NEW begin, AddVersion(w, z, eind, y, begin)
  PROVE  OverlapVrij(Na(w)')
<1> DEFINE r == [rij[z] EXCEPT !.eind = eind]
           nieuw == [r EXCEPT !.concept = TRUE, !.begin = begin, !.eind = Open]
           d == [t \in {y, z} |-> IF t = y THEN nieuw ELSE r]
<1>1. PICK E : Gepubliceerd(rij[z]) /\ Clean(z, r, rij) /\ Nieuw(y) /\ Start(w, d, {}, E)
  BY DEF AddVersion
<1>2. y \in Typen /\ z \in Typen /\ y # z
  BY <1>1 DEF Typen, Nieuw, Bestaat, Gepubliceerd
<1>3. ~Gepubliceerd(nieuw)
  <2>1. rij[z] \in Rij
    BY <1>1, <1>2 DEF TypeOK, Gepubliceerd
  <2>2. nieuw.concept
    BY <2>1 DEF Rij
  <2> HIDE DEF nieuw
  <2> QED BY <2>2 DEF Gepubliceerd
<1>4. ~HasOverlappingObjects(z, r, rij)
  BY <1>1 DEF Clean
<1> HIDE DEF r, nieuw
<1> DEFINE na == [rij EXCEPT ![z] = r]
<1>5. Bij(d) = [na EXCEPT ![y] = nieuw]
  BY <1>2 DEF Bij, TypeOK
<1>6. OverlapVrij(na) /\ DOMAIN na = Typen
  BY <1>2, <1>4, EenRij DEF Past, TypeOK
<1> HIDE DEF na, d
<1>7. Past(y, nieuw, na)
  BY <1>3 DEF Past
<1>8. OverlapVrij([na EXCEPT ![y] = nieuw])
  BY <1>2, <1>6, <1>7, EenRij
<1>9. OverlapVrij(Bij(d))
  BY <1>5, <1>8
<1> QED BY <1>1, <1>9, StartVrij

LEMMA BeheerNextVrij ==
  ASSUME TypeOK, OverlapVrij(rij), NEW w \in Werkers, BeheerNext(w)
  PROVE  OverlapVrij(Na(w)')
<1>1. ASSUME NEW t \in Typen, NEW r, NEW verwant, AdminSave(w, t, r, verwant)
      PROVE  OverlapVrij(Na(w)')
  <2>1. PICK weg : ~HasOverlappingObjects(t, r, rij) /\ Start(w, Rijen(t, r), weg, Paren(t, verwant))
    BY <1>1 DEF AdminSave, Clean
  <2> QED BY <2>1, StartRijVrij DEF Past
<1>2. ASSUME NEW t \in Typen, AdminDeleteType(w, t) PROVE OverlapVrij(Na(w)')
  BY <1>2, StartRijVrij DEF AdminDeleteType, Past, Gepubliceerd
<1>3. ASSUME NEW z \in Zaaktypen, AdminReset(w, z) PROVE OverlapVrij(Na(w)')
  <2>1. PICK weg, erbij : ~HasOverlappingObjects(z, rij[z], rij) /\ Start(w, Rijen(z, rij[z]), weg, erbij)
    BY <1>3 DEF AdminReset, Clean
  <2>2. z \in Typen
    BY DEF Typen
  <2> QED BY <2>1, <2>2, StartRijVrij DEF Past
<1>4. ASSUME NEW z \in Zaaktypen, NEW o, AdminResultaattype(w, z, o)
      PROVE  OverlapVrij(Na(w)')
  BY <1>4, StartVerbandVrij DEF AdminResultaattype
<1>5. ASSUME NEW z \in Zaaktypen, NEW x, AdminDeleteVerband(w, z, x)
      PROVE  OverlapVrij(Na(w)')
  BY <1>5, StartVerbandVrij DEF AdminDeleteVerband
<1>6. ASSUME NEW z \in Zaaktypen, NEW T, NEW r, Import(w, z, T, r)
      PROVE  OverlapVrij(Na(w)')
  <2> DEFINE d == [t \in {t \in T : ~Bestaat(t)} \cup {z} |-> r]
  <2>1. PICK weg, erbij : r.concept /\ Start(w, d, weg, erbij)
    BY <1>6 DEF Import
  <2>2. \A t \in DOMAIN d : ~Gepubliceerd(d[t])
    BY <2>1 DEF Gepubliceerd
  <2> HIDE DEF d
  <2> QED BY <2>1, <2>2, RijenVrij, StartVrij
<1> QED BY <1>1, <1>2, <1>3, <1>4, <1>5, <1>6, AdminPublishVrij, AddVersionVrij DEF BeheerNext

\* One request at a time: the rows with which a request was validated are those that it
\* is written to.
LEMMA VersieStap ==
  ASSUME ~Gelijktijdig, VersieInv, TypeOK', [Next]_vars
  PROVE  VersieInv'
<1>1. ASSUME NEW w \in Werkers, Begin(w) PROVE VersieInv'
  <2>1. PICK d, weg, erbij : Vrij(w) /\ Start(w, d, weg, erbij)
    BY <1>1, BeginFrame
  <2>2. \A v \in Werkers : req[v] = Geen
    BY <2>1 DEF Vrij
  <2>3. rij' = rij /\ \A v \in Werkers : v # w => req'[v] = Geen
    BY <2>1, <2>2, StartFrame DEF VersieInv
  <2>4. OverlapVrij(rij')
    BY <2>3 DEF VersieInv
  <2>5. OverlapVrij(Na(w)')
    BY <1>1, TypeNextVrij, OnderdeelNextVrij, BeheerNextVrij DEF Begin, VersieInv
  <2> QED BY <2>3, <2>4, <2>5 DEF VersieInv
<1>2. ASSUME NEW w \in Werkers, Schrijf(w) PROVE VersieInv'
  <2>1. \A v \in Werkers : req'[v] = Geen
    BY <1>2 DEF Schrijf, VersieInv, TypeOK
  <2>2. OverlapVrij(rij')
    BY <1>2 DEF Schrijf, VersieInv
  <2> QED BY <2>1, <2>2 DEF VersieInv
<1>3. ASSUME NEW w \in Werkers, Faalt(w) PROVE VersieInv'
  <2>1. (\A v \in Werkers : req'[v] = Geen) /\ rij' = rij
    BY <1>3 DEF Faalt, VersieInv, TypeOK
  <2>2. OverlapVrij(rij')
    BY <2>1 DEF VersieInv
  <2> QED BY <2>1, <2>2 DEF VersieInv
<1>4. CASE UNCHANGED vars
  <2>1. OverlapVrij(rij') /\ \A w \in Werkers : req[w] # Geen => OverlapVrij(Na(w)')
    BY <1>4 DEF vars, VersieInv, Na, Bij
  <2> QED BY <1>4, <2>1 DEF vars, VersieInv
<1> QED BY <1>1, <1>2, <1>3, <1>4 DEF Next, Begin

LEMMA OverlapGeldig ==
  ASSUME TypeOK, OverlapVrij(rij), CatalogiAssumption
  PROVE  EenVersieGeldig
<1> SUFFICES ASSUME NEW S \in Soorten, NEW t \in S, NEW u \in S, NEW datum \in 1..MaxDatum,
                    Geldig(rij[t], datum), Geldig(rij[u], datum), rij[t].naam = rij[u].naam,
                    t # u
             PROVE  FALSE
  BY DEF EenVersieGeldig
<1>1. t \in Typen /\ u \in Typen
  BY SoortTypen
<1>2. rij[t] \in Rij /\ rij[u] \in Rij /\ Gepubliceerd(rij[t]) /\ Gepubliceerd(rij[u])
  BY <1>1 DEF TypeOK, Geldig, Gepubliceerd
<1>3. ~Overlapt(rij[t], rij[u])
  BY <1>2 DEF OverlapVrij
<1> QED BY <1>2, <1>3 DEF Overlapt, Geldig, Rij, Open, CatalogiAssumption

\* Requests that follow each other leave at most one published version of a type valid
\* on a date, the admin, the import and the forced scopes included.
THEOREM EenVersie ==
  ASSUME ~Gelijktijdig
  PROVE  Spec => []EenVersieGeldig
<1> USE CatalogiAssumption
<1>1. Init => VersieInv
  BY DEF Init, VersieInv, TypeOK, OverlapVrij, Gepubliceerd, Soorten, Typen
<1>2. TypeOK' /\ VersieInv /\ [Next]_vars => VersieInv'
  BY VersieStap
<1>3. VersieInv => EenVersieGeldig
  BY OverlapGeldig DEF VersieInv
<1> QED BY <1>1, <1>2, <1>3, TypeCorrect, PTL DEF Spec

-----------------------------------------------------------------------------
(* What is published stays as it was: requests of clients without the forced *)
(* scopes, one after the other.                                              *)

\* What belongs to a type: the relations and parts that are frozen when it is published.
Eigen(u) == Schrijfbaar(u) \cup Onderdelen

\* Pairs that are no relations or parts of what is published
Ontziet(S) == \A u \in Typen : Gepubliceerd(rij[u]) => \A x \in Eigen(u) : {u, x} \notin S

\* A request leaves what is published: no such row goes or gets another name or begin,
\* its relations and parts stay, and so do the types that they lead to.
Behoudt(d) ==
  \A u \in Typen : Gepubliceerd(rij[u]) =>
    /\ u \in DOMAIN d => /\ Gepubliceerd(d[u])
                         /\ d[u].naam = rij[u].naam /\ d[u].begin = rij[u].begin
    /\ \A x \in Schrijfbaar(u) : {u, x} \in rel => Bij(d)[x] # Geen

\* A request publishes nothing ...
PubliceertNiets(d) == \A u \in DOMAIN d : Gepubliceerd(d[u]) => Gepubliceerd(rij[u])

\* ... or one type, which has all that it needs, and changes nothing else.
Publiceert(t, d, weg, erbij) ==
  /\ Bestaat(t) /\ ~Gepubliceerd(rij[t])
  /\ d = Rijen(t, [rij[t] EXCEPT !.concept = FALSE]) /\ weg = {} /\ erbij = {}
  /\ t \in Zaaktypen => ValidateZaaktypeForPublish(t, rij)

Belooft(d, weg, erbij) ==
  /\ Behoudt(d)
  /\ Ontziet(weg) /\ Ontziet(erbij)
  /\ PubliceertNiets(d) \/ \E t \in Typen : Publiceert(t, d, weg, erbij)

\* The inductive invariant: one request at a time, which leaves what is published.
BelofteInv ==
  /\ TypeOK
  /\ GepubliceerdCompleet
  /\ \A w \in Werkers : req[w] # Geen => Belooft(req[w].rijen, req[w].weg, req[w].erbij)
  /\ \A v, w \in Werkers : req[v] # Geen /\ req[w] # Geen => v = w

\* A relation belongs to one type.
LEMMA EigenVerband ==
  ASSUME NEW t \in Typen, NEW x \in Eigen(t), NEW u \in Typen, NEW y \in Eigen(u),
         {u, y} = {t, x}
  PROVE  u = t
<1> SUFFICES ASSUME u # t PROVE FALSE
  OBVIOUS
<1>1. u = x /\ y = t
  OBVIOUS
<1>2. x \in Schrijfbaar(t) /\ t \in Schrijfbaar(x)
  BY <1>1, SoortenAssumption DEF Eigen
<1> QED BY <1>2, SoortenAssumption DEF Schrijfbaar, Typen

\* The relations of zaaktypen with informatieobjecttypen belong to neither.
LEMMA ZiotVerband ==
  ASSUME NEW z \in Zaaktypen, NEW i \in Informatieobjecttypen, NEW u \in Typen,
         NEW y \in Eigen(u)
  PROVE  {u, y} # {z, i}
<1>1. y \in Typen => y \in Schrijfbaar(u)
  BY SoortenAssumption DEF Eigen
<1>2. z \in Typen /\ i \in Typen
  BY DEF Typen
<1>3. ~(u = z /\ y = i) /\ ~(u = i /\ y = z)
  BY <1>1, <1>2, SoortenAssumption DEF Schrijfbaar
<1> QED BY <1>3

LEMMA BijEen ==
  ASSUME NEW t, NEW r, NEW x \in Typen
  PROVE  Bij(Rijen(t, r))[x] = IF x = t THEN r ELSE rij[x]
BY DEF Bij, Rijen

\* A concept that is created or updated, with its relations.
LEMMA ConceptBelooft ==
  ASSUME NEW t \in Typen, NEW r \in Rij, ~Gepubliceerd(rij[t]), r.concept, TypeOK,
         NEW V \in SUBSET Schrijfbaar(t), NEW W \in SUBSET Schrijfbaar(t)
  PROVE  Belooft(Rijen(t, r), Paren(t, V), Paren(t, W))
<1> DEFINE d == Rijen(t, r)
<1>1. DOMAIN d = {t} /\ d[t] = r
  BY DEF Rijen
<1>2. ASSUME NEW u \in Typen, Gepubliceerd(rij[u])
      PROVE  /\ u \notin DOMAIN d
             /\ \A x \in Eigen(u) : {u, x} \notin Paren(t, V) /\ {u, x} \notin Paren(t, W)
             /\ \A x \in Schrijfbaar(u) : {u, x} \in rel => Bij(d)[x] # Geen
  <2>1. u # t
    BY <1>2
  <2>2. ASSUME NEW x \in Eigen(u), NEW y \in Schrijfbaar(t) PROVE {u, x} # {t, y}
    BY <2>1, EigenVerband DEF Eigen
  <2>3. ASSUME NEW x \in Schrijfbaar(u), {u, x} \in rel PROVE Bij(d)[x] # Geen
    <3>1. x \in Typen
      BY DEF Schrijfbaar, Typen
    <3>2. rij[x] # Geen
      BY <2>3, <3>1 DEF TypeOK, Verwijst
    <3> QED BY <3>1, <3>2, BijEen, SoortenAssumption
  <2> QED BY <1>1, <2>1, <2>2, <2>3 DEF Paren
<1>3. PubliceertNiets(d)
  BY <1>1 DEF PubliceertNiets, Gepubliceerd
<1> QED BY <1>2, <1>3 DEF Belooft, Behoudt, Ontziet

\* A row that keeps its name and begin, and what it is.
LEMMA GelijkBelooft ==
  ASSUME NEW t \in Typen, NEW r \in Rij, Bestaat(t), TypeOK,
         r.naam = rij[t].naam, r.begin = rij[t].begin,
         Gepubliceerd(rij[t]) => Gepubliceerd(r)
  PROVE  Behoudt(Rijen(t, r))
<1> DEFINE d == Rijen(t, r)
<1>1. DOMAIN d = {t} /\ d[t] = r
  BY DEF Rijen
<1>2. ASSUME NEW u \in Typen, NEW x \in Schrijfbaar(u), {u, x} \in rel
      PROVE  Bij(d)[x] # Geen
  <2>1. x \in Typen
    BY DEF Schrijfbaar, Typen
  <2>2. rij[x] # Geen
    BY <1>2, <2>1 DEF TypeOK, Verwijst
  <2> QED BY <2>1, <2>2, BijEen, SoortenAssumption
<1> QED BY <1>1, <1>2 DEF Behoudt

\* Parts and relations of concepts.
LEMMA VerbandBelooft ==
  ASSUME TypeOK, NEW weg, NEW erbij, Ontziet(weg), Ontziet(erbij)
  PROVE  Belooft(<<>>, weg, erbij)
<1>1. DOMAIN <<>> = {}
  OBVIOUS
<1>2. ASSUME NEW u \in Typen, NEW x \in Schrijfbaar(u), {u, x} \in rel
      PROVE  Bij(<<>>)[x] # Geen
  <2>1. x \in Typen
    BY DEF Schrijfbaar, Typen
  <2>2. rij[x] # Geen
    BY <1>2, <2>1 DEF TypeOK, Verwijst
  <2> QED BY <1>1, <2>1, <2>2 DEF Bij
<1> QED BY <1>1, <1>2 DEF Belooft, Behoudt, PubliceertNiets

LEMMA TypeNextBelooft ==
  ASSUME TypeOK, ~Geforceerd, NEW w \in Werkers, TypeNext(w)
  PROVE  \E d, weg, erbij : Vrij(w) /\ Start(w, d, weg, erbij) /\ Belooft(d, weg, erbij)
<1>1. PICK t \in Typen :
        \/ \E r \in Rij, verwant \in SUBSET Bestaand(Schrijfbaar(t)) : Create(w, t, r, verwant)
        \/ \E r \in Rij :
             \/ Update(w, t, r, {}, {})
             \/ \E verwant \in SUBSET Bestaand(Schrijfbaar(t)) :
                  Update(w, t, r, Schrijfbaar(t), verwant)
        \/ \E eind \in 1..Open : PatchEinde(w, t, eind)
        \/ Publish(w, t)
        \/ Destroy(w, t)
  BY DEF TypeNext
<1>2. Paren(t, {}) = {}
  BY DEF Paren
<1>3. ASSUME NEW r \in Rij, NEW verwant \in SUBSET Bestaand(Schrijfbaar(t)),
             Create(w, t, r, verwant)
      PROVE  Belooft(Rijen(t, r), {}, Paren(t, verwant))
  <2>1. ~Gepubliceerd(rij[t]) /\ r.concept /\ verwant \in SUBSET Schrijfbaar(t)
    BY <1>3 DEF Create, Nieuw, Bestaat, Gepubliceerd, Bestaand
  <2>2. Belooft(Rijen(t, r), Paren(t, {}), Paren(t, verwant))
    BY <2>1, ConceptBelooft
  <2> QED BY <1>2, <2>2
<1>4. ASSUME NEW r \in Rij, NEW velden \in SUBSET Schrijfbaar(t),
             NEW verwant \in SUBSET Schrijfbaar(t), Update(w, t, r, velden, verwant)
      PROVE  Belooft(Rijen(t, r), Paren(t, velden), Paren(t, verwant))
  <2>1. rij[t].concept /\ r.concept /\ ~Gepubliceerd(rij[t])
    BY <1>4 DEF Update, MagWijzigen, Gepubliceerd
  <2> QED BY <2>1, ConceptBelooft
<1>5. ASSUME NEW eind \in 1..Open, PatchEinde(w, t, eind)
      PROVE  Belooft(Rijen(t, [rij[t] EXCEPT !.eind = eind]), {}, {})
  <2>1. PICK r : r = [rij[t] EXCEPT !.eind = eind]
    OBVIOUS
  <2>2. Bestaat(t) /\ rij[t] \in Rij /\ r \in Rij
    BY <1>5, <2>1, BestaandRij DEF PatchEinde
  <2>3. r.naam = rij[t].naam /\ r.begin = rij[t].begin /\ r.concept = rij[t].concept
    BY <2>1, <2>2 DEF Rij
  <2>4. Gepubliceerd(r) <=> Gepubliceerd(rij[t])
    BY <2>2, <2>3, SoortenAssumption DEF Gepubliceerd, Bestaat
  <2>5. Behoudt(Rijen(t, r))
    BY <2>2, <2>3, <2>4, GelijkBelooft
  <2>6. PubliceertNiets(Rijen(t, r))
    BY <2>4 DEF PubliceertNiets, Rijen
  <2> QED BY <2>1, <2>5, <2>6 DEF Belooft, Ontziet
<1>6. ASSUME Publish(w, t)
      PROVE  Belooft(Rijen(t, [rij[t] EXCEPT !.concept = FALSE]), {}, {})
  <2>1. PICK r : r = [rij[t] EXCEPT !.concept = FALSE]
    OBVIOUS
  <2>2. Bestaat(t) /\ rij[t] \in Rij /\ r \in Rij
    BY <1>6, <2>1, BestaandRij DEF Publish
  <2>3. r.naam = rij[t].naam /\ r.begin = rij[t].begin /\ ~r.concept
    BY <2>1, <2>2 DEF Rij
  <2>4. Gepubliceerd(r)
    BY <2>2, <2>3, SoortenAssumption DEF Gepubliceerd
  <2>5. Behoudt(Rijen(t, r))
    BY <2>2, <2>3, <2>4, GelijkBelooft
  <2>6. CASE Gepubliceerd(rij[t])
    <3>1. PubliceertNiets(Rijen(t, r))
      BY <2>6 DEF PubliceertNiets, Rijen
    <3> QED BY <2>1, <2>5, <3>1 DEF Belooft, Ontziet
  <2>7. CASE ~Gepubliceerd(rij[t])
    <3>1. Publiceert(t, Rijen(t, r), {}, {})
      BY <1>6, <2>1, <2>2, <2>7 DEF Publiceert, Publish
    <3> QED BY <2>1, <2>5, <3>1 DEF Belooft, Ontziet
  <2> QED BY <2>6, <2>7
<1>7. ASSUME Destroy(w, t) PROVE Belooft(Rijen(t, Geen), {}, {})
  <2>1. rij[t].concept /\ Concepten(Verwant(t, DestroyRelated(t))) /\ ~Gepubliceerd(rij[t])
    BY <1>7 DEF Destroy, Gepubliceerd
  <2>2. DOMAIN Rijen(t, Geen) = {t} /\ Rijen(t, Geen)[t] = Geen
    BY DEF Rijen
  <2>3. ASSUME NEW u \in Typen, Gepubliceerd(rij[u]), NEW x \in Schrijfbaar(u), {u, x} \in rel
        PROVE  Bij(Rijen(t, Geen))[x] # Geen
    <3>1. x \in Typen /\ rij[x] # Geen
      BY <2>3 DEF TypeOK, Verwijst, Schrijfbaar, Typen
    <3>2. x # t
      <4> SUFFICES ASSUME x = t PROVE FALSE
        OBVIOUS
      <4>1. {t, u} \in rel
        BY <2>3, {t, u} = {u, t}
      <4>2. u \notin Soort(t)
        BY <2>3, SoortenAssumption DEF Schrijfbaar, Soort, Soorten
      <4>3. u \in Verwant(t, DestroyRelated(t))
        BY <4>1, <4>2 DEF Verwant, DestroyRelated
      <4> QED BY <2>1, <2>3, <4>3 DEF Concepten
    <3> QED BY <3>1, <3>2, BijEen
  <2>4. Behoudt(Rijen(t, Geen))
    BY <2>1, <2>2, <2>3 DEF Behoudt
  <2>5. PubliceertNiets(Rijen(t, Geen))
    BY <2>2 DEF PubliceertNiets, Gepubliceerd
  <2> QED BY <2>4, <2>5 DEF Belooft, Ontziet
<1>8. ASSUME NEW r \in Rij, Update(w, t, r, {}, {})
      PROVE  \E d, weg, erbij : Vrij(w) /\ Start(w, d, weg, erbij) /\ Belooft(d, weg, erbij)
  BY <1>4, <1>8 DEF Update
<1>9. ASSUME NEW r \in Rij, NEW verwant \in SUBSET Bestaand(Schrijfbaar(t)),
             Update(w, t, r, Schrijfbaar(t), verwant)
      PROVE  \E d, weg, erbij : Vrij(w) /\ Start(w, d, weg, erbij) /\ Belooft(d, weg, erbij)
  <2>1. verwant \in SUBSET Schrijfbaar(t)
    BY DEF Bestaand
  <2> QED BY <1>4, <1>9, <2>1 DEF Update
<1>10. ASSUME NEW r \in Rij, NEW verwant \in SUBSET Bestaand(Schrijfbaar(t)),
              Create(w, t, r, verwant)
       PROVE  \E d, weg, erbij : Vrij(w) /\ Start(w, d, weg, erbij) /\ Belooft(d, weg, erbij)
  BY <1>3, <1>10 DEF Create
<1>11. ASSUME NEW eind \in 1..Open, PatchEinde(w, t, eind)
       PROVE  \E d, weg, erbij : Vrij(w) /\ Start(w, d, weg, erbij) /\ Belooft(d, weg, erbij)
  BY <1>5, <1>11 DEF PatchEinde
<1>12. ASSUME Publish(w, t)
       PROVE  \E d, weg, erbij : Vrij(w) /\ Start(w, d, weg, erbij) /\ Belooft(d, weg, erbij)
  BY <1>6, <1>12 DEF Publish
<1>13. ASSUME Destroy(w, t)
       PROVE  \E d, weg, erbij : Vrij(w) /\ Start(w, d, weg, erbij) /\ Belooft(d, weg, erbij)
  BY <1>7, <1>13 DEF Destroy
<1> QED BY <1>1, <1>8, <1>9, <1>10, <1>11, <1>12, <1>13

LEMMA OnderdeelNextBelooft ==
  ASSUME TypeOK, ~Geforceerd, NEW w \in Werkers, OnderdeelNext(w)
  PROVE  \E d, weg, erbij : Vrij(w) /\ Start(w, d, weg, erbij) /\ Belooft(d, weg, erbij)
<1>1. PICK z \in Zaaktypen :
        \/ \E o \in Onderdelen \ ZonderKlasse : CreateOnderdeel(w, z, o)
        \/ \E o, p \in Onderdelen, y \in Zaaktypen : UpdateOnderdeel(w, z, o, y, p)
        \/ \E o \in Onderdelen : DestroyOnderdeel(w, z, o)
        \/ \E i \in Informatieobjecttypen :
             \/ CreateZiot(w, z, i)
             \/ \E y \in Zaaktypen, j \in Informatieobjecttypen : UpdateZiot(w, z, i, y, j)
             \/ DestroyZiot(w, z, i)
  BY DEF OnderdeelNext
<1>2. ASSUME NEW y \in Zaaktypen, NEW o \in Onderdelen, ZaakTypeConcept(y),
             NEW u \in Typen, Gepubliceerd(rij[u]), NEW x \in Eigen(u)
      PROVE  {u, x} # {y, o}
  <2>1. y \in Typen /\ o \in Eigen(y) /\ u # y
    BY <1>2 DEF Typen, Eigen, ZaakTypeConcept, Gepubliceerd
  <2> QED BY <2>1, EigenVerband
<1>3. ASSUME NEW weg, NEW erbij, Vrij(w), Start(w, <<>>, weg, erbij),
             Ontziet(weg), Ontziet(erbij)
      PROVE  \E d, p, q : Vrij(w) /\ Start(w, d, p, q) /\ Belooft(d, p, q)
  BY <1>3, VerbandBelooft
<1>4. ASSUME NEW o \in Onderdelen \ ZonderKlasse, CreateOnderdeel(w, z, o)
      PROVE  \E d, p, q : Vrij(w) /\ Start(w, d, p, q) /\ Belooft(d, p, q)
  <2>1. Vrij(w) /\ ZaakTypeConcept(z) /\ Start(w, <<>>, {}, {{z, o}})
    BY <1>4 DEF CreateOnderdeel
  <2>2. Ontziet({}) /\ Ontziet({{z, o}})
    BY <1>2, <2>1 DEF Ontziet
  <2> QED BY <1>3, <2>1, <2>2
<1>5. ASSUME NEW o \in Onderdelen, NEW p \in Onderdelen, NEW y \in Zaaktypen,
             UpdateOnderdeel(w, z, o, y, p)
      PROVE  \E d, p1, q1 : Vrij(w) /\ Start(w, d, p1, q1) /\ Belooft(d, p1, q1)
  <2>1. Vrij(w) /\ ZaakTypeConcept(z) /\ ZaakTypeConcept(y) /\ Start(w, <<>>, {{z, o}}, {{y, p}})
    BY <1>5 DEF UpdateOnderdeel
  <2>2. Ontziet({{z, o}}) /\ Ontziet({{y, p}})
    BY <1>2, <2>1 DEF Ontziet
  <2> QED BY <1>3, <2>1, <2>2
<1>6. ASSUME NEW o \in Onderdelen, DestroyOnderdeel(w, z, o)
      PROVE  \E d, p, q : Vrij(w) /\ Start(w, d, p, q) /\ Belooft(d, p, q)
  <2>1. Vrij(w) /\ ZaakTypeConcept(z) /\ Start(w, <<>>, {{z, o}}, {})
    BY <1>6 DEF DestroyOnderdeel
  <2>2. Ontziet({{z, o}}) /\ Ontziet({})
    BY <1>2, <2>1 DEF Ontziet
  <2> QED BY <1>3, <2>1, <2>2
<1>7. ASSUME NEW i \in Informatieobjecttypen, CreateZiot(w, z, i)
      PROVE  \E d, p, q : Vrij(w) /\ Start(w, d, p, q) /\ Belooft(d, p, q)
  <2>1. Vrij(w) /\ Start(w, <<>>, {}, {{z, i}})
    BY <1>7 DEF CreateZiot
  <2>2. Ontziet({}) /\ Ontziet({{z, i}})
    BY ZiotVerband DEF Ontziet
  <2> QED BY <1>3, <2>1, <2>2
<1>8. ASSUME NEW i \in Informatieobjecttypen, NEW y \in Zaaktypen,
             NEW j \in Informatieobjecttypen, UpdateZiot(w, z, i, y, j)
      PROVE  \E d, p, q : Vrij(w) /\ Start(w, d, p, q) /\ Belooft(d, p, q)
  <2>1. Vrij(w) /\ Start(w, <<>>, {{z, i}}, {{y, j}})
    BY <1>8 DEF UpdateZiot
  <2>2. Ontziet({{z, i}}) /\ Ontziet({{y, j}})
    BY ZiotVerband DEF Ontziet
  <2> QED BY <1>3, <2>1, <2>2
<1>9. ASSUME NEW i \in Informatieobjecttypen, DestroyZiot(w, z, i)
      PROVE  \E d, p, q : Vrij(w) /\ Start(w, d, p, q) /\ Belooft(d, p, q)
  <2>1. Vrij(w) /\ Start(w, <<>>, {{z, i}}, {})
    BY <1>9 DEF DestroyZiot
  <2>2. Ontziet({{z, i}}) /\ Ontziet({})
    BY ZiotVerband DEF Ontziet
  <2> QED BY <1>3, <2>1, <2>2
<1> QED BY <1>1, <1>4, <1>5, <1>6, <1>7, <1>8, <1>9

\* A step that keeps what was published, with what belongs to it.
StapBehoudt ==
  \A u \in Typen : Gepubliceerd(rij[u]) =>
    /\ Gepubliceerd(rij'[u])
    /\ rij'[u].naam = rij[u].naam /\ rij'[u].begin = rij[u].begin
    /\ \A x \in Eigen(u) : {u, x} \in rel' <=> {u, x} \in rel

\* A step that publishes one type, which has all that it needs.
StapPubliceert(t) ==
  /\ Bestaat(t) /\ ~Gepubliceerd(rij[t])
  /\ rij' = [rij EXCEPT ![t] = [rij[t] EXCEPT !.concept = FALSE]]
  /\ rel' = rel
  /\ t \in Zaaktypen => ValidateZaaktypeForPublish(t, rij)

BelofteStap ==
  /\ StapBehoudt
  /\ \/ \A u \in Typen : Gepubliceerd(rij'[u]) => Gepubliceerd(rij[u])
     \/ \E t \in Typen : StapPubliceert(t)

\* Writing what leaves everything published is such a step.
LEMMA SchrijfBelofte ==
  ASSUME TypeOK, NEW w \in Werkers, Schrijf(w), Belooft(req[w].rijen, req[w].weg, req[w].erbij)
  PROVE  BelofteStap
<1>1. PICK d, weg, erbij : d = req[w].rijen /\ weg = req[w].weg /\ erbij = req[w].erbij
  OBVIOUS
<1>2. Belooft(d, weg, erbij) /\ Na(w) = Bij(d)
  BY <1>1 DEF Na
<1>3. CASE ~ \A v \in erbij : Verwijst(v, Bij(d))
  <2>1. rij' = rij /\ rel' = rel
    BY <1>1, <1>2, <1>3 DEF Schrijf
  <2> QED BY <2>1 DEF BelofteStap, StapBehoudt
<1>4. CASE \A v \in erbij : Verwijst(v, Bij(d))
  <2>1. rij' = Bij(d) /\ rel' = {v \in (rel \ weg) \cup erbij : Verwijst(v, Bij(d))}
    BY <1>1, <1>2, <1>4 DEF Schrijf
  <2>2. ASSUME NEW u \in Typen
        PROVE  rij'[u] = IF u \in DOMAIN d THEN d[u] ELSE rij[u]
    BY <2>1 DEF Bij
  <2>3. ASSUME NEW u \in Typen, Gepubliceerd(rij[u])
        PROVE  /\ Gepubliceerd(rij'[u])
               /\ rij'[u].naam = rij[u].naam /\ rij'[u].begin = rij[u].begin
    BY <1>2, <2>2, <2>3 DEF Belooft, Behoudt
  <2>4. ASSUME NEW u \in Typen, Gepubliceerd(rij[u]), NEW x \in Eigen(u)
        PROVE  {u, x} \in rel' <=> {u, x} \in rel
    <3>1. {u, x} \notin weg /\ {u, x} \notin erbij
      BY <1>2, <2>4 DEF Belooft, Ontziet
    <3>2. {u, x} \in rel' => {u, x} \in rel
      BY <2>1, <3>1
    <3>3. ASSUME {u, x} \in rel PROVE Verwijst({u, x}, Bij(d))
      <4>1. Bij(d)[u] # Geen
        BY <2>1, <2>3, <2>4 DEF Gepubliceerd
      <4>2. x \in Typen => x \in Schrijfbaar(u)
        BY SoortenAssumption DEF Eigen
      <4>3. x \in Typen => Bij(d)[x] # Geen
        BY <1>2, <2>4, <3>3, <4>2 DEF Belooft, Behoudt
      <4> QED BY <4>1, <4>3 DEF Verwijst
    <3> QED BY <2>1, <3>1, <3>2, <3>3
  <2>5. StapBehoudt
    BY <2>3, <2>4 DEF StapBehoudt
  <2>6. CASE PubliceertNiets(d)
    BY <2>2, <2>5, <2>6 DEF BelofteStap, PubliceertNiets
  <2>7. ASSUME NEW t \in Typen, Publiceert(t, d, weg, erbij) PROVE StapPubliceert(t)
    <3>1. PICK r : r = [rij[t] EXCEPT !.concept = FALSE]
      OBVIOUS
    <3>2. d = Rijen(t, r) /\ weg = {} /\ erbij = {} /\ r \in Rij
      BY <2>7, <3>1, BestaandRij DEF Publiceert
    <3>3. rij' = [rij EXCEPT ![t] = r]
      BY <2>1, <3>2 DEF Bij, Rijen, TypeOK
    <3>4. ASSUME NEW v \in rel PROVE Verwijst(v, Bij(d))
      <4>1. Verwijst(v, rij)
        BY DEF TypeOK
      <4> QED BY <3>2, <4>1, BijEen, SoortenAssumption DEF Verwijst
    <3>5. rel' = rel
      BY <2>1, <3>2, <3>4
    <3> QED BY <2>7, <3>1, <3>3, <3>5 DEF Publiceert, StapPubliceert
  <2> QED BY <1>2, <2>5, <2>6, <2>7 DEF Belooft, BelofteStap
<1> QED BY <1>3, <1>4

LEMMA OnderdelenGelijk ==
  ASSUME NEW z, NEW S, NEW R, Compleet(z, S), \A o \in Onderdelen : {z, o} \in R <=> {z, o} \in S
  PROVE  Compleet(z, R)
<1>1. ZonderKlasse \subseteq Onderdelen /\ Roltypen \subseteq Onderdelen
      /\ Resultaattypen \subseteq Onderdelen /\ Statustypen \subseteq Onderdelen
  BY DEF Onderdelen, ZonderKlasse, Resultaattypen
<1> QED BY <1>1 DEF Compleet

\* Such a step keeps published zaaktypen complete.
LEMMA CompleetStap ==
  ASSUME TypeOK, TypeOK', GepubliceerdCompleet, BelofteStap
  PROVE  GepubliceerdCompleet'
<1> SUFFICES ASSUME NEW z \in Zaaktypen, Gepubliceerd(rij'[z])
             PROVE  /\ Compleet(z, rel')
                    /\ \A b \in Besluittypen : {z, b} \in rel' => Gepubliceerd(rij'[b])
  BY DEF GepubliceerdCompleet, Verwant, Compleet
<1>1. z \in Typen /\ Besluittypen \subseteq Typen
  BY DEF Typen
<1>2. Besluittypen \subseteq Eigen(z) /\ Onderdelen \subseteq Eigen(z)
  BY DEF Eigen, Schrijfbaar
<1>3. CASE Gepubliceerd(rij[z])
  <2>1. \A x \in Eigen(z) : {z, x} \in rel' <=> {z, x} \in rel
    BY <1>1, <1>3 DEF BelofteStap, StapBehoudt
  <2>2. Compleet(z, rel) /\ \A b \in Besluittypen : {z, b} \in rel => Gepubliceerd(rij[b])
    BY <1>3 DEF GepubliceerdCompleet, Verwant
  <2>3. Compleet(z, rel')
    BY <1>2, <2>1, <2>2, OnderdelenGelijk
  <2>4. \A b \in Besluittypen : Gepubliceerd(rij[b]) => Gepubliceerd(rij'[b])
    BY <1>1 DEF BelofteStap, StapBehoudt
  <2> QED BY <1>2, <2>1, <2>2, <2>3, <2>4
<1>4. CASE ~Gepubliceerd(rij[z])
  <2>1. PICK t \in Typen : StapPubliceert(t)
    BY <1>1, <1>4 DEF BelofteStap
  <2>2. t = z
    BY <1>1, <1>4, <2>1 DEF StapPubliceert, TypeOK
  <2>3. ValidateZaaktypeForPublish(z, rij) /\ rel' = rel
    BY <2>1, <2>2 DEF StapPubliceert
  <2>4. Compleet(z, rel') /\ \A b \in Besluittypen : {z, b} \in rel' => Gepubliceerd(rij[b])
    BY <2>3 DEF ValidateZaaktypeForPublish, Verwant
  <2>5. \A b \in Besluittypen : Gepubliceerd(rij[b]) => Gepubliceerd(rij'[b])
    BY <1>1 DEF BelofteStap, StapBehoudt
  <2> QED BY <2>4, <2>5
<1> QED BY <1>3, <1>4

\* Every step is one of those, or leaves the rows and relations.
LEMMA BelofteBehouden ==
  ASSUME ~Gelijktijdig, ~Geforceerd, ~Beheer, BelofteInv, TypeOK', [Next]_vars
  PROVE  BelofteInv' /\ (BelofteStap \/ UNCHANGED <<rij, rel>>)
<1>1. ASSUME NEW w \in Werkers, Begin(w)
      PROVE  BelofteInv' /\ UNCHANGED <<rij, rel>>
  <2>1. TypeNext(w) \/ OnderdeelNext(w)
    BY <1>1 DEF Begin, BeheerNext, AdminSave, AdminReset, AdminResultaattype, AdminDeleteType,
                AdminDeleteVerband, AdminPublish, AddVersion, Import
  <2>2. PICK d, weg, erbij : Vrij(w) /\ Start(w, d, weg, erbij) /\ Belooft(d, weg, erbij)
    BY <2>1, TypeNextBelooft, OnderdeelNextBelooft DEF BelofteInv
  <2>3. \A v \in Werkers : req[v] = Geen
    BY <2>2 DEF Vrij
  <2>4. /\ rij' = rij /\ rel' = rel
        /\ req'[w] = [rijen |-> d, weg |-> weg, erbij |-> erbij]
        /\ \A v \in Werkers : v # w => req'[v] = Geen
    BY <2>2, <2>3, StartFrame DEF BelofteInv
  <2>5. GepubliceerdCompleet'
    BY <2>4 DEF BelofteInv, GepubliceerdCompleet, Verwant
  <2>6. Belooft(d, weg, erbij)'
    BY <2>2, <2>4 DEF Belooft, Behoudt, Ontziet, PubliceertNiets, Publiceert, Bij, Bestaat,
                      ValidateZaaktypeForPublish, Verwant
  <2>7. Belooft(req[w].rijen, req[w].weg, req[w].erbij)'
    BY <2>4, <2>6
  <2> QED BY <2>4, <2>5, <2>7 DEF BelofteInv
<1>2. ASSUME NEW w \in Werkers, Schrijf(w) PROVE BelofteInv' /\ BelofteStap
  <2>1. \A v \in Werkers : req'[v] = Geen
    BY <1>2 DEF Schrijf, BelofteInv, TypeOK
  <2>2. BelofteStap
    BY <1>2, SchrijfBelofte DEF BelofteInv, Schrijf
  <2>3. GepubliceerdCompleet'
    BY <2>2, CompleetStap DEF BelofteInv
  <2> QED BY <2>1, <2>2, <2>3 DEF BelofteInv
<1>3. ASSUME NEW w \in Werkers, Faalt(w) PROVE BelofteInv' /\ UNCHANGED <<rij, rel>>
  <2>1. (\A v \in Werkers : req'[v] = Geen) /\ rij' = rij /\ rel' = rel
    BY <1>3 DEF Faalt, BelofteInv, TypeOK
  <2>2. GepubliceerdCompleet'
    BY <2>1 DEF BelofteInv, GepubliceerdCompleet, Verwant
  <2> QED BY <2>1, <2>2 DEF BelofteInv
<1>4. CASE UNCHANGED vars
  <2>1. rij' = rij /\ rel' = rel /\ req' = req
    BY <1>4 DEF vars
  <2>2. GepubliceerdCompleet'
    BY <2>1 DEF BelofteInv, GepubliceerdCompleet, Verwant
  <2>3. ASSUME NEW w \in Werkers, req[w] # Geen
        PROVE  Belooft(req[w].rijen, req[w].weg, req[w].erbij)'
    <3>1. PICK d, weg, erbij : d = req[w].rijen /\ weg = req[w].weg /\ erbij = req[w].erbij
      OBVIOUS
    <3>2. Belooft(d, weg, erbij)
      BY <2>3, <3>1 DEF BelofteInv
    <3>3. Belooft(d, weg, erbij)'
      BY <2>1, <3>2 DEF Belooft, Behoudt, Ontziet, PubliceertNiets, Publiceert, Bij, Bestaat,
                        ValidateZaaktypeForPublish, Verwant
    <3> QED BY <2>1, <3>1, <3>3
  <2> QED BY <2>1, <2>2, <2>3 DEF BelofteInv
<1> QED BY <1>1, <1>2, <1>3, <1>4 DEF Next, Begin

LEMMA BelofteInit ==
  ASSUME Init
  PROVE  BelofteInv
BY DEF Init, BelofteInv, TypeOK, GepubliceerdCompleet, Gepubliceerd, Typen

\* A published zaaktype keeps the parts and the published besluittypen that it needed to
\* be published, as long as requests follow each other and come from clients without the
\* forced scopes.
THEOREM CompleetGepubliceerd ==
  ASSUME ~Gelijktijdig, ~Geforceerd, ~Beheer
  PROVE  Spec => []GepubliceerdCompleet
<1>1. TypeOK' /\ BelofteInv /\ [Next]_vars => BelofteInv'
  BY BelofteBehouden
<1>2. BelofteInv => GepubliceerdCompleet
  BY DEF BelofteInv
<1>3. Init => BelofteInv
  BY BelofteInit
<1> QED BY <1>1, <1>2, <1>3, TypeCorrect, PTL DEF Spec

\* A step that leaves what is published is a step of the promise.
LEMMA BelofteVerfijnt ==
  ASSUME TypeOK, TypeOK', BelofteStap \/ UNCHANGED <<rij, rel>>
  PROVE  [Belofte!Next]_<<[t \in Typen |-> Stand(t)], [t \in Typen |-> Inhoud(t)]>>
<1> DEFINE stand == [t \in Typen |-> Stand(t)]
           inhoud == [t \in Typen |-> Inhoud(t)]
<1>1. CASE UNCHANGED <<rij, rel>>
  BY <1>1 DEF Stand, Inhoud, Bestaat, Verwant
<1>2. CASE BelofteStap
  <2>1. ASSUME NEW u \in Typen, Gepubliceerd(rij[u])
        PROVE  /\ stand[u] = "gepubliceerd" /\ stand'[u] = "gepubliceerd"
               /\ inhoud'[u] = inhoud[u]
    <3>1. /\ Gepubliceerd(rij'[u]) /\ rij'[u].naam = rij[u].naam /\ rij'[u].begin = rij[u].begin
          /\ \A x \in Eigen(u) : {u, x} \in rel' <=> {u, x} \in rel
      BY <1>2, <2>1 DEF BelofteStap, StapBehoudt
    <3>2. Verwant(u, Eigen(u))' = Verwant(u, Eigen(u))
      BY <3>1 DEF Verwant
    <3> QED BY <2>1, <3>1, <3>2 DEF Stand, Inhoud, Bestaat, Gepubliceerd, Eigen
  <2>2. CASE \A u \in Typen : Gepubliceerd(rij'[u]) => Gepubliceerd(rij[u])
    <3>1. ASSUME NEW u \in Typen, ~Gepubliceerd(rij[u])
          PROVE  stand[u] # "gepubliceerd" /\ stand'[u] \in {"geen", "concept"}
      BY <2>2, <3>1 DEF Stand, Bestaat, Gepubliceerd
    <3>2. ASSUME NEW u \in Typen
          PROVE  IF stand[u] = "gepubliceerd" THEN stand'[u] = stand[u] /\ inhoud'[u] = inhoud[u]
                 ELSE stand'[u] \in {"geen", "concept"}
      BY <2>1, <3>1
    <3> QED BY <3>2 DEF Belofte!Next, Belofte!Bewerk
  <2>3. ASSUME NEW t \in Typen, StapPubliceert(t) PROVE Belofte!Publiceer(t)
    <3>1. PICK r : r = [rij[t] EXCEPT !.concept = FALSE]
      OBVIOUS
    <3>2. /\ Bestaat(t) /\ rij[t].concept /\ r \in Rij /\ ~r.concept
          /\ r.naam = rij[t].naam /\ r.begin = rij[t].begin
      BY <2>3, <3>1, BestaandRij DEF StapPubliceert, Gepubliceerd, Bestaat, Rij
    <3>3. rij' = [rij EXCEPT ![t] = r] /\ rel' = rel
      BY <2>3, <3>1 DEF StapPubliceert
    <3>4. stand[t] = "concept" /\ stand'[t] = "gepubliceerd"
      BY <3>2, <3>3, SoortenAssumption DEF Stand, Bestaat, TypeOK
    <3>5. ASSUME NEW u \in Typen, u # t PROVE stand'[u] = stand[u] /\ inhoud'[u] = inhoud[u]
      BY <3>3, <3>5 DEF Stand, Inhoud, Bestaat, Verwant, TypeOK
    <3>6. inhoud'[t] = inhoud[t]
      BY <3>2, <3>3, SoortenAssumption DEF Inhoud, Bestaat, Verwant, TypeOK
    <3>7. stand' = [stand EXCEPT ![t] = "gepubliceerd"]
      BY <3>4, <3>5
    <3>8. inhoud' = inhoud
      BY <3>5, <3>6
    <3> QED BY <3>4, <3>7, <3>8 DEF Belofte!Publiceer
  <2> QED BY <1>2, <2>2, <2>3 DEF BelofteStap, Belofte!Next
<1> QED BY <1>1, <1>2

\* Requests of clients without the forced scopes, one after the other, do to the types
\* what the catalogi promise: once a type is published it stays, with its name, begin,
\* parts and relations.
THEOREM HoudtBelofte ==
  ASSUME ~Gelijktijdig, ~Geforceerd, ~Beheer
  PROVE  Spec => ImplementsPublicatie
<1>1. Init => BelofteInv
  BY BelofteInit
<1>2. Init => Belofte!Init
  BY DEF Init, Belofte!Init, Stand, Bestaat
<1>3. TypeOK' /\ BelofteInv /\ [Next]_vars => BelofteInv'
  BY BelofteBehouden
<1>4. TypeOK' /\ BelofteInv /\ [Next]_vars
        => [Belofte!Next]_<<[t \in Typen |-> Stand(t)], [t \in Typen |-> Inhoud(t)]>>
  BY BelofteBehouden, BelofteVerfijnt DEF BelofteInv
<1> QED BY <1>1, <1>2, <1>3, <1>4, TypeCorrect, PTL DEF Spec, ImplementsPublicatie, Belofte!Spec

=============================================================================
