-------------------------- MODULE AutorisatiesProofs --------------------------
(***************************************************************************)
(* Proofs about Autorisaties: its type invariant, that applicaties stay in *)
(* the API, that client ids belong to one of them, that subscribers know   *)
(* what they may do and that the list of zaken shows what may be opened,   *)
(* for every set of applicaties, types, catalogi and lists of              *)
(* autorisaties, and any number of requests at the same time.              *)
(***************************************************************************)
EXTENDS Autorisaties, FiniteSetTheorems, TLAPS

-----------------------------------------------------------------------------
(* What an applicatie can do is counted in numbers. *)

Sleutels == (Typen \cup Extern) \X Niveaus \X BOOLEAN

\* An applicatie can have a few autorisaties for the same, which differ in their place.
LEMMA RijenEindig ==
  ASSUME NEW R \in SUBSET Rij, NEW x
  PROVE  Cardinality({r \in R : <<r.type, r.max, r.leest>> = x}) \in Nat
<1> DEFINE S == {r \in R : <<r.type, r.max, r.leest>> = x}
           rij(n) == [nr |-> n, type |-> x[1], max |-> x[2], leest |-> x[3]]
<1>1. S \subseteq {rij(1)} \cup {rij(2)} \cup {rij(3)}
  <2> SUFFICES ASSUME NEW r \in S PROVE r = rij(1) \/ r = rij(2) \/ r = rij(3)
    OBVIOUS
  <2>1. r \in Rij /\ x = <<r.type, r.max, r.leest>>
    OBVIOUS
  <2>2. r.nr = 1 \/ r.nr = 2 \/ r.nr = 3
    BY <2>1 DEF Rij
  <2>3. r = [nr |-> r.nr, type |-> r.type, max |-> r.max, leest |-> r.leest]
    BY <2>1 DEF Rij
  <2>4. x[1] = r.type /\ x[2] = r.max /\ x[3] = r.leest
    BY <2>1
  <2> QED BY <2>2, <2>3, <2>4
<1> HIDE DEF S, rij
<1>2. IsFiniteSet({rij(1)} \cup {rij(2)} \cup {rij(3)})
  <2>1. IsFiniteSet({rij(1)})
    BY FS_Singleton
  <2>2. IsFiniteSet({rij(1)} \cup {rij(2)})
    BY <2>1, FS_AddElement
  <2> QED BY <2>2, FS_AddElement
<1>3. IsFiniteSet(S)
  BY <1>1, <1>2, FS_Subset
<1> QED BY <1>3, FS_CardinalityType DEF S

\* And one for the catalogus of a type.
LEMMA CatsEindig ==
  ASSUME NEW R \in SUBSET CatRij, NEW x,
         NEW S \in SUBSET R,
         \A c \in S : x[2] = c.max /\ x[3] = c.leest /\ c.catalogus = CatalogusVan[x[1]]
  PROVE  Cardinality(S) \in Nat
<1> DEFINE k == [catalogus |-> CatalogusVan[x[1]], max |-> x[2], leest |-> x[3]]
<1>1. S \subseteq {k}
  <2> SUFFICES ASSUME NEW c \in S PROVE c = k
    OBVIOUS
  <2>1. c = [catalogus |-> c.catalogus, max |-> c.max, leest |-> c.leest]
    BY DEF CatRij
  <2> QED BY <2>1
<1> HIDE DEF k
<1>2. IsFiniteSet(S)
  <2>1. IsFiniteSet({k})
    BY FS_Singleton
  <2> QED BY <1>1, <2>1, FS_Subset
<1> QED BY <1>2, FS_CardinalityType

LEMMA InhoudTelt ==
  ASSUME NEW app \in Applicatie, NEW T
  PROVE  Inhoud(app, T) \in Tellingen
<1> DEFINE van(c) == {<<t, c.max, c.leest>> :
                        t \in {u \in Typen : T[u] = "er" /\ CatalogusVan[u] = c.catalogus}}
           rij(x) == {r \in app.rijen : <<r.type, r.max, r.leest>> = x}
           cat(x) == {c \in app.cats : x \in van(c)}
           X == {<<r.type, r.max, r.leest>> : r \in app.rijen} \cup UNION {van(c) : c \in app.cats}
<1>1. app.rijen \subseteq Rij /\ app.cats \subseteq CatRij
  BY DEF Applicatie
<1>2. X \subseteq Sleutels
  <2>1. \A r \in app.rijen : <<r.type, r.max, r.leest>> \in Sleutels
    BY <1>1 DEF Rij, Sleutels
  <2>2. \A c \in app.cats : van(c) \subseteq Sleutels
    BY <1>1 DEF CatRij, Sleutels
  <2> QED BY <2>1, <2>2
<1>3. \A x \in X : Cardinality(rij(x)) + Cardinality(cat(x)) \in Nat
  <2> SUFFICES ASSUME NEW x \in X PROVE Cardinality(rij(x)) + Cardinality(cat(x)) \in Nat
    OBVIOUS
  <2>1. Cardinality(rij(x)) \in Nat
    BY <1>1, RijenEindig
  <2>2. Cardinality(cat(x)) \in Nat
    <3>1. \A c \in cat(x) : x[2] = c.max /\ x[3] = c.leest /\ c.catalogus = CatalogusVan[x[1]]
      OBVIOUS
    <3> HIDE DEF cat
    <3>2. cat(x) \in SUBSET app.cats
      BY DEF cat
    <3> QED BY <1>1, <3>1, <3>2, CatsEindig
  <2> QED BY <2>1, <2>2
<1>4. Inhoud(app, T) = {<<x, Cardinality(rij(x)) + Cardinality(cat(x))>> : x \in X}
  BY DEF Inhoud
<1> HIDE DEF rij, cat, X
<1>5. {<<x, Cardinality(rij(x)) + Cardinality(cat(x))>> : x \in X} \subseteq Sleutels \X Nat
  BY <1>2, <1>3
<1> QED BY <1>4, <1>5 DEF Tellingen, Sleutels

LEMMA MeldTelt ==
  ASSUME NEW S, NEW A \in [Apps -> Applicatie], NEW T, bekend \in [Apps -> Tellingen],
         Meld(S, A, T)
  PROVE  bekend' \in [Apps -> Tellingen]
<1>1. \A a \in Apps : Inhoud(A[a], T) \in Tellingen
  BY InhoudTelt
<1> QED BY <1>1 DEF Meld

-----------------------------------------------------------------------------
(* Types *)

\* What requests hold: those about an applicatie are about one, those that delete a type are
\* about different types.
Vast ==
  /\ \A w \in Werkers : tx[w] # Geen /\ tx[w].op \in {"api", "beheer", "invoer", "formulier"} =>
       \E a \in Apps : tx[w].apps = {a}
  /\ \A w \in Werkers : tx[w] # Geen /\ tx[w].op = "type_weg" => tx[w].type \in Typen
  /\ \A v, w \in Werkers :
       v # w /\ tx[v] # Geen /\ tx[v].op = "type_weg" /\ tx[w] # Geen /\ tx[w].op = "type_weg"
       => tx[v].type # tx[w].type

TInv == TypeOK /\ Vast

\* What a request that starts must be for the invariant to hold
Begint(w, t) ==
  /\ t \in Verzoek
  /\ t.op \in {"api", "beheer", "invoer", "formulier"} => \E a \in Apps : t.apps = {a}
  /\ t.op = "type_weg" =>
       /\ t.type \in Typen /\ typen[t.type] = "er"
       /\ \A a \in t.apps : \E r \in apps[a].rijen : r.type = t.type
       /\ \A v \in Anderen(w) : tx[v].op = "type_weg" => tx[v].type # t.type

\* A request that starts, goes on or ends without writing applicaties or types
LEMMA GaatOK ==
  ASSUME TInv, NEW w \in Werkers, NEW t, Met(w, t), t = Geen \/ Begint(w, t),
         UNCHANGED <<apps, typen, secrets, beheerd, gelijktijdig, dubbel>>,
         bekend' \in [Apps -> Tellingen], stil' \subseteq Apps
  PROVE  TInv'
<1>1. tx' = [tx EXCEPT ![w] = t] /\ DOMAIN tx = Werkers
  BY DEF Met, TInv, TypeOK
<1>2. tx'[w] = t /\ \A v \in Werkers \ {w} : tx'[v] = tx[v]
  BY <1>1
<1>4. Vast'
  <2>1. \A v \in Werkers : tx'[v] # Geen /\ tx'[v].op \in {"api", "beheer", "invoer", "formulier"} =>
          \E a \in Apps : tx'[v].apps = {a}
    BY <1>2 DEF TInv, Vast, Begint
  <2>2. \A v \in Werkers : tx'[v] # Geen /\ tx'[v].op = "type_weg" => tx'[v].type \in Typen
    BY <1>2 DEF TInv, Vast, Begint
  <2>3. \A v, u \in Werkers :
          v # u /\ tx'[v] # Geen /\ tx'[v].op = "type_weg" /\ tx'[u] # Geen /\ tx'[u].op = "type_weg"
          => tx'[v].type # tx'[u].type
    BY <1>2 DEF TInv, Vast, Begint, Anderen
  <2> QED BY <2>1, <2>2, <2>3 DEF Vast
<1>5. DOMAIN tx' = Werkers /\ \A v \in Werkers : tx'[v] = Geen \/ tx'[v] \in Verzoek
  BY <1>1, <1>2 DEF TInv, TypeOK, Begint
<1>6. \A v \in Werkers : tx'[v] # Geen /\ tx'[v].op = "type_weg" =>
        /\ typen[tx'[v].type] = "er"
        /\ \A a \in tx'[v].apps : \E r \in apps[a].rijen : r.type = tx'[v].type
  BY <1>2 DEF TInv, TypeOK, Begint
<1>7. TypeOK'
  BY <1>5, <1>6 DEF TInv, TypeOK, Er, Nieuw, Weg
<1> QED BY <1>4, <1>7 DEF TInv

LEMMA LeesOK ==
  ASSUME TInv, NEW w \in Werkers, NEW t, Lees(w, t), Begint(w, t)
  PROVE  TInv'
BY GaatOK DEF Lees, TInv, TypeOK

\* A request that ends leaves what the others hold.
LEMMA Klaar ==
  ASSUME TInv, NEW w \in Werkers, Met(w, Geen)
  PROVE  /\ Vast'
         /\ DOMAIN tx' = Werkers /\ \A v \in Werkers : tx'[v] = Geen \/ tx'[v] \in Verzoek
         /\ tx'[w] = Geen /\ \A v \in Werkers \ {w} : tx'[v] = tx[v]
<1>1. tx' = [tx EXCEPT ![w] = Geen] /\ DOMAIN tx = Werkers
  BY DEF Met, TInv, TypeOK
<1>2. tx'[w] = Geen /\ \A v \in Werkers \ {w} : tx'[v] = tx[v]
  BY <1>1
<1>3. Vast'
  BY <1>2 DEF TInv, Vast
<1> QED BY <1>1, <1>2, <1>3 DEF TInv, TypeOK

LEMMA LeegVerzoek ==
  ASSUME NEW op \in {"api", "beheer", "invoer", "formulier", "sync", "meldt", "type_weg"}, NEW S \in SUBSET Apps
  PROVE  Leeg(op, S) \in Verzoek
BY DEF Leeg, Verzoek, Tellingen

-----------------------------------------------------------------------------
(* Requests that read *)

LEMMA PostOK ==
  ASSUME TInv, NEW w \in Werkers, NEW a \in Apps, NEW alle \in BOOLEAN,
         NEW ids \in SUBSET Clients, NEW lijst \in Lijsten, Post(w, a, alle, ids, lijst)
  PROVE  TInv'
<1> DEFINE t == [Leeg("api", {a}) EXCEPT !.alle = alle, !.ids = ids, !.geeft = TRUE, !.lijst = lijst]
<1>1. lijst \subseteq Rij
  BY AutorisatiesAssumption
<1>2. t \in Verzoek /\ t.op = "api" /\ t.apps = {a}
  <2>1. Leeg("api", {a}) \in Verzoek /\ Leeg("api", {a}).op = "api" /\ Leeg("api", {a}).apps = {a}
    BY LeegVerzoek DEF Leeg
  <2> QED BY <1>1, <2>1 DEF Verzoek
<1>3. Begint(w, t)
  BY <1>2 DEF Begint
<1> QED BY <1>3, LeesOK DEF Post

LEMMA PatchOK ==
  ASSUME TInv, NEW w \in Werkers, NEW a \in Apps, NEW alle \in BOOLEAN,
         NEW ids \in SUBSET Clients, NEW geeft \in BOOLEAN, NEW lijst \in Lijsten,
         Patch(w, a, alle, ids, geeft, lijst)
  PROVE  TInv'
<1> DEFINE t == [Leeg("api", {a}) EXCEPT !.alle = alle, !.ids = ids, !.geeft = geeft, !.lijst = lijst]
<1>1. lijst \subseteq Rij
  BY AutorisatiesAssumption
<1>2. t \in Verzoek /\ t.op = "api" /\ t.apps = {a}
  BY <1>1, LeegVerzoek, ZenonT(60) DEF Leeg, Verzoek
<1>3. Begint(w, t)
  BY <1>2 DEF Begint
<1> QED BY <1>3, LeesOK DEF Patch

LEMMA BeheerLeestOK ==
  ASSUME TInv, NEW w \in Werkers, NEW a \in Apps, BeheerLeest(w, a)
  PROVE  TInv'
<1> DEFINE t == [Leeg("beheer", {a}) EXCEPT !.ids = apps[a].ids]
<1>1. apps[a].ids \subseteq Clients
  BY DEF TInv, TypeOK, Applicatie
<1>2. t \in Verzoek /\ t.op = "beheer" /\ t.apps = {a}
  BY <1>1, LeegVerzoek DEF Leeg, Verzoek
<1>3. Begint(w, t)
  BY <1>2 DEF Begint
<1> QED BY <1>3, LeesOK DEF BeheerLeest

LEMMA FormulierGaatInOK ==
  ASSUME TInv, NEW w \in Werkers, NEW a \in Apps, NEW lijst \in Lijsten,
         NEW cats \in CatKeuzes, FormulierGaatIn(w, a, lijst, cats)
  PROVE  TInv'
<1> DEFINE t == [Leeg("invoer", {a}) EXCEPT !.lijst = lijst, !.cats = cats]
<1>1. lijst \subseteq Rij /\ cats \subseteq CatRij
  BY AutorisatiesAssumption DEF CatKeuzes
<1>2. t \in Verzoek /\ t.op = "invoer" /\ t.apps = {a}
  BY <1>1, LeegVerzoek DEF Leeg, Verzoek
<1>3. Begint(w, t)
  BY <1>2 DEF Begint
<1> QED BY <1>3, LeesOK DEF FormulierGaatIn

LEMMA TypeWistOK ==
  ASSUME TInv, NEW w \in Werkers, NEW type \in Typen, TypeWist(w, type)
  PROVE  TInv'
<1> DEFINE S == {a \in Apps : Er(a) /\ \E r \in apps[a].rijen : r.type = type}
           t == [Leeg("type_weg", S) EXCEPT !.type = type]
<1>1. t \in Verzoek /\ t.op = "type_weg" /\ t.apps = S /\ t.type = type
  BY LeegVerzoek DEF Leeg, Verzoek
<1>2. Begint(w, t)
  BY <1>1 DEF Begint, TypeWist
<1> QED BY <1>2, LeesOK DEF TypeWist

-----------------------------------------------------------------------------
(* Requests that write *)

\* The request of a worker is done, or was done in one step.
Gedaan(w) == Met(w, Geen) \/ (tx[w] = Geen /\ UNCHANGED tx)

\* What a write must be for the invariant to hold: the rows that others are deleting stay.
LEMMA NaWijziging ==
  ASSUME TInv, NEW w \in Werkers, Gedaan(w),
         apps' \in [Apps -> Applicatie], \A a \in Apps : ~Er(a)' => apps'[a] \in {Nieuw, Weg},
         typen' \in [Typen -> {"nieuw", "er", "weg"}],
         secrets' \subseteq Clients, bekend' \in [Apps -> Tellingen],
         beheerd' \subseteq Apps, gelijktijdig' \subseteq Apps, stil' \subseteq Apps,
         dubbel' \subseteq Clients,
         \A v \in Anderen(w) : tx[v].op = "type_weg" =>
           /\ typen'[tx[v].type] = "er"
           /\ \A a \in tx[v].apps : \A r \in apps[a].rijen :
                r.type = tx[v].type => r \in apps'[a].rijen
  PROVE  TInv'
<1>1. /\ Vast'
      /\ DOMAIN tx' = Werkers /\ \A v \in Werkers : tx'[v] = Geen \/ tx'[v] \in Verzoek
      /\ tx'[w] = Geen /\ \A v \in Werkers \ {w} : tx'[v] = tx[v]
  <2>1. CASE Met(w, Geen)
    BY <2>1, Klaar
  <2>2. CASE tx[w] = Geen /\ UNCHANGED tx
    BY <2>2 DEF TInv, TypeOK, Vast
  <2> QED BY <2>1, <2>2 DEF Gedaan
<1>2. \A v \in Werkers : tx'[v] # Geen /\ tx'[v].op = "type_weg" =>
        /\ typen'[tx'[v].type] = "er"
        /\ \A a \in tx'[v].apps : \E r \in apps'[a].rijen : r.type = tx'[v].type
  <2> SUFFICES ASSUME NEW v \in Werkers, tx'[v] # Geen, tx'[v].op = "type_weg"
               PROVE  /\ typen'[tx'[v].type] = "er"
                      /\ \A a \in tx'[v].apps : \E r \in apps'[a].rijen : r.type = tx'[v].type
    OBVIOUS
  <2>1. v \in Anderen(w) /\ tx'[v] = tx[v]
    BY <1>1 DEF Anderen
  <2>2. \A a \in tx[v].apps : \E r \in apps[a].rijen : r.type = tx[v].type
    BY <2>1 DEF Anderen, TInv, TypeOK
  <2> QED BY <2>1, <2>2
<1> QED BY <1>1, <1>2 DEF TInv, TypeOK

LEMMA HaaltOK ==
  ASSUME TInv, NEW w, NEW S \in SUBSET Apps, Haalt(w, S)
  PROVE  gelijktijdig' \subseteq Apps
BY DEF Haalt, TInv, TypeOK

LEMMA DubbeltOK ==
  ASSUME TInv, NEW w, NEW ids \in SUBSET Clients, Dubbelt(w, ids)
  PROVE  dubbel' \subseteq Clients
BY DEF Dubbelt, TInv, TypeOK

\* The types that others are deleting are there.
LEMMA TypenBlijven ==
  ASSUME TInv, NEW w, NEW v \in Anderen(w), tx[v].op = "type_weg"
  PROVE  typen[tx[v].type] = "er" /\ tx[v].apps \subseteq Apps
<1>1. v \in Werkers /\ tx[v] \in Verzoek
  BY DEF Anderen, TInv, TypeOK
<1> QED BY <1>1 DEF Anderen, TInv, TypeOK, Verzoek

LEMMA AppVanOK ==
  ASSUME TInv, NEW w \in Werkers, tx[w] # Geen, tx[w].op \in {"api", "beheer", "invoer", "formulier"}
  PROVE  AppVan(w) \in Apps /\ tx[w].apps = {AppVan(w)} /\ tx[w] \in Verzoek
<1>1. PICK a \in Apps : tx[w].apps = {a}
  BY DEF TInv, Vast
<1>2. AppVan(w) = a
  BY <1>1 DEF AppVan
<1> QED BY <1>1, <1>2 DEF TInv, TypeOK

\* The form that goes on is the one that was validated.
LEMMA FormulierVerder ==
  ASSUME TInv, NEW w \in Werkers, FormulierLeest(w)
  PROVE  \E t \in Verzoek : /\ Met(w, t) /\ t.op = "formulier"
                            /\ t.apps = tx[w].apps /\ t.ids = tx[w].ids
<1> DEFINE t == [tx[w] EXCEPT !.op = "formulier", !.oud = Inhoud(apps[AppVan(w)], typen)]
<1>1. AppVan(w) \in Apps /\ tx[w] \in Verzoek
  BY AppVanOK DEF FormulierLeest
<1>2. Inhoud(apps[AppVan(w)], typen) \in Tellingen
  BY <1>1, InhoudTelt DEF TInv, TypeOK
<1>3. t \in Verzoek /\ t.op = "formulier" /\ t.apps = tx[w].apps /\ t.ids = tx[w].ids
  BY <1>1, <1>2 DEF Verzoek
<1>4. Met(w, t)
  BY DEF FormulierLeest
<1> QED BY <1>3, <1>4

LEMMA FormulierLeestOK ==
  ASSUME TInv, NEW w \in Werkers, FormulierLeest(w)
  PROVE  TInv'
<1>1. PICK t \in Verzoek : Met(w, t) /\ t.op = "formulier" /\ t.apps = tx[w].apps
  BY FormulierVerder
<1>2. \E a \in Apps : tx[w].apps = {a}
  BY AppVanOK DEF FormulierLeest
<1>3. Begint(w, t)
  BY <1>1, <1>2 DEF Begint
<1> QED BY <1>1, <1>3, GaatOK DEF FormulierLeest, TInv, TypeOK

LEMMA NieuwApplicatie == Nieuw \in Applicatie /\ Weg \in Applicatie
BY DEF Nieuw, Weg, Applicatie

\* Changing fields of an applicatie leaves an applicatie.
LEMMA AndereRijen ==
  ASSUME NEW app \in Applicatie, NEW rijen \in SUBSET Rij
  PROVE  LET n == [app EXCEPT !.rijen = rijen]
         IN /\ n \in Applicatie /\ n.stand = app.stand /\ n.alle = app.alle
            /\ n.rijen = rijen /\ n.cats = app.cats
BY DEF Applicatie

LEMMA AndereAutorisaties ==
  ASSUME NEW app \in Applicatie, NEW rijen \in SUBSET Rij, NEW cats \in SUBSET CatRij
  PROVE  /\ [app EXCEPT !.rijen = rijen, !.cats = cats] \in Applicatie
         /\ [app EXCEPT !.rijen = rijen, !.cats = cats].stand = app.stand
BY DEF Applicatie

LEMMA SchrijfOK ==
  ASSUME TInv, NEW w \in Werkers, Schrijf(w)
  PROVE  TInv'
<1> DEFINE t == tx[w]
           a == AppVan(w)
           rij == [stand |-> "er", alle |-> t.alle, ids |-> t.ids,
                   rijen |-> IF t.geeft THEN t.lijst ELSE apps[a].rijen,
                   cats |-> IF t.geeft THEN {} ELSE apps[a].cats]
<1>1. a \in Apps /\ t.apps = {a} /\ t \in Verzoek
  BY AppVanOK DEF Schrijf
<1>2. apps' = [apps EXCEPT ![a] = rij] /\ (t.geeft => Slot(w, {a})) /\ t # Geen
  BY DEF Schrijf
<1>3. apps \in [Apps -> Applicatie] /\ rij \in Applicatie
  BY <1>1 DEF TInv, TypeOK, Verzoek, Applicatie
<1>4. apps' \in [Apps -> Applicatie] /\ apps'[a] = rij /\ \A b \in Apps \ {a} : apps'[b] = apps[b]
  BY <1>1, <1>2, <1>3
<1>5. \A b \in Apps : ~Er(b)' => apps'[b] \in {Nieuw, Weg}
  BY <1>4 DEF Er, TInv, TypeOK, Nieuw, Weg
<1>6. secrets' \subseteq Clients /\ dubbel' \subseteq Clients
  <2>1. t.ids \subseteq Clients
    BY <1>1 DEF Verzoek
  <2> QED BY <2>1, DubbeltOK DEF Schrijf, TInv, TypeOK
<1>7. bekend' \in [Apps -> Tellingen]
  BY <1>4, MeldTelt DEF Schrijf, TInv, TypeOK
<1>8. gelijktijdig' \subseteq Apps
  BY <1>1, HaaltOK DEF Schrijf
<1>9. \A v \in Anderen(w) : tx[v].op = "type_weg" =>
        /\ typen'[tx[v].type] = "er"
        /\ \A b \in tx[v].apps : \A r \in apps[b].rijen :
             r.type = tx[v].type => r \in apps'[b].rijen
  <2> SUFFICES ASSUME NEW v \in Anderen(w), tx[v].op = "type_weg"
               PROVE  \A b \in tx[v].apps : apps[b].rijen \subseteq apps'[b].rijen
    BY TypenBlijven DEF Schrijf
  <2>1. t.geeft => a \notin tx[v].apps
    BY <1>2 DEF Slot
  <2>2. ~t.geeft => apps'[a].rijen = apps[a].rijen
    BY <1>4
  <2> QED BY <1>4, <2>1, <2>2, TypenBlijven
<1>10. Gedaan(w) /\ typen' = typen /\ beheerd' = beheerd /\ stil' \subseteq stil
  BY DEF Schrijf, Gedaan
<1> QED BY <1>4, <1>5, <1>6, <1>7, <1>8, <1>9, <1>10, NaWijziging DEF TInv, TypeOK

\* A write of one applicatie that deletes it
LEMMA WegOK ==
  ASSUME TInv, NEW w \in Werkers, NEW a \in Apps, tx[w] = Geen, UNCHANGED tx, Slot(w, {a}),
         apps' = [apps EXCEPT ![a] = Weg], UNCHANGED <<typen, bekend, beheerd, stil>>,
         secrets' \subseteq Clients, gelijktijdig' \subseteq Apps, dubbel' \subseteq Clients
  PROVE  TInv'
<1>1. apps \in [Apps -> Applicatie]
  BY DEF TInv, TypeOK
<1>2. apps' \in [Apps -> Applicatie] /\ apps'[a] = Weg /\ \A b \in Apps \ {a} : apps'[b] = apps[b]
  BY <1>1, NieuwApplicatie
<1>3. \A b \in Apps : ~Er(b)' => apps'[b] \in {Nieuw, Weg}
  BY <1>2 DEF Er, TInv, TypeOK, Nieuw, Weg
<1>4. \A v \in Anderen(w) : tx[v].op = "type_weg" =>
        /\ typen'[tx[v].type] = "er"
        /\ \A b \in tx[v].apps : \A r \in apps[b].rijen :
             r.type = tx[v].type => r \in apps'[b].rijen
  BY <1>2, TypenBlijven DEF Slot
<1> QED BY <1>2, <1>3, <1>4, NaWijziging DEF TInv, TypeOK, Gedaan

LEMMA DeleteOK ==
  ASSUME TInv, NEW w \in Werkers, NEW a \in Apps, Delete(w, a)
  PROVE  TInv'
<1>1. gelijktijdig' \subseteq Apps
  BY HaaltOK DEF Delete
<1> QED BY <1>1, WegOK DEF Delete, TInv, TypeOK

LEMMA BeheerWistOK ==
  ASSUME TInv, NEW w \in Werkers, NEW a \in Apps, BeheerWist(w, a)
  PROVE  TInv'
<1>1. gelijktijdig' \subseteq Apps
  BY HaaltOK DEF BeheerWist
<1>2. apps[a].ids \subseteq Clients
  BY DEF TInv, TypeOK, Applicatie
<1>3. dubbel' \subseteq Clients
  BY <1>2, DubbeltOK DEF BeheerWist
<1> QED BY <1>1, <1>3, WegOK DEF BeheerWist, TInv, TypeOK

LEMMA BeheerMaaktOK ==
  ASSUME TInv, NEW w \in Werkers, NEW a \in Apps, NEW alle \in BOOLEAN,
         NEW ids \in SUBSET Clients, BeheerMaakt(w, a, alle, ids)
  PROVE  TInv'
<1> DEFINE rij == [Nieuw EXCEPT !.stand = "er", !.alle = alle, !.ids = ids]
<1>1. apps \in [Apps -> Applicatie] /\ rij \in Applicatie /\ rij.stand = "er"
  BY DEF TInv, TypeOK, Nieuw, Applicatie
<1>2. apps' = [apps EXCEPT ![a] = rij]
  BY DEF BeheerMaakt
<1>3. apps' \in [Apps -> Applicatie] /\ apps'[a] = rij /\ \A b \in Apps \ {a} : apps'[b] = apps[b]
  BY <1>1, <1>2
<1>4. \A b \in Apps : ~Er(b)' => apps'[b] \in {Nieuw, Weg}
  BY <1>1, <1>3 DEF Er, TInv, TypeOK, Nieuw, Weg
<1>5. \A v \in Anderen(w) : tx[v].op = "type_weg" =>
        /\ typen'[tx[v].type] = "er"
        /\ \A b \in tx[v].apps : \A r \in apps[b].rijen :
             r.type = tx[v].type => r \in apps'[b].rijen
  BY <1>3, TypenBlijven DEF BeheerMaakt
<1>6. dubbel' \subseteq Clients /\ secrets' \subseteq Clients
  BY DubbeltOK DEF BeheerMaakt, TInv, TypeOK
<1> QED BY <1>3, <1>4, <1>5, <1>6, NaWijziging DEF BeheerMaakt, TInv, TypeOK, Gedaan

LEMMA BeheerBewaartOK ==
  ASSUME TInv, NEW w \in Werkers, NEW alle \in BOOLEAN, NEW eraf \in SUBSET Clients,
         NEW erbij \in SUBSET Clients, BeheerBewaart(w, alle, eraf, erbij)
  PROVE  TInv'
<1> DEFINE a == AppVan(w)
           ids == (tx[w].ids \ eraf) \cup erbij
           rij == [apps[a] EXCEPT !.stand = "er", !.alle = alle, !.ids = ids]
<1>1. a \in Apps /\ tx[w] \in Verzoek
  BY AppVanOK DEF BeheerBewaart
<1>2. ids \in SUBSET Clients
  BY <1>1 DEF Verzoek
<1>3. /\ apps \in [Apps -> Applicatie] /\ rij \in Applicatie
      /\ rij.stand = "er" /\ rij.rijen = apps[a].rijen
  <2> HIDE DEF a, ids
  <2>1. apps \in [Apps -> Applicatie] /\ apps[a] \in Applicatie
    BY <1>1 DEF TInv, TypeOK
  <2>2. ids \in SUBSET Clients
    BY <1>2
  <2>3. rij \in Applicatie /\ rij.stand = "er" /\ rij.rijen = apps[a].rijen
    BY <2>1, <2>2 DEF Applicatie
  <2> QED BY <2>1, <2>3
<1>4. apps' = [apps EXCEPT ![a] = rij]
  BY DEF BeheerBewaart
<1>5. apps' \in [Apps -> Applicatie] /\ apps'[a] = rij /\ \A b \in Apps \ {a} : apps'[b] = apps[b]
  BY <1>1, <1>3, <1>4
<1>6. \A b \in Apps : ~Er(b)' => apps'[b] \in {Nieuw, Weg}
  BY <1>3, <1>5 DEF Er, TInv, TypeOK, Nieuw, Weg
<1>7. \A v \in Anderen(w) : tx[v].op = "type_weg" =>
        /\ typen'[tx[v].type] = "er"
        /\ \A b \in tx[v].apps : \A r \in apps[b].rijen :
             r.type = tx[v].type => r \in apps'[b].rijen
  BY <1>3, <1>5, TypenBlijven DEF BeheerBewaart
<1>8. gelijktijdig' \subseteq Apps
  BY <1>1, HaaltOK DEF BeheerBewaart
<1>9. dubbel' \subseteq Clients /\ secrets' \subseteq Clients
  BY <1>2, DubbeltOK DEF BeheerBewaart, TInv, TypeOK
<1>10. stil' \subseteq Apps
  BY <1>1 DEF BeheerBewaart, TInv, TypeOK
<1> QED BY <1>1, <1>5, <1>6, <1>7, <1>8, <1>9, <1>10, NaWijziging DEF BeheerBewaart, TInv, TypeOK, Gedaan

LEMMA FormulierBewaartOK ==
  ASSUME TInv, NEW w \in Werkers, FormulierBewaart(w)
  PROVE  TInv'
<1> DEFINE a == AppVan(w)
           nieuw == [apps[a] EXCEPT !.rijen = tx[w].lijst, !.cats = tx[w].cats]
<1>1. a \in Apps /\ tx[w] \in Verzoek
  BY AppVanOK DEF FormulierBewaart
<1>2. /\ apps \in [Apps -> Applicatie] /\ nieuw \in Applicatie /\ nieuw.stand = "er"
  <2>1. apps[a].stand = "er"
    BY DEF FormulierBewaart, Er
  <2>2. tx[w].lijst \in SUBSET Rij /\ tx[w].cats \in SUBSET CatRij
    BY <1>1 DEF Verzoek
  <2> HIDE DEF a
  <2>3. apps \in [Apps -> Applicatie] /\ apps[a] \in Applicatie
    BY <1>1 DEF TInv, TypeOK
  <2> QED BY <2>1, <2>2, <2>3, AndereAutorisaties
<1>3. apps' = [apps EXCEPT ![a] = nieuw] /\ Slot(w, {a})
  BY DEF FormulierBewaart
<1>4. apps' \in [Apps -> Applicatie] /\ apps'[a] = nieuw /\ \A b \in Apps \ {a} : apps'[b] = apps[b]
  BY <1>1, <1>2, <1>3
<1>5. \A b \in Apps : ~Er(b)' => apps'[b] \in {Nieuw, Weg}
  BY <1>2, <1>4 DEF Er, TInv, TypeOK, Nieuw, Weg
<1>6. \A v \in Anderen(w) : tx[v].op = "type_weg" =>
        /\ typen'[tx[v].type] = "er"
        /\ \A b \in tx[v].apps : \A r \in apps[b].rijen :
             r.type = tx[v].type => r \in apps'[b].rijen
  BY <1>3, <1>4, TypenBlijven DEF FormulierBewaart, Slot
<1>7. gelijktijdig' \subseteq Apps
  BY <1>1, HaaltOK DEF FormulierBewaart
<1>8. bekend' \in [Apps -> Tellingen] /\ stil' \subseteq Apps
  <2>1. CASE Gelijk(tx[w].oud, Inhoud(nieuw, typen))
    <3>1. bekend' = bekend /\ stil' \subseteq stil \cup {a}
      BY <2>1 DEF FormulierBewaart
    <3> QED BY <1>1, <3>1 DEF TInv, TypeOK
  <2>2. CASE ~Gelijk(tx[w].oud, Inhoud(nieuw, typen))
    <3>1. Meld({a}, apps', typen) /\ stil' = stil \ {a}
      BY <2>2 DEF FormulierBewaart
    <3> QED BY <1>4, <3>1, MeldTelt DEF TInv, TypeOK
  <2> QED BY <2>1, <2>2
<1>9. Gedaan(w) /\ typen' = typen /\ secrets' = secrets /\ dubbel' = dubbel /\ beheerd' = beheerd \cup {a}
  BY DEF FormulierBewaart, Gedaan
<1> QED BY <1>1, <1>4, <1>5, <1>6, <1>7, <1>8, <1>9, NaWijziging DEF TInv, TypeOK

LEMMA TypeMaaktOK ==
  ASSUME TInv, NEW w \in Werkers, NEW t \in Typen, TypeMaakt(w, t)
  PROVE  TInv'
<1> DEFINE v == [Leeg("sync", {}) EXCEPT !.type = t]
<1>1. tx' = [tx EXCEPT ![w] = v] /\ DOMAIN tx = Werkers
  BY DEF TypeMaakt, Met, TInv, TypeOK
<1>2. tx'[w] = v /\ \A u \in Werkers \ {w} : tx'[u] = tx[u]
  BY <1>1
<1>3. v \in Verzoek /\ v.op = "sync"
  BY LeegVerzoek DEF Leeg, Verzoek
<1>4. /\ UNCHANGED <<apps, secrets, bekend, beheerd, gelijktijdig, dubbel, stil>>
      /\ typen' = [typen EXCEPT ![t] = "er"]
  BY DEF TypeMaakt
<1> HIDE DEF v
<1>5. Vast'
  BY <1>2, <1>3 DEF TInv, Vast
<1>6. DOMAIN tx' = Werkers /\ \A u \in Werkers : tx'[u] = Geen \/ tx'[u] \in Verzoek
  BY <1>1, <1>2, <1>3 DEF TInv, TypeOK
<1>7. \A u \in Werkers : tx'[u] # Geen /\ tx'[u].op = "type_weg" =>
        /\ typen'[tx'[u].type] = "er"
        /\ \A a \in tx'[u].apps : \E r \in apps[a].rijen : r.type = tx'[u].type
  BY <1>2, <1>3, <1>4 DEF TInv, TypeOK, Vast
<1>8. TypeOK'
  BY <1>4, <1>6, <1>7 DEF TInv, TypeOK, Er, Nieuw, Weg
<1> QED BY <1>5, <1>8 DEF TInv

\* A request that has notifications to send goes on until there are none.
LEMMA ResteertOK ==
  ASSUME TInv, NEW w \in Werkers, tx[w] # Geen, NEW S \in SUBSET Apps, Resteert(w, S)
  PROVE  \E t : /\ Met(w, t)
                /\ \/ t = Geen /\ S = {}
                   \/ /\ t \in Verzoek /\ t.op = "meldt" /\ t.meldt = S
                      /\ t.apps = tx[w].apps /\ t.ids = tx[w].ids
<1> DEFINE t == [tx[w] EXCEPT !.op = "meldt", !.meldt = S]
<1>1. tx[w] \in Verzoek
  BY DEF TInv, TypeOK
<1>2. t \in Verzoek /\ t.op = "meldt" /\ t.meldt = S /\ t.apps = tx[w].apps /\ t.ids = tx[w].ids
  BY <1>1 DEF Verzoek
<1>3. CASE S = {}
  BY <1>3 DEF Resteert
<1>4. CASE S # {}
  <2>1. Met(w, t)
    BY <1>4 DEF Resteert
  <2> HIDE DEF t
  <2> QED BY <1>2, <2>1
<1> QED BY <1>3, <1>4

LEMMA ResteertGaat ==
  ASSUME TInv, NEW w \in Werkers, tx[w] # Geen, NEW S \in SUBSET Apps, Resteert(w, S),
         UNCHANGED <<apps, typen, secrets, beheerd, gelijktijdig, dubbel>>,
         bekend' \in [Apps -> Tellingen], stil' \subseteq Apps
  PROVE  TInv'
<1>1. PICK t : Met(w, t) /\ (t = Geen \/ (t \in Verzoek /\ t.op = "meldt"))
  BY ResteertOK
<1>2. t = Geen \/ Begint(w, t)
  BY <1>1 DEF Begint
<1> QED BY <1>1, <1>2, GaatOK

LEMMA SyncOK ==
  ASSUME TInv, NEW w \in Werkers, Sync(w)
  PROVE  TInv'
<1>1. MetCatalogus(tx[w].type) \in SUBSET Apps
  BY DEF MetCatalogus
<1> QED BY <1>1, ResteertGaat DEF Sync, TInv, TypeOK

LEMMA SyncMeldtOK ==
  ASSUME TInv, NEW w \in Werkers, NEW a \in Apps, SyncMeldt(w, a)
  PROVE  TInv'
<1>1. bekend' \in [Apps -> Tellingen] /\ stil' \subseteq Apps
  BY MeldTelt DEF SyncMeldt, TInv, TypeOK
<1>2. tx[w] # Geen /\ tx[w] \in Verzoek
  BY DEF SyncMeldt, TInv, TypeOK
<1>3. tx[w].meldt \ {a} \in SUBSET Apps
  BY <1>2 DEF Verzoek
<1> QED BY <1>1, <1>2, <1>3, ResteertGaat DEF SyncMeldt

LEMMA AfgebrokenOK ==
  ASSUME TInv, NEW w \in Werkers, Afgebroken(w)
  PROVE  TInv'
<1>1. stil' \subseteq Apps
  BY DEF Afgebroken, TInv, TypeOK
<1>2. \A v \in Anderen(w) : tx[v].op = "type_weg" => typen'[tx[v].type] = "er"
  BY TypenBlijven DEF Afgebroken
<1>3. \A a \in Apps : ~Er(a)' => apps'[a] \in {Nieuw, Weg}
  BY DEF Afgebroken, Er, TInv, TypeOK
<1> QED BY <1>1, <1>2, <1>3, NaWijziging DEF Afgebroken, Gedaan, TInv, TypeOK

\* Requests that delete types delete different ones, so that the rows of the others stay, and
\* the applicaties with these rows.
LEMMA TypeGewistOK ==
  ASSUME TInv, NEW w \in Werkers, TypeGewist(w)
  PROVE  TInv'
<1> DEFINE t == tx[w].type
           S == tx[w].apps
           rij(a) == [apps[a] EXCEPT !.rijen = {r \in @ : r.type # t}]
           rest == [a \in Apps |-> IF a \notin S THEN apps[a] ELSE rij(a)]
           wezen == Wezen(S, rest)
<1>1. tx[w] # Geen /\ tx[w].op = "type_weg" /\ tx[w] \in Verzoek /\ t \in Typen /\ S \subseteq Apps
  <2>1. tx[w] # Geen /\ tx[w].op = "type_weg"
    BY DEF TypeGewist
  <2>2. tx[w] \in Verzoek /\ tx[w].type \in Typen
    BY <2>1 DEF TInv, TypeOK, Vast
  <2> QED BY <2>1, <2>2 DEF Verzoek
<1>2. \A a \in S : apps[a].stand = "er"
  <2> SUFFICES ASSUME NEW a \in S, apps[a].stand # "er" PROVE FALSE
    OBVIOUS
  <2>1. PICK r \in apps[a].rijen : r.type = t
    BY <1>1 DEF TInv, TypeOK
  <2>2. apps[a] \in {Nieuw, Weg}
    BY <1>1 DEF TInv, TypeOK, Er
  <2> QED BY <2>1, <2>2 DEF Nieuw, Weg
<1>3. \A a \in Apps : /\ rij(a) \in Applicatie /\ rij(a).stand = apps[a].stand
                      /\ rij(a).rijen = {r \in apps[a].rijen : r.type # t}
  <2> SUFFICES ASSUME NEW a \in Apps
               PROVE  /\ rij(a) \in Applicatie /\ rij(a).stand = apps[a].stand
                      /\ rij(a).rijen = {r \in apps[a].rijen : r.type # t}
    OBVIOUS
  <2>1. apps[a] \in Applicatie
    BY DEF TInv, TypeOK
  <2>2. {r \in apps[a].rijen : r.type # t} \in SUBSET Rij
    BY <2>1 DEF Applicatie
  <2> QED BY <2>1, <2>2, AndereRijen
<1> HIDE DEF rij
<1>4. /\ apps' = [a \in Apps |-> IF a \in wezen THEN Weg ELSE rest[a]]
      /\ typen' = [typen EXCEPT ![t] = "weg"]
      /\ stil' = stil \cup S \cup MetCatalogus(t)
      /\ Haalt(w, S) /\ UNCHANGED <<secrets, bekend, beheerd, dubbel>> /\ Met(w, Geen)
  BY DEF TypeGewist, rij
<1>5. rest \in [Apps -> Applicatie]
  BY <1>3 DEF TInv, TypeOK
<1>6. \A a \in Apps : a \notin S => rest[a] = apps[a]
  OBVIOUS
<1>7. \A a \in S : rest[a].stand = "er" /\ rest[a].rijen = {r \in apps[a].rijen : r.type # t}
  BY <1>1, <1>2, <1>3
<1>8. \A a \in wezen : a \in S /\ rest[a].rijen = {}
  BY DEF Wezen
<1> HIDE DEF rest, wezen, t, S
<1>9. apps' \in [Apps -> Applicatie]
  BY <1>4, <1>5, NieuwApplicatie
<1>10. \A a \in Apps : ~Er(a)' => apps'[a] \in {Nieuw, Weg}
  <2> SUFFICES ASSUME NEW a \in Apps, apps'[a].stand # "er", apps'[a] # Weg
               PROVE  apps'[a] = Nieuw
    BY DEF Er
  <2>1. apps'[a] = rest[a]
    BY <1>4
  <2>2. a \notin S
    BY <1>7, <2>1
  <2>3. apps'[a] = apps[a]
    BY <1>6, <2>1, <2>2
  <2> QED BY <2>3 DEF TInv, TypeOK, Er
<1>11. \A v \in Anderen(w) : tx[v].op = "type_weg" =>
         /\ typen'[tx[v].type] = "er"
         /\ \A b \in tx[v].apps : \A r \in apps[b].rijen :
              r.type = tx[v].type => r \in apps'[b].rijen
  <2> SUFFICES ASSUME NEW v \in Anderen(w), tx[v].op = "type_weg"
               PROVE  /\ typen'[tx[v].type] = "er"
                      /\ \A b \in tx[v].apps : \A r \in apps[b].rijen :
                           r.type = tx[v].type => r \in apps'[b].rijen
    OBVIOUS
  <2>1. tx[v].type \in Typen /\ tx[v].type # t
    BY <1>1 DEF TInv, Vast, Anderen, t
  <2>2. typen'[tx[v].type] = "er"
    BY <1>4, <2>1, TypenBlijven DEF TInv, TypeOK
  <2>3. ASSUME NEW b \in tx[v].apps, NEW r \in apps[b].rijen, r.type = tx[v].type
        PROVE  r \in apps'[b].rijen
    <3>1. b \in Apps
      BY TypenBlijven
    <3>2. r \in rest[b].rijen
      BY <1>6, <1>7, <2>1, <2>3, <3>1
    <3>3. b \notin wezen
      BY <1>8, <3>2
    <3> QED BY <1>4, <3>1, <3>2, <3>3
  <2> QED BY <2>2, <2>3
<1>12. gelijktijdig' \subseteq Apps /\ stil' \subseteq Apps
  BY <1>1, <1>4, HaaltOK DEF TInv, TypeOK, MetCatalogus, S
<1>13. Gedaan(w) /\ typen' \in [Typen -> {"nieuw", "er", "weg"}]
  BY <1>1, <1>4 DEF TInv, TypeOK, Gedaan
<1> QED BY <1>4, <1>9, <1>10, <1>11, <1>12, <1>13, NaWijziging DEF TInv, TypeOK

LEMMA OpdrachtOK ==
  ASSUME TInv, NEW w \in Werkers, Opdracht(w)
  PROVE  TInv'
<1> DEFINE wees(r) == Lokaal(r) /\ ~Bestaat(r.type)
           S == {a \in Apps : Er(a) /\ \E r \in apps[a].rijen : wees(r)}
           rij(a) == [apps[a] EXCEPT !.rijen = {r \in @ : ~wees(r)}]
<1>1. \A a \in Apps : rij(a) \in Applicatie /\ rij(a).stand = apps[a].stand
  <2> SUFFICES ASSUME NEW a \in Apps
               PROVE  rij(a) \in Applicatie /\ rij(a).stand = apps[a].stand
    OBVIOUS
  <2>1. apps[a] \in Applicatie
    BY DEF TInv, TypeOK
  <2>2. {r \in apps[a].rijen : ~wees(r)} \in SUBSET Rij
    BY <2>1 DEF Applicatie
  <2> QED BY <2>1, <2>2, AndereRijen
<1> HIDE DEF rij
<1>2. /\ apps' = [a \in Apps |-> IF a \in S THEN rij(a) ELSE apps[a]]
      /\ tx[w] = Geen /\ Slot(w, S) /\ Haalt(w, S)
      /\ beheerd' = beheerd \cup S /\ stil' = stil \cup S
      /\ UNCHANGED <<typen, secrets, bekend, tx, dubbel>>
  BY DEF Opdracht, rij
<1>3. S \subseteq Apps /\ \A a \in S : apps[a].stand = "er"
  BY DEF Er
<1> HIDE DEF wees, S
<1>4. apps' \in [Apps -> Applicatie]
  BY <1>1, <1>2 DEF TInv, TypeOK
<1>5. \A a \in Apps : ~Er(a)' => apps'[a] \in {Nieuw, Weg}
  BY <1>1, <1>2, <1>3 DEF TInv, TypeOK, Er
<1>6. \A v \in Anderen(w) : tx[v].op = "type_weg" =>
        /\ typen'[tx[v].type] = "er"
        /\ \A b \in tx[v].apps : \A r \in apps[b].rijen :
             r.type = tx[v].type => r \in apps'[b].rijen
  BY <1>2, TypenBlijven DEF Slot
<1>7. gelijktijdig' \subseteq Apps
  BY <1>2, <1>3, HaaltOK
<1> QED BY <1>2, <1>3, <1>4, <1>5, <1>6, <1>7, NaWijziging DEF TInv, TypeOK, Gedaan

LEMMA StapOK ==
  ASSUME TInv, Next
  PROVE  TInv'
<1> SUFFICES ASSUME NEW w \in Werkers,
                    \/ ApiNext(w) \/ Schrijf(w)
                    \/ BeheerNext(w) \/ FormulierLeest(w) \/ FormulierBewaart(w)
                    \/ \E alle \in BOOLEAN, eraf, erbij \in SUBSET Clients :
                         BeheerBewaart(w, alle, eraf, erbij)
                    \/ \E t \in Typen : TypeMaakt(w, t) \/ TypeWist(w, t)
                    \/ Sync(w) \/ \E a \in Apps : SyncMeldt(w, a)
                    \/ TypeGewist(w) \/ Opdracht(w) \/ Afgebroken(w)
             PROVE  TInv'
  BY DEF Next
<1>1. CASE ApiNext(w)
  BY <1>1, PostOK, PatchOK, DeleteOK DEF ApiNext
<1>2. CASE BeheerNext(w)
  BY <1>2, BeheerMaaktOK, BeheerLeestOK, BeheerWistOK, FormulierGaatInOK DEF BeheerNext
<1>3. CASE \E alle \in BOOLEAN, eraf, erbij \in SUBSET Clients : BeheerBewaart(w, alle, eraf, erbij)
  BY <1>3, BeheerBewaartOK
<1>4. CASE \E t \in Typen : TypeMaakt(w, t) \/ TypeWist(w, t)
  BY <1>4, TypeMaaktOK, TypeWistOK
<1> QED BY <1>1, <1>2, <1>3, <1>4, SchrijfOK, FormulierLeestOK, FormulierBewaartOK, SyncOK,
           SyncMeldtOK, TypeGewistOK, OpdrachtOK, AfgebrokenOK

LEMMA TInvKlopt == Spec => []TInv
<1>1. Init => TInv
  <2> SUFFICES ASSUME Init PROVE TInv
    OBVIOUS
  <2>1. {} \in Tellingen
    BY DEF Tellingen
  <2>2. TypeOK
    BY <2>1, NieuwApplicatie DEF Init, TypeOK
  <2>3. Vast
    BY DEF Init, Vast
  <2> QED BY <2>2, <2>3 DEF TInv
<1>2. TInv /\ [Next]_vars => TInv'
  <2> SUFFICES ASSUME TInv, [Next]_vars PROVE TInv'
    OBVIOUS
  <2>1. CASE Next
    BY <2>1, StapOK
  <2>2. CASE UNCHANGED vars
    BY <2>2 DEF vars, TInv, TypeOK, Vast, Er, Nieuw, Weg
  <2> QED BY <2>1, <2>2
<1> QED BY <1>1, <1>2, PTL DEF Spec

\* The types of all tables, for any number of workers.  No applicatie that is not there has
\* autorisaties, and while a type is being deleted the rows that go with it stay.
THEOREM TypeCorrect == Spec => []TypeOK
<1>1. TInv => TypeOK
  BY DEF TInv
<1> QED BY <1>1, TInvKlopt, PTL

-----------------------------------------------------------------------------
(* Applicaties stay in the API. *)

Gemarkeerd == beheerd \cup gelijktijdig

\* Only the admin gives an applicatie autorisaties for a catalogus.
AppGoed(a) == Er(a) => Geldig(apps[a]) /\ apps[a].cats = {}

\* What a request has validated is what it will write: the rows that it does not give are
\* those it has seen, or someone has marked the applicatie.
VerzoekGoed(t) ==
  t # Geen /\ t.op = "api" =>
    \A a \in t.apps \ Gemarkeerd :
      EenVanBeide(t.alle, IF t.geeft THEN t.lijst ELSE apps[a].rijen)

BInv ==
  /\ \A a \in Apps \ Gemarkeerd : AppGoed(a)
  /\ \A v \in Werkers : VerzoekGoed(tx[v])

LEMMA LeesGoed ==
  ASSUME TInv, BInv, NEW w \in Werkers, NEW t, Lees(w, t), VerzoekGoed(t)
  PROVE  BInv'
<1>1. tx' = [tx EXCEPT ![w] = t] /\ DOMAIN tx = Werkers
  BY DEF Lees, Met, TInv, TypeOK
<1>2. tx'[w] = t /\ \A v \in Werkers \ {w} : tx'[v] = tx[v]
  BY <1>1
<1>3. Gemarkeerd' = Gemarkeerd /\ apps' = apps
  BY DEF Lees, Gemarkeerd
<1>4. \A v \in Werkers : VerzoekGoed(tx'[v])
  BY <1>2 DEF BInv
<1>5. \A v \in Werkers : VerzoekGoed(tx[v])'
  BY <1>3, <1>4 DEF VerzoekGoed
<1>6. \A a \in Apps \ Gemarkeerd' : AppGoed(a)'
  BY <1>3 DEF BInv, AppGoed, Er
<1> QED BY <1>5, <1>6 DEF BInv

\* A write of the applicaties S: those that other requests hold get a mark.
LEMMA SchrijftGoed ==
  ASSUME TInv, BInv, NEW w \in Werkers, Gedaan(w), NEW S \in SUBSET Apps,
         Gemarkeerd \subseteq Gemarkeerd',
         \A v \in Anderen(w) : tx[v].apps \cap S \subseteq Gemarkeerd',
         \A b \in Apps \ S : apps'[b] = apps[b],
         \A a \in S \ Gemarkeerd' : AppGoed(a)'
  PROVE  BInv'
<1>1. tx'[w] = Geen /\ \A v \in Werkers \ {w} : tx'[v] = tx[v]
  BY DEF Gedaan, Met, TInv, TypeOK
<1>2. \A a \in Apps \ Gemarkeerd' : AppGoed(a)'
  BY DEF BInv, AppGoed, Er
<1>3. ASSUME NEW v \in Werkers
      PROVE  VerzoekGoed(tx[v])'
  <2> SUFFICES ASSUME tx'[v] # Geen, tx'[v].op = "api", NEW a \in tx'[v].apps \ Gemarkeerd'
               PROVE  EenVanBeide(tx'[v].alle, IF tx'[v].geeft THEN tx'[v].lijst ELSE apps'[a].rijen)
    BY DEF VerzoekGoed
  <2>1. v \in Anderen(w) /\ tx'[v] = tx[v]
    BY <1>1 DEF Anderen
  <2>2. tx[v].apps \subseteq Apps
    BY <2>1 DEF Anderen, TInv, TypeOK, Verzoek
  <2>3. a \in Apps \ S
    BY <2>1, <2>2
  <2>4. VerzoekGoed(tx[v])
    BY DEF BInv
  <2> QED BY <2>1, <2>3, <2>4 DEF VerzoekGoed
<1> QED BY <1>2, <1>3 DEF BInv

\* What is held by others is marked.
LEMMA HaaltGoed ==
  ASSUME TInv, NEW w, NEW S \in SUBSET Apps, Haalt(w, S), beheerd \subseteq beheerd'
  PROVE  /\ Gemarkeerd \subseteq Gemarkeerd'
         /\ \A v \in Anderen(w) : tx[v].apps \cap S \subseteq Gemarkeerd'
BY DEF Haalt, Gemarkeerd

\* A request that is not to the API, and does not write an applicatie
LEMMA BuitenApiGoed ==
  ASSUME TInv, BInv, NEW w \in Werkers, NEW t,
         tx' = [tx EXCEPT ![w] = t], t = Geen \/ t.op # "api",
         UNCHANGED <<apps, beheerd, gelijktijdig>>
  PROVE  BInv'
<1>1. tx'[w] = t /\ \A v \in Werkers \ {w} : tx'[v] = tx[v]
  BY DEF TInv, TypeOK
<1>2. Gemarkeerd' = Gemarkeerd
  BY DEF Gemarkeerd
<1>3. \A v \in Werkers : VerzoekGoed(tx[v])'
  BY <1>1, <1>2 DEF BInv, VerzoekGoed
<1>4. \A a \in Apps \ Gemarkeerd' : AppGoed(a)'
  BY <1>2 DEF BInv, AppGoed, Er
<1> QED BY <1>3, <1>4 DEF BInv

LEMMA PostGoed ==
  ASSUME TInv, BInv, NEW w \in Werkers, NEW a \in Apps, NEW alle \in BOOLEAN,
         NEW ids \in SUBSET Clients, NEW lijst \in Lijsten, Post(w, a, alle, ids, lijst)
  PROVE  BInv'
<1> DEFINE t == [Leeg("api", {a}) EXCEPT !.alle = alle, !.ids = ids, !.geeft = TRUE, !.lijst = lijst]
<1>1. t.alle = alle /\ t.geeft = TRUE /\ t.lijst = lijst
  BY DEF Leeg
<1>2. Lees(w, t) /\ EenVanBeide(alle, lijst)
  BY DEF Post
<1> HIDE DEF t
<1>3. VerzoekGoed(t)
  BY <1>1, <1>2 DEF VerzoekGoed
<1> QED BY <1>2, <1>3, LeesGoed

LEMMA PatchGoed ==
  ASSUME TInv, BInv, NEW w \in Werkers, NEW a \in Apps, NEW alle \in BOOLEAN,
         NEW ids \in SUBSET Clients, NEW geeft \in BOOLEAN, NEW lijst \in Lijsten,
         Patch(w, a, alle, ids, geeft, lijst)
  PROVE  BInv'
<1> DEFINE t == [Leeg("api", {a}) EXCEPT !.alle = alle, !.ids = ids, !.geeft = geeft, !.lijst = lijst]
<1>1. t.apps = {a} /\ t.alle = alle /\ t.geeft = geeft /\ t.lijst = lijst
  BY DEF Leeg
<1>2. Lees(w, t) /\ EenVanBeide(alle, IF geeft THEN lijst ELSE apps[a].rijen)
  BY DEF Patch
<1> HIDE DEF t
<1>3. VerzoekGoed(t)
  BY <1>1, <1>2 DEF VerzoekGoed
<1> QED BY <1>2, <1>3, LeesGoed

LEMMA SchrijfGoed ==
  ASSUME TInv, BInv, NEW w \in Werkers, Schrijf(w)
  PROVE  BInv'
<1>1. PICK a \in Apps : tx[w].apps = {a} /\ AppVan(w) = a /\ tx[w] # Geen /\ tx[w].op = "api"
  BY AppVanOK DEF Schrijf
<1> DEFINE t == tx[w]
           rij == [stand |-> "er", alle |-> t.alle, ids |-> t.ids,
                   rijen |-> IF t.geeft THEN t.lijst ELSE apps[a].rijen,
                   cats |-> IF t.geeft THEN {} ELSE apps[a].cats]
<1>2. apps' = [apps EXCEPT ![a] = rij] /\ Haalt(w, {a}) /\ beheerd' = beheerd
  BY <1>1 DEF Schrijf
<1>3. apps'[a] = rij /\ \A b \in Apps \ {a} : apps'[b] = apps[b]
  BY <1>1, <1>2 DEF TInv, TypeOK
<1>4. Gemarkeerd \subseteq Gemarkeerd' /\ \A v \in Anderen(w) : tx[v].apps \cap {a} \subseteq Gemarkeerd'
  BY <1>1, <1>2, HaaltGoed
<1>5. ASSUME a \notin Gemarkeerd PROVE Geldig(rij) /\ rij.cats = {}
  <2>1. EenVanBeide(t.alle, rij.rijen)
    BY <1>1, <1>5 DEF BInv, VerzoekGoed
  <2>2. apps[a].cats = {}
    BY <1>1, <1>5 DEF BInv, AppGoed, TInv, TypeOK, Nieuw, Weg
  <2>3. rij.cats = {} /\ rij.alle = t.alle
    BY <2>2
  <2> QED BY <2>1, <2>3 DEF Geldig, EenVanBeide
<1> HIDE DEF rij
<1>6. a \notin Gemarkeerd' => AppGoed(a)'
  BY <1>3, <1>4, <1>5 DEF AppGoed, Geldig
<1>7. Gedaan(w)
  BY DEF Schrijf, Gedaan
<1> QED BY <1>1, <1>3, <1>4, <1>6, <1>7, SchrijftGoed

\* A write of an applicatie in the admin, or one that deletes it
LEMMA EnkelGoed ==
  ASSUME TInv, BInv, NEW w \in Werkers, Gedaan(w), NEW a \in Apps, NEW rij,
         apps' = [apps EXCEPT ![a] = rij], Haalt(w, {a}), beheerd \subseteq beheerd',
         a \in beheerd' \/ rij = Weg
  PROVE  BInv'
<1>1. apps'[a] = rij /\ \A b \in Apps \ {a} : apps'[b] = apps[b]
  BY DEF TInv, TypeOK
<1>2. Gemarkeerd \subseteq Gemarkeerd' /\ \A v \in Anderen(w) : tx[v].apps \cap {a} \subseteq Gemarkeerd'
  BY HaaltGoed
<1>3. a \notin Gemarkeerd' => AppGoed(a)'
  BY <1>1 DEF Gemarkeerd, AppGoed, Er, Weg, Nieuw
<1> QED BY <1>1, <1>2, <1>3, SchrijftGoed

LEMMA BeheerGoed ==
  ASSUME TInv, BInv, NEW w \in Werkers,
         \/ \E a \in Apps : Delete(w, a) \/ BeheerWist(w, a)
         \/ \E alle \in BOOLEAN, eraf, erbij \in SUBSET Clients : BeheerBewaart(w, alle, eraf, erbij)
         \/ FormulierBewaart(w)
  PROVE  BInv'
<1>1. ASSUME NEW a \in Apps, Delete(w, a) PROVE BInv'
  BY <1>1, EnkelGoed DEF Delete, Gedaan
<1>2. ASSUME NEW a \in Apps, BeheerWist(w, a) PROVE BInv'
  BY <1>2, EnkelGoed DEF BeheerWist, Gedaan
<1>3. ASSUME NEW alle \in BOOLEAN, NEW eraf \in SUBSET Clients, NEW erbij \in SUBSET Clients,
             BeheerBewaart(w, alle, eraf, erbij)
      PROVE  BInv'
  <2> DEFINE a == AppVan(w)
             rij == [apps[a] EXCEPT !.stand = "er", !.alle = alle, !.ids = (tx[w].ids \ eraf) \cup erbij]
  <2>1. a \in Apps
    BY <1>3, AppVanOK DEF BeheerBewaart
  <2>2. /\ apps' = [apps EXCEPT ![a] = rij] /\ Haalt(w, {a}) /\ beheerd' = beheerd \cup {a}
        /\ Gedaan(w)
    BY <1>3 DEF BeheerBewaart, Gedaan
  <2> HIDE DEF a, rij
  <2> QED BY <2>1, <2>2, EnkelGoed
<1>4. CASE FormulierBewaart(w)
  <2> DEFINE a == AppVan(w)
             rij == [apps[a] EXCEPT !.rijen = tx[w].lijst, !.cats = tx[w].cats]
  <2>1. a \in Apps
    BY <1>4, AppVanOK DEF FormulierBewaart
  <2>2. /\ apps' = [apps EXCEPT ![a] = rij] /\ Haalt(w, {a}) /\ beheerd' = beheerd \cup {a}
        /\ Gedaan(w)
    BY <1>4 DEF FormulierBewaart, Gedaan
  <2> HIDE DEF a, rij
  <2> QED BY <2>1, <2>2, EnkelGoed
<1> QED BY <1>1, <1>2, <1>3, <1>4

LEMMA BeheerMaaktGoed ==
  ASSUME TInv, BInv, NEW w \in Werkers, NEW a \in Apps, NEW alle \in BOOLEAN,
         NEW ids \in SUBSET Clients, BeheerMaakt(w, a, alle, ids)
  PROVE  BInv'
<1>1. /\ Gedaan(w) /\ \A b \in Apps \ {a} : apps'[b] = apps[b]
      /\ Gemarkeerd' = Gemarkeerd \cup {a}
  BY DEF BeheerMaakt, Gedaan, Gemarkeerd, TInv, TypeOK
<1> QED BY <1>1, SchrijftGoed DEF BeheerMaakt

LEMMA LeestGoed ==
  ASSUME TInv, BInv, NEW w \in Werkers, NEW a \in Apps,
         \/ BeheerLeest(w, a)
         \/ \E lijst \in Lijsten, cats \in CatKeuzes : FormulierGaatIn(w, a, lijst, cats)
  PROVE  BInv'
<1>1. ASSUME NEW t, Lees(w, t), t.op # "api" PROVE BInv'
  BY <1>1, BuitenApiGoed DEF Lees, Met
<1>2. CASE BeheerLeest(w, a)
  <2> DEFINE t == [Leeg("beheer", {a}) EXCEPT !.ids = apps[a].ids]
  <2>1. t.op = "beheer" /\ Lees(w, t)
    BY <1>2 DEF BeheerLeest, Leeg
  <2> HIDE DEF t
  <2> QED BY <1>1, <2>1
<1>3. ASSUME NEW lijst \in Lijsten, NEW cats \in CatKeuzes, FormulierGaatIn(w, a, lijst, cats)
      PROVE  BInv'
  <2> DEFINE t == [Leeg("invoer", {a}) EXCEPT !.lijst = lijst, !.cats = cats]
  <2>1. t.op = "invoer"
    BY DEF Leeg
  <2>2. Lees(w, t)
    BY <1>3 DEF FormulierGaatIn
  <2> HIDE DEF t
  <2> QED BY <1>1, <2>1, <2>2
<1> QED BY <1>2, <1>3

LEMMA TypeGoed ==
  ASSUME TInv, BInv, NEW w \in Werkers,
         (\E t \in Typen : TypeMaakt(w, t) \/ TypeWist(w, t)) \/ Sync(w)
         \/ (\E a \in Apps : SyncMeldt(w, a)) \/ FormulierLeest(w) \/ Afgebroken(w)
  PROVE  BInv'
<1>1. ASSUME NEW v, Met(w, v), v = Geen \/ v.op # "api", UNCHANGED <<apps, beheerd, gelijktijdig>>
      PROVE  BInv'
  BY <1>1, BuitenApiGoed DEF Met
<1>2. ASSUME NEW t \in Typen, TypeMaakt(w, t) PROVE BInv'
  <2> DEFINE v == [Leeg("sync", {}) EXCEPT !.type = t]
  <2>1. v.op = "sync"
    BY DEF Leeg
  <2>2. Met(w, v) /\ UNCHANGED <<apps, beheerd, gelijktijdig>>
    BY <1>2 DEF TypeMaakt
  <2> HIDE DEF v
  <2> QED BY <1>1, <2>1, <2>2
<1>3. ASSUME NEW t \in Typen, TypeWist(w, t) PROVE BInv'
  <2> DEFINE v == [Leeg("type_weg", {a \in Apps : Er(a) /\ \E r \in apps[a].rijen : r.type = t})
                     EXCEPT !.type = t]
  <2>1. v.op = "type_weg"
    BY DEF Leeg
  <2>2. Met(w, v) /\ UNCHANGED <<apps, beheerd, gelijktijdig>>
    BY <1>3 DEF TypeWist, Lees
  <2> HIDE DEF v
  <2> QED BY <1>1, <2>1, <2>2
<1>4. ASSUME NEW S \in SUBSET Apps, Resteert(w, S), tx[w] # Geen,
             UNCHANGED <<apps, beheerd, gelijktijdig>>
      PROVE  BInv'
  <2>1. PICK t : Met(w, t) /\ (t = Geen \/ (t \in Verzoek /\ t.op = "meldt"))
    BY <1>4, ResteertOK
  <2> QED BY <1>1, <1>4, <2>1
<1>5. CASE Sync(w)
  <2>1. MetCatalogus(tx[w].type) \in SUBSET Apps
    BY DEF MetCatalogus
  <2> QED BY <1>4, <1>5, <2>1 DEF Sync
<1>6. ASSUME NEW a \in Apps, SyncMeldt(w, a) PROVE BInv'
  <2>1. tx[w].meldt \ {a} \in SUBSET Apps
    BY <1>6 DEF SyncMeldt, TInv, TypeOK, Verzoek
  <2> QED BY <1>4, <1>6, <2>1 DEF SyncMeldt
<1>7. CASE FormulierLeest(w)
  <2>1. PICK t \in Verzoek : Met(w, t) /\ t.op = "formulier"
    BY <1>7, FormulierVerder
  <2> QED BY <1>1, <1>7, <2>1 DEF FormulierLeest
<1>8. CASE Afgebroken(w)
  BY <1>1, <1>8 DEF Afgebroken
<1> QED BY <1>2, <1>3, <1>5, <1>6, <1>7, <1>8

\* An applicatie that loses its last autorisatie goes.
LEMMA TypeGewistGoed ==
  ASSUME TInv, BInv, NEW w \in Werkers, TypeGewist(w)
  PROVE  BInv'
<1> DEFINE t == tx[w].type
           S == tx[w].apps
           rij(a) == [apps[a] EXCEPT !.rijen = {r \in @ : r.type # t}]
           rest == [a \in Apps |-> IF a \notin S THEN apps[a] ELSE rij(a)]
           wezen == Wezen(S, rest)
<1>1. tx[w] # Geen /\ tx[w].op = "type_weg" /\ S \in SUBSET Apps
  BY DEF TypeGewist, TInv, TypeOK, Verzoek
<1>2. /\ apps' = [a \in Apps |-> IF a \in wezen THEN Weg ELSE rest[a]]
      /\ Haalt(w, S) /\ beheerd' = beheerd /\ Gedaan(w)
  BY DEF TypeGewist, Gedaan
<1>3. \A b \in Apps \ S : apps'[b] = apps[b]
  BY <1>2 DEF Wezen
<1>4. Gemarkeerd \subseteq Gemarkeerd' /\ \A v \in Anderen(w) : tx[v].apps \cap S \subseteq Gemarkeerd'
  BY <1>1, <1>2, HaaltGoed
<1>5. ASSUME NEW a \in S \ Gemarkeerd', Er(a)'
      PROVE  Geldig(apps[a])' /\ apps'[a].cats = {}
  <2>1. a \in Apps \ Gemarkeerd /\ AppGoed(a)
    BY <1>1, <1>4, <1>5 DEF BInv
  <2>2. PICK r \in apps[a].rijen : r.type = t
    BY <1>1 DEF TInv, TypeOK
  <2>3. Er(a)
    BY <2>1, <2>2 DEF TInv, TypeOK, Nieuw, Weg
  <2>4. ~apps[a].alle /\ apps[a].cats = {}
    BY <2>1, <2>2, <2>3 DEF AppGoed, Geldig
  <2>5. apps'[a] # Weg
    BY <1>5 DEF Er, Weg, Nieuw
  <2>6. a \notin wezen /\ apps'[a] = rij(a)
    BY <1>2, <1>5, <2>1, <2>5
  <2>7. rij(a).alle = apps[a].alle /\ rij(a).cats = apps[a].cats
    <3>1. apps[a] \in Applicatie
      BY <2>1 DEF TInv, TypeOK
    <3>2. {x \in apps[a].rijen : x.type # t} \in SUBSET Rij
      BY <3>1 DEF Applicatie
    <3> QED BY <3>1, <3>2, AndereRijen
  <2>8. rest[a] = rij(a)
    BY <1>5, <2>1
  <2>9. rij(a).rijen # {}
    BY <1>5, <2>4, <2>6, <2>7, <2>8 DEF Wezen
  <2> QED BY <2>4, <2>6, <2>7, <2>9 DEF Geldig
<1>6. \A a \in S \ Gemarkeerd' : AppGoed(a)'
  BY <1>5 DEF AppGoed
<1> QED BY <1>1, <1>2, <1>3, <1>4, <1>6, SchrijftGoed

LEMMA OpdrachtGoed ==
  ASSUME TInv, BInv, NEW w \in Werkers, Opdracht(w)
  PROVE  BInv'
<1> DEFINE S == {a \in Apps : Er(a) /\ \E r \in apps[a].rijen : Lokaal(r) /\ ~Bestaat(r.type)}
<1>1. Haalt(w, S) /\ beheerd' = beheerd \cup S /\ Gedaan(w) /\ S \in SUBSET Apps
  BY DEF Opdracht, Gedaan
<1>2. \A b \in Apps \ S : apps'[b] = apps[b]
  BY DEF Opdracht
<1> HIDE DEF S
<1>3. Gemarkeerd \subseteq Gemarkeerd' /\ \A v \in Anderen(w) : tx[v].apps \cap S \subseteq Gemarkeerd'
  BY <1>1, HaaltGoed
<1>4. S \subseteq Gemarkeerd'
  BY <1>1 DEF Gemarkeerd
<1> QED BY <1>1, <1>2, <1>3, <1>4, SchrijftGoed

LEMMA StapGoed ==
  ASSUME TInv, BInv, Next
  PROVE  BInv'
<1> SUFFICES ASSUME NEW w \in Werkers,
                    \/ ApiNext(w) \/ Schrijf(w)
                    \/ BeheerNext(w) \/ FormulierLeest(w) \/ FormulierBewaart(w)
                    \/ \E alle \in BOOLEAN, eraf, erbij \in SUBSET Clients :
                         BeheerBewaart(w, alle, eraf, erbij)
                    \/ \E t \in Typen : TypeMaakt(w, t) \/ TypeWist(w, t)
                    \/ Sync(w) \/ \E a \in Apps : SyncMeldt(w, a)
                    \/ TypeGewist(w) \/ Opdracht(w) \/ Afgebroken(w)
             PROVE  BInv'
  BY DEF Next
<1>1. CASE ApiNext(w)
  BY <1>1, PostGoed, PatchGoed, BeheerGoed DEF ApiNext
<1>2. CASE BeheerNext(w)
  BY <1>2, BeheerMaaktGoed, LeestGoed, BeheerGoed DEF BeheerNext
<1> QED BY <1>1, <1>2, SchrijfGoed, BeheerGoed, TypeGoed, TypeGewistGoed, OpdrachtGoed

\* ambiguous-authorizations-specified and missing-authorizations are validated when a request
\* reads, and rows are deleted by a signal handler on another table; still an applicatie that
\* the API made keeps to them, so that it stays in the API, unless an administrator or the
\* command wrote it or another request was under way.
THEOREM ApplicatiesBlijven == Spec => []BlijftInApi
<1>1. Init => BInv
  BY DEF Init, BInv, AppGoed, VerzoekGoed, Er, Nieuw
<1>2. TInv /\ BInv /\ [Next]_vars => BInv'
  <2> SUFFICES ASSUME TInv, BInv, [Next]_vars PROVE BInv'
    OBVIOUS
  <2>1. CASE Next
    BY <2>1, StapGoed
  <2>2. CASE UNCHANGED vars
    BY <2>2 DEF vars, BInv, AppGoed, VerzoekGoed, Er, Gemarkeerd
  <2> QED BY <2>1, <2>2
<1>3. BInv => BlijftInApi
  BY DEF BInv, BlijftInApi, AppGoed, Gemarkeerd
<1> QED BY <1>1, <1>2, <1>3, TInvKlopt, PTL DEF Spec

-----------------------------------------------------------------------------
(* A client id belongs to one applicatie. *)

\* What a request is going to write no other applicatie has; what the admin read has a
\* credential.
IdsGoed(t) ==
  t # Geen => \A c \in t.ids \ dubbel :
    /\ \A b \in Apps \ t.apps : c \notin apps[b].ids
    /\ t.op = "beheer" => c \in secrets

CInv ==
  /\ \A a \in Apps : \A c \in apps[a].ids \ dubbel :
       c \in secrets /\ \A b \in Apps \ {a} : c \notin apps[b].ids
  /\ \A v \in Werkers : IdsGoed(tx[v])

LEMMA IdsLezen ==
  ASSUME TInv, CInv, NEW w \in Werkers, NEW t, Met(w, t), IdsGoed(t),
         UNCHANGED <<apps, secrets, dubbel>>
  PROVE  CInv'
<1>1. tx'[w] = t /\ \A v \in Werkers \ {w} : tx'[v] = tx[v]
  BY DEF Met, TInv, TypeOK
<1>2. \A v \in Werkers : IdsGoed(tx'[v])
  BY <1>1 DEF CInv
<1>3. \A v \in Werkers : IdsGoed(tx[v])'
  BY <1>2 DEF IdsGoed
<1> QED BY <1>3 DEF CInv

\* Requests that do not write client ids
LEMMA IdsBlijven ==
  ASSUME TInv, CInv, NEW w \in Werkers, Gedaan(w), UNCHANGED <<secrets, dubbel>>,
         \A b \in Apps : apps'[b].ids \subseteq apps[b].ids
  PROVE  CInv'
<1>1. tx'[w] = Geen /\ \A v \in Werkers \ {w} : tx'[v] = tx[v]
  BY DEF Gedaan, Met, TInv, TypeOK
<1>2. ASSUME NEW v \in Werkers PROVE IdsGoed(tx[v])'
  <2>1. CASE v = w
    BY <1>1, <2>1 DEF IdsGoed
  <2>2. CASE v # w
    <3>1. IdsGoed(tx[v]) /\ tx'[v] = tx[v]
      BY <1>1, <2>2 DEF CInv
    <3> QED BY <3>1 DEF IdsGoed
  <2> QED BY <2>1, <2>2
<1>3. \A a \in Apps : \A c \in apps'[a].ids \ dubbel' :
        c \in secrets' /\ \A b \in Apps \ {a} : c \notin apps'[b].ids
  BY DEF CInv
<1> QED BY <1>2, <1>3 DEF CInv

\* A write of the client ids of one applicatie, with credentials added and removed
LEMMA IdsSchrijven ==
  ASSUME TInv, CInv, NEW w \in Werkers, Gedaan(w), NEW a \in Apps,
         \A b \in Apps \ {a} : apps'[b] = apps[b],
         dubbel \subseteq dubbel',
         \A c \in apps'[a].ids \ dubbel' :
           c \in secrets' /\ \A b \in Apps \ {a} : c \notin apps[b].ids,
         \A c \in (secrets \ secrets') \ dubbel' :
           /\ \A b \in Apps \ {a} : c \notin apps[b].ids
           /\ \A v \in Anderen(w) : c \notin tx[v].ids,
         \A v \in Anderen(w) : apps'[a].ids \cap tx[v].ids \subseteq dubbel'
  PROVE  CInv'
<1>1. tx'[w] = Geen /\ \A v \in Werkers \ {w} : tx'[v] = tx[v]
  BY DEF Gedaan, Met, TInv, TypeOK
<1>2. ASSUME NEW v \in Werkers PROVE IdsGoed(tx[v])'
  <2>1. CASE tx'[v] = Geen
    BY <2>1 DEF IdsGoed
  <2>2. CASE tx'[v] # Geen
    <3>1. v \in Anderen(w) /\ tx'[v] = tx[v] /\ IdsGoed(tx[v])
      BY <1>1, <2>2 DEF CInv, Anderen
    <3>2. ASSUME NEW c \in tx[v].ids \ dubbel'
          PROVE  /\ \A b \in Apps \ tx[v].apps : c \notin apps'[b].ids
                 /\ tx[v].op = "beheer" => c \in secrets'
      <4>1. /\ \A b \in Apps \ tx[v].apps : c \notin apps[b].ids
            /\ tx[v].op = "beheer" => c \in secrets
        BY <3>1, <2>2 DEF IdsGoed
      <4>2. c \notin apps'[a].ids
        BY <3>1
      <4>3. \A b \in Apps \ tx[v].apps : c \notin apps'[b].ids
        BY <4>1, <4>2
      <4>4. tx[v].op = "beheer" => c \in secrets'
        BY <3>1, <4>1
      <4> QED BY <4>3, <4>4
    <3> QED BY <3>1, <3>2 DEF IdsGoed
  <2> QED BY <2>1, <2>2
<1>3. ASSUME NEW b \in Apps, NEW c \in apps'[b].ids \ dubbel'
      PROVE  c \in secrets' /\ \A d \in Apps \ {b} : c \notin apps'[d].ids
  <2>1. CASE b = a
    BY <2>1, <1>3
  <2>2. CASE b # a
    <3>1. c \in apps[b].ids \ dubbel
      BY <1>3, <2>2
    <3>2. c \in secrets /\ \A d \in Apps \ {b} : c \notin apps[d].ids
      BY <3>1 DEF CInv
    <3>3. c \in secrets'
      BY <1>3, <2>2, <3>1, <3>2
    <3>4. c \notin apps'[a].ids
      BY <1>3, <2>2, <3>1
    <3> QED BY <3>2, <3>3, <3>4
  <2> QED BY <2>1, <2>2
<1> QED BY <1>2, <1>3 DEF CInv

LEMMA PostIds ==
  ASSUME TInv, CInv, NEW w \in Werkers, NEW a \in Apps, NEW alle \in BOOLEAN,
         NEW ids \in SUBSET Clients, NEW lijst \in Lijsten, Post(w, a, alle, ids, lijst)
  PROVE  CInv'
<1> DEFINE t == [Leeg("api", {a}) EXCEPT !.alle = alle, !.ids = ids, !.geeft = TRUE, !.lijst = lijst]
<1>1. t.ids = ids /\ t.apps = {a} /\ t.op = "api"
  BY DEF Leeg
<1>2. Lees(w, t) /\ UniekeIds(a, ids)
  BY DEF Post
<1> HIDE DEF t
<1>3. \A b \in Apps \ {a} : apps[b].ids \cap ids = {}
  BY <1>2 DEF UniekeIds, TInv, TypeOK, Nieuw, Weg
<1>4. IdsGoed(t)
  BY <1>1, <1>3 DEF IdsGoed
<1> QED BY <1>2, <1>4, IdsLezen DEF Lees

\* Client ids that do not change are not validated, nor need they be.
LEMMA PatchIds ==
  ASSUME TInv, CInv, NEW w \in Werkers, NEW a \in Apps, NEW alle \in BOOLEAN,
         NEW ids \in SUBSET Clients, NEW geeft \in BOOLEAN, NEW lijst \in Lijsten,
         Patch(w, a, alle, ids, geeft, lijst)
  PROVE  CInv'
<1> DEFINE t == [Leeg("api", {a}) EXCEPT !.alle = alle, !.ids = ids, !.geeft = geeft, !.lijst = lijst]
<1>1. t.ids = ids /\ t.apps = {a} /\ t.op = "api"
  BY DEF Leeg
<1>2. Lees(w, t) /\ (ids # apps[a].ids => UniekeIds(a, ids))
  BY DEF Patch
<1> HIDE DEF t
<1>3. \A b \in Apps \ {a} : \A c \in ids \ dubbel : c \notin apps[b].ids
  <2>1. CASE ids = apps[a].ids
    BY <2>1 DEF CInv
  <2>2. CASE UniekeIds(a, ids)
    BY <2>2 DEF UniekeIds, TInv, TypeOK, Nieuw, Weg
  <2> QED BY <1>2, <2>1, <2>2
<1>4. IdsGoed(t)
  BY <1>1, <1>3 DEF IdsGoed
<1> QED BY <1>2, <1>4, IdsLezen DEF Lees

LEMMA LeestIds ==
  ASSUME TInv, CInv, NEW w \in Werkers, NEW a \in Apps,
         \/ BeheerLeest(w, a)
         \/ \E lijst \in Lijsten, cats \in CatKeuzes : FormulierGaatIn(w, a, lijst, cats)
  PROVE  CInv'
<1>1. CASE BeheerLeest(w, a)
  <2> DEFINE t == [Leeg("beheer", {a}) EXCEPT !.ids = apps[a].ids]
  <2>1. t.ids = apps[a].ids /\ t.apps = {a}
    BY DEF Leeg
  <2>2. Lees(w, t)
    BY <1>1 DEF BeheerLeest
  <2> HIDE DEF t
  <2>3. IdsGoed(t)
    BY <2>1 DEF IdsGoed, CInv
  <2> QED BY <2>2, <2>3, IdsLezen DEF Lees
<1>2. ASSUME NEW lijst \in Lijsten, NEW cats \in CatKeuzes, FormulierGaatIn(w, a, lijst, cats)
      PROVE  CInv'
  <2> DEFINE t == [Leeg("invoer", {a}) EXCEPT !.lijst = lijst, !.cats = cats]
  <2>1. t.ids = {}
    BY DEF Leeg
  <2>2. Lees(w, t)
    BY <1>2 DEF FormulierGaatIn
  <2> HIDE DEF t
  <2>3. IdsGoed(t)
    BY <2>1 DEF IdsGoed
  <2> QED BY <2>2, <2>3, IdsLezen DEF Lees
<1> QED BY <1>1, <1>2

LEMMA TypeIds ==
  ASSUME TInv, CInv, NEW w \in Werkers,
         (\E t \in Typen : TypeMaakt(w, t) \/ TypeWist(w, t)) \/ Sync(w)
         \/ (\E a \in Apps : SyncMeldt(w, a)) \/ FormulierLeest(w) \/ Afgebroken(w)
  PROVE  CInv'
<1>1. ASSUME NEW t \in Typen, TypeMaakt(w, t) PROVE CInv'
  <2> DEFINE v == [Leeg("sync", {}) EXCEPT !.type = t]
  <2>1. v.ids = {}
    BY DEF Leeg
  <2>2. Met(w, v)
    BY <1>1 DEF TypeMaakt
  <2> HIDE DEF v
  <2>3. IdsGoed(v)
    BY <2>1 DEF IdsGoed
  <2> QED BY <1>1, <2>2, <2>3, IdsLezen DEF TypeMaakt
<1>2. ASSUME NEW t \in Typen, TypeWist(w, t) PROVE CInv'
  <2> DEFINE v == [Leeg("type_weg", {a \in Apps : Er(a) /\ \E r \in apps[a].rijen : r.type = t})
                     EXCEPT !.type = t]
  <2>1. v.ids = {}
    BY DEF Leeg
  <2>2. Lees(w, v)
    BY <1>2 DEF TypeWist
  <2> HIDE DEF v
  <2>3. IdsGoed(v)
    BY <2>1 DEF IdsGoed
  <2> QED BY <2>2, <2>3, IdsLezen DEF Lees
<1>3. ASSUME NEW t, Met(w, t),
             \/ t = Geen
             \/ tx[w] # Geen /\ t.op # "beheer" /\ t.apps = tx[w].apps /\ t.ids = tx[w].ids,
             UNCHANGED <<apps, secrets, dubbel>>
      PROVE  CInv'
  <2>1. IdsGoed(tx[w])
    BY DEF CInv
  <2>2. IdsGoed(t)
    BY <1>3, <2>1 DEF IdsGoed
  <2> QED BY <1>3, <2>2, IdsLezen
<1>4. ASSUME NEW S \in SUBSET Apps, Resteert(w, S), tx[w] # Geen, UNCHANGED <<apps, secrets, dubbel>>
      PROVE  CInv'
  <2>1. PICK t : /\ Met(w, t)
                 /\ \/ t = Geen
                    \/ t.op = "meldt" /\ t.apps = tx[w].apps /\ t.ids = tx[w].ids
    BY <1>4, ResteertOK
  <2> QED BY <1>3, <1>4, <2>1
<1>5. CASE Sync(w)
  <2>1. MetCatalogus(tx[w].type) \in SUBSET Apps
    BY DEF MetCatalogus
  <2> QED BY <1>4, <1>5, <2>1 DEF Sync
<1>6. ASSUME NEW a \in Apps, SyncMeldt(w, a) PROVE CInv'
  <2>1. tx[w].meldt \ {a} \in SUBSET Apps
    BY <1>6 DEF SyncMeldt, TInv, TypeOK, Verzoek
  <2> QED BY <1>4, <1>6, <2>1 DEF SyncMeldt
<1>7. CASE FormulierLeest(w)
  <2>1. PICK t \in Verzoek : /\ Met(w, t) /\ t.op = "formulier"
                             /\ t.apps = tx[w].apps /\ t.ids = tx[w].ids
    BY <1>7, FormulierVerder
  <2> QED BY <1>3, <1>7, <2>1 DEF FormulierLeest
<1>8. CASE Afgebroken(w)
  BY <1>3, <1>8 DEF Afgebroken
<1> QED BY <1>1, <1>2, <1>5, <1>6, <1>7, <1>8

LEMMA SchrijfIds ==
  ASSUME TInv, CInv, NEW w \in Werkers, Schrijf(w)
  PROVE  CInv'
<1>1. PICK a \in Apps : tx[w].apps = {a} /\ AppVan(w) = a /\ tx[w] # Geen
  BY AppVanOK DEF Schrijf
<1> DEFINE t == tx[w]
           rij == [stand |-> "er", alle |-> t.alle, ids |-> t.ids,
                   rijen |-> IF t.geeft THEN t.lijst ELSE apps[a].rijen,
                   cats |-> IF t.geeft THEN {} ELSE apps[a].cats]
<1>2. apps' = [apps EXCEPT ![a] = rij] /\ secrets' = secrets \cup t.ids /\ Dubbelt(w, t.ids)
  BY <1>1 DEF Schrijf
<1>3. apps'[a].ids = t.ids /\ \A b \in Apps \ {a} : apps'[b] = apps[b]
  BY <1>1, <1>2 DEF TInv, TypeOK
<1>4. \A c \in t.ids \ dubbel : \A b \in Apps \ {a} : c \notin apps[b].ids
  BY <1>1 DEF CInv, IdsGoed
<1>5. dubbel \subseteq dubbel' /\ \A v \in Anderen(w) : t.ids \cap tx[v].ids \subseteq dubbel'
  BY <1>2 DEF Dubbelt
<1>6. Gedaan(w) /\ secrets \subseteq secrets' /\ t.ids \subseteq secrets'
  BY <1>2 DEF Schrijf, Gedaan
<1> HIDE DEF t, rij
<1> QED BY <1>1, <1>3, <1>4, <1>5, <1>6, IdsSchrijven

\* A client id without a credential is nobody's.
LEMMA NieuweIds ==
  ASSUME CInv, NEW ids, ids \cap secrets = {}
  PROVE  \A c \in ids \ dubbel : \A b \in Apps : c \notin apps[b].ids
BY DEF CInv

LEMMA BeheerMaaktIds ==
  ASSUME TInv, CInv, NEW w \in Werkers, NEW a \in Apps, NEW alle \in BOOLEAN,
         NEW ids \in SUBSET Clients, BeheerMaakt(w, a, alle, ids)
  PROVE  CInv'
<1>1. apps' = [apps EXCEPT ![a] = [Nieuw EXCEPT !.stand = "er", !.alle = alle, !.ids = ids]]
  BY DEF BeheerMaakt
<1>2. apps'[a].ids = ids /\ \A b \in Apps \ {a} : apps'[b] = apps[b]
  BY <1>1 DEF TInv, TypeOK, Nieuw
<1>3. dubbel \subseteq dubbel' /\ \A v \in Anderen(w) : ids \cap tx[v].ids \subseteq dubbel'
  BY DEF BeheerMaakt, Dubbelt
<1>4. secrets \subseteq secrets' /\ ids \subseteq secrets' /\ ids \cap secrets = {} /\ Gedaan(w)
  BY DEF BeheerMaakt, Gedaan
<1>5. \A c \in ids \ dubbel : \A b \in Apps : c \notin apps[b].ids
  BY <1>4, NieuweIds
<1> QED BY <1>2, <1>3, <1>4, <1>5, IdsSchrijven

LEMMA BeheerBewaartIds ==
  ASSUME TInv, CInv, NEW w \in Werkers, NEW alle \in BOOLEAN, NEW eraf \in SUBSET Clients,
         NEW erbij \in SUBSET Clients, BeheerBewaart(w, alle, eraf, erbij)
  PROVE  CInv'
<1>1. PICK a \in Apps : tx[w].apps = {a} /\ AppVan(w) = a /\ tx[w] # Geen /\ tx[w].op = "beheer"
  BY AppVanOK DEF BeheerBewaart
<1> DEFINE ids == (tx[w].ids \ eraf) \cup erbij
           rij == [apps[a] EXCEPT !.stand = "er", !.alle = alle, !.ids = ids]
<1>2. /\ apps' = [apps EXCEPT ![a] = rij]
      /\ eraf \subseteq tx[w].ids \cap secrets /\ erbij \cap secrets = {}
      /\ secrets' = (secrets \ eraf) \cup erbij /\ Dubbelt(w, ids \cup eraf) /\ Gedaan(w)
  BY <1>1 DEF BeheerBewaart, Gedaan
<1>3. rij.ids = ids
  BY DEF TInv, TypeOK, Applicatie
<1> HIDE DEF rij
<1>4. apps'[a].ids = ids /\ \A b \in Apps \ {a} : apps'[b] = apps[b]
  BY <1>1, <1>2, <1>3 DEF TInv, TypeOK
<1>5. dubbel \subseteq dubbel' /\ \A v \in Anderen(w) : (ids \cup eraf) \cap tx[v].ids \subseteq dubbel'
  BY <1>2 DEF Dubbelt
<1>6. \A c \in tx[w].ids \ dubbel : c \in secrets /\ \A b \in Apps \ {a} : c \notin apps[b].ids
  BY <1>1 DEF CInv, IdsGoed
<1>7. \A c \in erbij \ dubbel : \A b \in Apps : c \notin apps[b].ids
  BY <1>2, NieuweIds
<1>8. \A c \in ids \ dubbel' : c \in secrets' /\ \A b \in Apps \ {a} : c \notin apps[b].ids
  BY <1>2, <1>5, <1>6, <1>7
<1>9. \A c \in (secrets \ secrets') \ dubbel' :
        /\ \A b \in Apps \ {a} : c \notin apps[b].ids
        /\ \A v \in Anderen(w) : c \notin tx[v].ids
  BY <1>2, <1>5, <1>6
<1>10. \A v \in Anderen(w) : apps'[a].ids \cap tx[v].ids \subseteq dubbel'
  BY <1>4, <1>5
<1> HIDE DEF ids
<1> QED BY <1>2, <1>4, <1>5, <1>8, <1>9, <1>10, IdsSchrijven

LEMMA BeheerWistIds ==
  ASSUME TInv, CInv, NEW w \in Werkers, NEW a \in Apps, BeheerWist(w, a)
  PROVE  CInv'
<1>1. apps' = [apps EXCEPT ![a] = Weg] /\ secrets' = secrets \ apps[a].ids /\ Gedaan(w)
  BY DEF BeheerWist, Gedaan
<1>2. apps'[a].ids = {} /\ \A b \in Apps \ {a} : apps'[b] = apps[b]
  BY <1>1 DEF TInv, TypeOK, Weg, Nieuw
<1>3. dubbel \subseteq dubbel' /\ \A v \in Anderen(w) : apps[a].ids \cap tx[v].ids \subseteq dubbel'
  BY DEF BeheerWist, Dubbelt
<1>4. \A c \in apps[a].ids \ dubbel : \A b \in Apps \ {a} : c \notin apps[b].ids
  BY DEF CInv
<1> QED BY <1>1, <1>2, <1>3, <1>4, IdsSchrijven

LEMMA AnderIds ==
  ASSUME TInv, CInv, NEW w \in Werkers,
         (\E a \in Apps : Delete(w, a)) \/ FormulierBewaart(w) \/ TypeGewist(w) \/ Opdracht(w)
  PROVE  CInv'
<1> SUFFICES /\ \A b \in Apps : apps'[b].ids \subseteq apps[b].ids
             /\ Gedaan(w) /\ UNCHANGED <<secrets, dubbel>>
  BY IdsBlijven
<1>1. \A b \in Apps : apps[b] \in Applicatie
  BY DEF TInv, TypeOK
<1>2. \A b \in Apps : \A R : [apps[b] EXCEPT !.rijen = R].ids = apps[b].ids
  BY <1>1 DEF Applicatie
<1>3. \A b \in Apps : \A R, C : [apps[b] EXCEPT !.rijen = R, !.cats = C].ids = apps[b].ids
  BY <1>1 DEF Applicatie
<1>4. Weg.ids = {}
  BY DEF Weg, Nieuw
<1>5. ASSUME NEW a \in Apps, Delete(w, a) PROVE \A b \in Apps : apps'[b].ids \subseteq apps[b].ids
  BY <1>4, <1>5 DEF Delete, TInv, TypeOK
<1>6. CASE FormulierBewaart(w)
  <2>1. PICK a \in Apps : AppVan(w) = a
    BY <1>6, AppVanOK DEF FormulierBewaart
  <2>2. apps' = [apps EXCEPT ![a] = [apps[a] EXCEPT !.rijen = tx[w].lijst, !.cats = tx[w].cats]]
    BY <1>6, <2>1 DEF FormulierBewaart
  <2>3. \A b \in Apps : apps'[b].ids = apps[b].ids
    BY <1>3, <2>1, <2>2 DEF TInv, TypeOK
  <2> QED BY <1>6, <2>3 DEF FormulierBewaart, Gedaan
<1>7. CASE TypeGewist(w)
  <2> DEFINE rest(a) == [apps[a] EXCEPT !.rijen = {r \in @ : r.type # tx[w].type}]
  <2>1. \A b \in Apps : apps'[b] \in {Weg, apps[b], rest(b)}
    BY <1>7 DEF TypeGewist
  <2>2. \A b \in Apps : rest(b).ids = apps[b].ids
    BY <1>2
  <2> HIDE DEF rest
  <2>3. \A b \in Apps : apps'[b].ids \subseteq apps[b].ids
    BY <1>4, <2>1, <2>2
  <2> QED BY <1>7, <2>3 DEF TypeGewist, Gedaan
<1>8. CASE Opdracht(w)
  <2> DEFINE wees(r) == Lokaal(r) /\ ~Bestaat(r.type)
             rest(a) == [apps[a] EXCEPT !.rijen = {r \in @ : ~wees(r)}]
  <2>1. \A b \in Apps : apps'[b] \in {apps[b], rest(b)}
    BY <1>8 DEF Opdracht
  <2>2. \A b \in Apps : rest(b).ids = apps[b].ids
    BY <1>2
  <2> HIDE DEF rest
  <2>3. \A b \in Apps : apps'[b].ids \subseteq apps[b].ids
    BY <2>1, <2>2
  <2> QED BY <1>8, <2>3 DEF Opdracht, Gedaan
<1> QED BY <1>5, <1>6, <1>7, <1>8 DEF Delete, Gedaan

LEMMA StapIds ==
  ASSUME TInv, CInv, Next
  PROVE  CInv'
<1> SUFFICES ASSUME NEW w \in Werkers,
                    \/ ApiNext(w) \/ Schrijf(w)
                    \/ BeheerNext(w) \/ FormulierLeest(w) \/ FormulierBewaart(w)
                    \/ \E alle \in BOOLEAN, eraf, erbij \in SUBSET Clients :
                         BeheerBewaart(w, alle, eraf, erbij)
                    \/ \E t \in Typen : TypeMaakt(w, t) \/ TypeWist(w, t)
                    \/ Sync(w) \/ \E a \in Apps : SyncMeldt(w, a)
                    \/ TypeGewist(w) \/ Opdracht(w) \/ Afgebroken(w)
             PROVE  CInv'
  BY DEF Next
<1>1. CASE ApiNext(w)
  BY <1>1, PostIds, PatchIds, AnderIds DEF ApiNext
<1>2. CASE BeheerNext(w)
  BY <1>2, BeheerMaaktIds, LeestIds, BeheerWistIds DEF BeheerNext
<1> QED BY <1>1, <1>2, SchrijfIds, BeheerBewaartIds, TypeIds, AnderIds

\* UniqueClientIDValidator looks before anything is written, the admin looks at credentials
\* instead, and no constraint holds the client ids of applicaties apart; still two applicaties
\* have the same one only if two requests about it overlapped, and one without a credential
\* likewise.
THEOREM ClientIdsUniek == Spec => []EenApplicatie
<1>1. Init => CInv
  BY DEF Init, CInv, IdsGoed, Nieuw
<1>2. TInv /\ CInv /\ [Next]_vars => CInv'
  <2> SUFFICES ASSUME TInv, CInv, [Next]_vars PROVE CInv'
    OBVIOUS
  <2>1. CASE Next
    BY <2>1, StapIds
  <2>2. CASE UNCHANGED vars
    BY <2>2 DEF vars, CInv, IdsGoed
  <2> QED BY <2>1, <2>2
<1>3. CInv => EenApplicatie
  BY DEF CInv, EenApplicatie
<1> QED BY <1>1, <1>2, <1>3, TInvKlopt, PTL DEF Spec

-----------------------------------------------------------------------------
(* Subscribers know what an applicatie can do. *)

LEMMA InhoudZelfde ==
  ASSUME NEW app, NEW app2, app2.rijen = app.rijen, app2.cats = app.cats, NEW T
  PROVE  Inhoud(app2, T) = Inhoud(app, T)
BY DEF Inhoud

LEMMA InhoudLeeg ==
  ASSUME NEW app, app.rijen = {}, app.cats = {}, NEW T
  PROVE  Inhoud(app, T) = {}
BY DEF Inhoud

\* A type only matters to those with autorisaties for its catalogus.
LEMMA InhoudTypen ==
  ASSUME NEW app, NEW T, NEW T2, NEW t, \A u \in Typen \ {t} : T2[u] = T[u],
         \A c \in app.cats : c.catalogus # CatalogusVan[t]
  PROVE  Inhoud(app, T2) = Inhoud(app, T)
<1> DEFINE van(c, U) == {<<u, c.max, c.leest>> :
                           u \in {v \in Typen : U[v] = "er" /\ CatalogusVan[v] = c.catalogus}}
           rij(x) == {r \in app.rijen : <<r.type, r.max, r.leest>> = x}
           cat(x, U) == {c \in app.cats : x \in van(c, U)}
           X(U) == {<<r.type, r.max, r.leest>> : r \in app.rijen} \cup UNION {van(c, U) : c \in app.cats}
<1>1. ASSUME NEW c \in app.cats PROVE van(c, T2) = van(c, T)
  <2>1. {v \in Typen : T2[v] = "er" /\ CatalogusVan[v] = c.catalogus}
          = {v \in Typen : T[v] = "er" /\ CatalogusVan[v] = c.catalogus}
    OBVIOUS
  <2> QED BY <2>1
<1>2. \A U : Inhoud(app, U) = {<<x, Cardinality(rij(x)) + Cardinality(cat(x, U))>> : x \in X(U)}
  BY DEF Inhoud
<1> HIDE DEF van, rij
<1>3. X(T2) = X(T) /\ \A x : cat(x, T2) = cat(x, T)
  BY <1>1
<1> HIDE DEF cat, X
<1> QED BY <1>2, <1>3

\* What is known of an applicatie is right, or it is excused.
Bekend(a) == bekend[a] = Inhoud(apps[a], typen) \/ a \in stil \/ Onderweg(a)

GInv ==
  \A a \in Apps : /\ apps[a].stand = "nieuw" => bekend[a] = {}
                  /\ Er(a) => Bekend(a)

\* A notification for a new type stays under way as long as nothing becomes of its request and
\* of the autorisaties.
LEMMA OnderwegBlijft ==
  ASSUME NEW w \in Werkers, NEW a \in Apps,
         tx[w] = Geen \/ ~MoetMelden(tx[w], a),
         \A v \in Werkers \ {w} : tx'[v] = tx[v],
         Onderweg(a), Er(a)', apps'[a].cats = apps[a].cats
  PROVE  Onderweg(a)'
<1>1. PICK v \in Werkers : tx[v] # Geen /\ MoetMelden(tx[v], a)
  BY DEF Onderweg
<1>2. tx'[v] = tx[v]
  BY <1>1
<1>3. MoetMelden(tx[v], a)'
  BY <1>1, <1>2 DEF MoetMelden, MetCatalogus, Er
<1> QED BY <1>1, <1>2, <1>3 DEF Onderweg

\* Nothing changes for an applicatie, and nobody is told.
LEMMA BekendBlijft ==
  ASSUME NEW w \in Werkers, NEW a \in Apps,
         tx[w] = Geen \/ ~MoetMelden(tx[w], a),
         \A v \in Werkers \ {w} : tx'[v] = tx[v],
         Bekend(a), Er(a)', bekend'[a] = bekend[a], a \in stil => a \in stil',
         apps'[a].rijen = apps[a].rijen, apps'[a].cats = apps[a].cats,
         Inhoud(apps[a], typen') = Inhoud(apps[a], typen)
  PROVE  Bekend(a)'
<1>1. Inhoud(apps[a], typen)' = Inhoud(apps[a], typen)
  <2>1. Inhoud(apps'[a], typen') = Inhoud(apps[a], typen')
    BY InhoudZelfde
  <2> QED BY <2>1 DEF Inhoud
<1>2. Onderweg(a) => Onderweg(a)'
  BY OnderwegBlijft
<1> QED BY <1>1, <1>2 DEF Bekend

\* Requests that read
LEMMA LeesBekend ==
  ASSUME TInv, GInv, NEW w \in Werkers, NEW t, Met(w, t), UNCHANGED <<apps, typen, bekend, stil>>,
         tx[w] = Geen \/ tx[w].op \notin {"sync", "meldt"}
  PROVE  GInv'
<1>1. \A v \in Werkers \ {w} : tx'[v] = tx[v]
  BY DEF Met, TInv, TypeOK
<1>2. \A a \in Apps : tx[w] = Geen \/ ~MoetMelden(tx[w], a)
  BY DEF MoetMelden
<1>3. \A a \in Apps : Er(a)' => Bekend(a)'
  BY <1>1, <1>2, BekendBlijft DEF GInv, Er
<1> QED BY <1>3 DEF GInv

\* Requests that tell of one applicatie, or write one without telling
LEMMA EenBekend ==
  ASSUME TInv, GInv, NEW w \in Werkers, Gedaan(w), tx[w] = Geen \/ tx[w].op \notin {"sync", "meldt"},
         NEW a \in Apps, \A b \in Apps \ {a} : apps'[b] = apps[b] /\ bekend'[b] = bekend[b],
         typen' = typen, stil \ {a} \subseteq stil',
         apps'[a].stand # "nieuw", Er(a)' => Bekend(a)'
  PROVE  GInv'
<1>1. \A v \in Werkers \ {w} : tx'[v] = tx[v]
  BY DEF Gedaan, Met, TInv, TypeOK
<1>2. ASSUME NEW b \in Apps \ {a}, Er(b)' PROVE Bekend(b)'
  <2>1. Er(b) /\ Bekend(b)
    BY <1>2 DEF GInv, Er
  <2>2. tx[w] = Geen \/ ~MoetMelden(tx[w], b)
    BY DEF MoetMelden
  <2> QED BY <1>1, <1>2, <2>1, <2>2, BekendBlijft
<1> QED BY <1>2 DEF GInv

LEMMA MeldBekend ==
  ASSUME NEW S, NEW a \in S \cap Apps, Meld(S, apps', typen')
  PROVE  Bekend(a)'
<1>1. bekend'[a] = Inhoud(apps'[a], typen')
  BY DEF Meld
<1>2. Inhoud(apps[a], typen)' = Inhoud(apps'[a], typen')
  BY DEF Inhoud
<1> QED BY <1>1, <1>2 DEF Bekend

LEMMA SchrijfBekend ==
  ASSUME TInv, GInv, NEW w \in Werkers, Schrijf(w)
  PROVE  GInv'
<1>1. PICK a \in Apps : AppVan(w) = a
  BY AppVanOK DEF Schrijf
<1>2. /\ Meld({a}, apps', typen) /\ typen' = typen /\ stil' = stil \ {a} /\ Gedaan(w)
      /\ tx[w].op \notin {"sync", "meldt"}
  BY <1>1 DEF Schrijf, Gedaan
<1>3. apps'[a].stand = "er" /\ \A b \in Apps \ {a} : apps'[b] = apps[b]
  BY <1>1 DEF Schrijf, TInv, TypeOK
<1>4. Bekend(a)'
  BY <1>2, MeldBekend
<1>5. \A b \in Apps \ {a} : bekend'[b] = bekend[b]
  BY <1>2 DEF Meld
<1> QED BY <1>2, <1>3, <1>4, <1>5, EenBekend

LEMMA WegBekend ==
  ASSUME TInv, GInv, NEW w \in Werkers, NEW a \in Apps, Delete(w, a) \/ BeheerWist(w, a)
  PROVE  GInv'
<1>1. apps'[a].stand = "weg" /\ \A b \in Apps \ {a} : apps'[b] = apps[b]
  BY DEF Delete, BeheerWist, Weg, Nieuw, TInv, TypeOK
<1>2. tx[w] = Geen /\ UNCHANGED <<tx, typen, bekend, stil>>
  BY DEF Delete, BeheerWist
<1> QED BY <1>1, <1>2, EenBekend DEF Gedaan, Er

\* Nobody was told of an applicatie that is new, and it has no autorisaties.
LEMMA BeheerMaaktBekend ==
  ASSUME TInv, GInv, NEW w \in Werkers, NEW a \in Apps, NEW alle \in BOOLEAN,
         NEW ids \in SUBSET Clients, BeheerMaakt(w, a, alle, ids)
  PROVE  GInv'
<1>1. /\ apps' = [apps EXCEPT ![a] = [Nieuw EXCEPT !.stand = "er", !.alle = alle, !.ids = ids]]
      /\ apps[a].stand = "nieuw" /\ tx[w] = Geen /\ UNCHANGED <<tx, typen, bekend, stil>>
  BY DEF BeheerMaakt
<1>2. /\ apps'[a].stand = "er" /\ apps'[a].rijen = {} /\ apps'[a].cats = {}
      /\ \A b \in Apps \ {a} : apps'[b] = apps[b]
  BY <1>1 DEF TInv, TypeOK, Nieuw
<1>3. bekend'[a] = {}
  BY <1>1 DEF GInv
<1>4. Inhoud(apps'[a], typen') = {}
  BY <1>2, InhoudLeeg
<1>5. Bekend(a)'
  <2>1. Inhoud(apps[a], typen)' = Inhoud(apps'[a], typen')
    BY DEF Inhoud
  <2> QED BY <1>3, <1>4, <2>1 DEF Bekend
<1> QED BY <1>1, <1>2, <1>5, EenBekend DEF Gedaan

LEMMA BeheerBewaartBekend ==
  ASSUME TInv, GInv, NEW w \in Werkers, NEW alle \in BOOLEAN, NEW eraf \in SUBSET Clients,
         NEW erbij \in SUBSET Clients, BeheerBewaart(w, alle, eraf, erbij)
  PROVE  GInv'
<1>1. PICK a \in Apps : AppVan(w) = a
  BY AppVanOK DEF BeheerBewaart
<1> DEFINE ids == (tx[w].ids \ eraf) \cup erbij
           rij == [apps[a] EXCEPT !.stand = "er", !.alle = alle, !.ids = ids]
<1>2. /\ apps' = [apps EXCEPT ![a] = rij] /\ UNCHANGED <<typen, bekend>> /\ Gedaan(w)
      /\ tx[w].op \notin {"sync", "meldt"} /\ stil' = IF Er(a) THEN stil ELSE stil \cup {a}
  BY <1>1 DEF BeheerBewaart, Gedaan
<1>3. rij.stand = "er" /\ rij.rijen = apps[a].rijen /\ rij.cats = apps[a].cats
  BY DEF TInv, TypeOK, Applicatie
<1> HIDE DEF rij
<1>4. apps'[a] = rij /\ \A b \in Apps \ {a} : apps'[b] = apps[b]
  BY <1>2 DEF TInv, TypeOK
<1>5. Bekend(a)'
  <2>1. CASE Er(a)
    <3>1. Bekend(a) /\ Er(a)'
      BY <1>3, <1>4, <2>1 DEF GInv, Er
    <3>2. \A v \in Werkers \ {w} : tx'[v] = tx[v]
      BY <1>2 DEF Gedaan, Met, TInv, TypeOK
    <3>3. ~MoetMelden(tx[w], a)
      BY <1>2 DEF MoetMelden
    <3> QED BY <1>2, <1>3, <1>4, <2>1, <3>1, <3>2, <3>3, BekendBlijft
  <2>2. CASE ~Er(a)
    BY <1>2, <2>2 DEF Bekend
  <2> QED BY <2>1, <2>2
<1> QED BY <1>2, <1>3, <1>4, <1>5, EenBekend

LEMMA FormulierBewaartBekend ==
  ASSUME TInv, GInv, NEW w \in Werkers, FormulierBewaart(w)
  PROVE  GInv'
<1>1. PICK a \in Apps : AppVan(w) = a
  BY AppVanOK DEF FormulierBewaart
<1> DEFINE nieuw == [apps[a] EXCEPT !.rijen = tx[w].lijst, !.cats = tx[w].cats]
<1>2. /\ apps' = [apps EXCEPT ![a] = nieuw] /\ typen' = typen /\ Er(a) /\ Gedaan(w)
      /\ tx[w].op \notin {"sync", "meldt"}
  BY <1>1 DEF FormulierBewaart, Gedaan
<1>3. nieuw.stand = "er"
  BY <1>2 DEF TInv, TypeOK, Applicatie, Er
<1>4. IF Gelijk(tx[w].oud, Inhoud(nieuw, typen))
      THEN /\ UNCHANGED bekend
           /\ stil' = IF Inhoud(apps[a], typen) = tx[w].oud /\ ~Onderweg(a) THEN stil ELSE stil \cup {a}
      ELSE Meld({a}, apps', typen) /\ stil' = stil \ {a}
  BY <1>1 DEF FormulierBewaart
<1> HIDE DEF nieuw
<1>5. apps'[a] = nieuw /\ \A b \in Apps \ {a} : apps'[b] = apps[b]
  BY <1>2 DEF TInv, TypeOK
<1>6. Bekend(a)' /\ stil \ {a} \subseteq stil' /\ \A b \in Apps \ {a} : bekend'[b] = bekend[b]
  <2>1. CASE Gelijk(tx[w].oud, Inhoud(nieuw, typen))
    <3>1. UNCHANGED bekend /\ stil \subseteq stil'
      BY <1>4, <2>1
    <3>2. CASE a \in stil'
      BY <3>1, <3>2 DEF Bekend
    <3>3. CASE a \notin stil'
      <4>1. Inhoud(apps[a], typen) = tx[w].oud /\ ~Onderweg(a) /\ a \notin stil
        BY <1>4, <2>1, <3>3
      <4>2. bekend[a] = Inhoud(nieuw, typen)
        BY <1>2, <2>1, <4>1 DEF GInv, Bekend, Gelijk
      <4>3. Inhoud(apps[a], typen)' = Inhoud(apps'[a], typen')
        BY DEF Inhoud
      <4>4. bekend'[a] = Inhoud(apps'[a], typen')
        BY <1>2, <1>5, <3>1, <4>2
      <4>5. Bekend(a)'
        BY <4>3, <4>4 DEF Bekend
      <4> QED BY <3>1, <4>5
    <3> QED BY <3>2, <3>3
  <2>2. CASE ~Gelijk(tx[w].oud, Inhoud(nieuw, typen))
    <3>1. Meld({a}, apps', typen') /\ stil' = stil \ {a}
      BY <1>2, <1>4, <2>2
    <3> QED BY <3>1, MeldBekend DEF Meld
  <2> QED BY <2>1, <2>2
<1> QED BY <1>2, <1>3, <1>5, <1>6, EenBekend

\* A new type changes what those can do who are going to be told.
LEMMA TypeMaaktBekend ==
  ASSUME TInv, GInv, NEW w \in Werkers, NEW t \in Typen, TypeMaakt(w, t)
  PROVE  GInv'
<1> DEFINE v == [Leeg("sync", {}) EXCEPT !.type = t]
<1>1. v.op = "sync" /\ v.type = t /\ v \in Verzoek
  BY LeegVerzoek DEF Leeg, Verzoek
<1>2. Met(w, v) /\ tx[w] = Geen /\ UNCHANGED <<apps, bekend, stil>> /\ typen' = [typen EXCEPT ![t] = "er"]
  BY DEF TypeMaakt
<1> HIDE DEF v
<1>3. tx'[w] = v /\ \A u \in Werkers \ {w} : tx'[u] = tx[u]
  BY <1>2 DEF Met, TInv, TypeOK
<1>4. ASSUME NEW a \in Apps, Er(a)' PROVE Bekend(a)'
  <2>1. Er(a) /\ Bekend(a)
    BY <1>2, <1>4 DEF GInv, Er
  <2>2. CASE a \in MetCatalogus(t)
    <3>1. a \in MetCatalogus(t)' /\ v # Geen
      BY <1>1, <1>2, <2>2, GeenAssumption DEF MetCatalogus, Er
    <3>2. MoetMelden(tx[w], a)'
      BY <1>1, <1>3, <3>1 DEF MoetMelden
    <3> QED BY <1>3, <3>1, <3>2 DEF Bekend, Onderweg
  <2>3. CASE a \notin MetCatalogus(t)
    <3>1. \A c \in apps[a].cats : c.catalogus # CatalogusVan[t]
      BY <2>1, <2>3 DEF MetCatalogus
    <3>2. \A u \in Typen \ {t} : typen'[u] = typen[u]
      BY <1>2 DEF TInv, TypeOK
    <3>3. Inhoud(apps[a], typen') = Inhoud(apps[a], typen)
      BY <3>1, <3>2, InhoudTypen
    <3> QED BY <1>2, <1>3, <1>4, <2>1, <3>3, BekendBlijft
  <2> QED BY <2>2, <2>3
<1> QED BY <1>2, <1>4 DEF GInv

LEMMA SyncBekend ==
  ASSUME TInv, GInv, NEW w \in Werkers, Sync(w)
  PROVE  GInv'
<1> DEFINE S == MetCatalogus(tx[w].type)
<1>1. /\ Resteert(w, S) /\ UNCHANGED <<apps, typen, bekend, stil>>
      /\ tx[w] # Geen /\ tx[w].op = "sync" /\ S \in SUBSET Apps
  BY DEF Sync, MetCatalogus
<1>2. PICK t : Met(w, t) /\ ((t = Geen /\ S = {}) \/ (t \in Verzoek /\ t.op = "meldt" /\ t.meldt = S))
  BY <1>1, ResteertOK
<1>3. tx'[w] = t /\ \A v \in Werkers \ {w} : tx'[v] = tx[v]
  BY <1>2 DEF Met, TInv, TypeOK
<1>4. ASSUME NEW a \in Apps, Er(a)' PROVE Bekend(a)'
  <2>1. CASE a \in S
    <3>1. t # Geen /\ t.op = "meldt" /\ a \in t.meldt
      BY <1>2, <2>1, GeenAssumption
    <3>2. MoetMelden(tx[w], a)'
      BY <1>3, <3>1 DEF MoetMelden
    <3> QED BY <1>3, <3>1, <3>2 DEF Bekend, Onderweg
  <2>2. CASE a \notin S
    <3>1. Er(a) /\ Bekend(a)
      BY <1>1, <1>4 DEF GInv, Er
    <3>2. ~MoetMelden(tx[w], a)
      BY <1>1, <2>2 DEF MoetMelden
    <3> QED BY <1>1, <1>3, <1>4, <3>1, <3>2, BekendBlijft
  <2> QED BY <2>1, <2>2
<1> QED BY <1>1, <1>4 DEF GInv

LEMMA SyncMeldtBekend ==
  ASSUME TInv, GInv, NEW w \in Werkers, NEW b \in Apps, SyncMeldt(w, b)
  PROVE  GInv'
<1>1. /\ tx[w] # Geen /\ tx[w] \in Verzoek /\ tx[w].op = "meldt" /\ b \in tx[w].meldt
      /\ Meld({b}, apps', typen') /\ stil' = stil \ {b} /\ UNCHANGED <<apps, typen>>
  BY DEF SyncMeldt, TInv, TypeOK
<1>2. PICK S \in SUBSET Apps : S = tx[w].meldt \ {b} /\ Resteert(w, S)
  BY <1>1 DEF SyncMeldt, Verzoek
<1>3. PICK t : Met(w, t) /\ ((t = Geen /\ S = {}) \/ (t \in Verzoek /\ t.op = "meldt" /\ t.meldt = S))
  BY <1>1, <1>2, ResteertOK
<1>4. tx'[w] = t /\ \A v \in Werkers \ {w} : tx'[v] = tx[v]
  BY <1>3 DEF Met, TInv, TypeOK
<1>5. ASSUME NEW a \in Apps, Er(a)' PROVE Bekend(a)'
  <2>1. CASE a = b
    BY <1>1, <2>1, MeldBekend
  <2>2. CASE a \in S
    <3>1. t # Geen /\ t.op = "meldt" /\ a \in t.meldt
      BY <1>3, <2>2, GeenAssumption
    <3>2. MoetMelden(tx[w], a)'
      BY <1>4, <3>1 DEF MoetMelden
    <3> QED BY <1>4, <3>1, <3>2 DEF Bekend, Onderweg
  <2>3. CASE a # b /\ a \notin S
    <3>1. Er(a) /\ Bekend(a)
      BY <1>1, <1>5 DEF GInv, Er
    <3>2. ~MoetMelden(tx[w], a)
      BY <1>1, <1>2, <2>3 DEF MoetMelden
    <3>3. bekend'[a] = bekend[a] /\ (a \in stil => a \in stil')
      BY <1>1, <2>3 DEF Meld
    <3> QED BY <1>1, <1>4, <1>5, <3>1, <3>2, <3>3, BekendBlijft
  <2> QED BY <2>1, <2>2, <2>3
<1>6. ASSUME NEW a \in Apps, apps[a].stand = "nieuw" PROVE bekend'[a] = {}
  <2>1. CASE a = b
    <3>1. apps[a].rijen = {} /\ apps[a].cats = {}
      BY <1>6 DEF TInv, TypeOK, Er, Nieuw, Weg
    <3>2. Inhoud(apps[a], typen) = {}
      BY <3>1, InhoudLeeg
    <3> QED BY <1>1, <2>1, <3>2 DEF Meld
  <2>2. CASE a # b
    BY <1>1, <1>6, <2>2 DEF Meld, GInv
  <2> QED BY <2>1, <2>2
<1> QED BY <1>1, <1>5, <1>6 DEF GInv

LEMMA AfgebrokenBekend ==
  ASSUME TInv, GInv, NEW w \in Werkers, Afgebroken(w)
  PROVE  GInv'
<1>1. /\ Met(w, Geen) /\ UNCHANGED <<apps, typen, bekend>>
      /\ stil' = stil \cup {a \in Apps : MoetMelden(tx[w], a)}
  BY DEF Afgebroken
<1>2. \A v \in Werkers \ {w} : tx'[v] = tx[v]
  BY <1>1 DEF Met, TInv, TypeOK
<1>3. ASSUME NEW a \in Apps, Er(a)' PROVE Bekend(a)'
  <2>1. CASE a \in stil'
    BY <2>1 DEF Bekend
  <2>2. CASE a \notin stil'
    <3>1. Er(a) /\ Bekend(a)
      BY <1>1, <1>3 DEF GInv, Er
    <3>2. ~MoetMelden(tx[w], a)
      BY <1>1, <2>2
    <3>3. a \in stil => a \in stil'
      BY <1>1
    <3> QED BY <1>1, <1>2, <1>3, <3>1, <3>2, <3>3, BekendBlijft
  <2> QED BY <2>1, <2>2
<1> QED BY <1>1, <1>3 DEF GInv

LEMMA TypeGewistBekend ==
  ASSUME TInv, GInv, NEW w \in Werkers, TypeGewist(w)
  PROVE  GInv'
<1> DEFINE t == tx[w].type
           S == tx[w].apps
           rest(a) == [apps[a] EXCEPT !.rijen = {r \in @ : r.type # t}]
<1>1. /\ \A a \in Apps : apps'[a] \in {Weg, apps[a], rest(a)}
      /\ \A a \in Apps \ S : apps'[a] = apps[a]
  BY DEF TypeGewist, Wezen
<1>2. \A a \in Apps : rest(a).stand = apps[a].stand
  BY DEF TInv, TypeOK, Applicatie
<1> HIDE DEF rest
<1>3. /\ typen' = [typen EXCEPT ![t] = "weg"] /\ stil' = stil \cup S \cup MetCatalogus(t)
      /\ Met(w, Geen) /\ bekend' = bekend /\ tx[w].op \notin {"sync", "meldt"}
  BY DEF TypeGewist
<1>4. \A v \in Werkers \ {w} : tx'[v] = tx[v]
  BY <1>3 DEF Met, TInv, TypeOK
<1>5. ASSUME NEW a \in Apps, Er(a)' PROVE Bekend(a)'
  <2>1. CASE a \in stil'
    BY <2>1 DEF Bekend
  <2>2. CASE a \notin stil'
    <3>1. apps'[a] = apps[a] /\ a \notin MetCatalogus(t) /\ (a \in stil => a \in stil')
      BY <1>1, <1>3, <2>2
    <3>2. Er(a) /\ Bekend(a)
      BY <1>5, <3>1 DEF GInv, Er
    <3>3. \A c \in apps[a].cats : c.catalogus # CatalogusVan[t]
      BY <3>1, <3>2 DEF MetCatalogus
    <3>4. \A u \in Typen \ {t} : typen'[u] = typen[u]
      BY <1>3 DEF TInv, TypeOK
    <3>5. Inhoud(apps[a], typen') = Inhoud(apps[a], typen)
      BY <3>3, <3>4, InhoudTypen
    <3>6. bekend'[a] = bekend[a] /\ apps'[a].rijen = apps[a].rijen /\ apps'[a].cats = apps[a].cats
      BY <1>3, <3>1
    <3>7. ~MoetMelden(tx[w], a)
      BY <1>3 DEF MoetMelden
    <3> HIDE DEF t, S
    <3> QED BY <1>3, <1>4, <1>5, <3>1, <3>2, <3>5, <3>6, <3>7, BekendBlijft
  <2> QED BY <2>1, <2>2
<1>6. \A a \in Apps : apps'[a].stand = "nieuw" => apps[a].stand = "nieuw"
  BY <1>1, <1>2 DEF Weg, Nieuw
<1> QED BY <1>3, <1>5, <1>6 DEF GInv

LEMMA OpdrachtBekend ==
  ASSUME TInv, GInv, NEW w \in Werkers, Opdracht(w)
  PROVE  GInv'
<1> DEFINE wees(r) == Lokaal(r) /\ ~Bestaat(r.type)
           S == {a \in Apps : Er(a) /\ \E r \in apps[a].rijen : wees(r)}
           rest(a) == [apps[a] EXCEPT !.rijen = {r \in @ : ~wees(r)}]
<1>1. /\ \A a \in Apps : apps'[a] \in {apps[a], rest(a)}
      /\ \A a \in Apps \ S : apps'[a] = apps[a]
  BY DEF Opdracht
<1>2. \A a \in Apps : rest(a).stand = apps[a].stand
  BY DEF TInv, TypeOK, Applicatie
<1> HIDE DEF rest
<1>3. stil' = stil \cup S /\ tx[w] = Geen /\ UNCHANGED <<tx, typen, bekend>>
  BY DEF Opdracht
<1> HIDE DEF S
<1>4. ASSUME NEW a \in Apps, Er(a)' PROVE Bekend(a)'
  <2>1. CASE a \in stil'
    BY <2>1 DEF Bekend
  <2>2. CASE a \notin stil'
    <3>1. apps'[a] = apps[a] /\ (a \in stil => a \in stil')
      BY <1>1, <1>3, <2>2
    <3>2. Er(a) /\ Bekend(a)
      BY <1>4, <3>1 DEF GInv, Er
    <3> QED BY <1>3, <1>4, <3>1, <3>2, BekendBlijft
  <2> QED BY <2>1, <2>2
<1>5. \A a \in Apps : apps'[a].stand = apps[a].stand
  BY <1>1, <1>2
<1> QED BY <1>3, <1>4, <1>5 DEF GInv

LEMMA StapBekend ==
  ASSUME TInv, GInv, Next
  PROVE  GInv'
<1> SUFFICES ASSUME NEW w \in Werkers,
                    \/ ApiNext(w) \/ Schrijf(w)
                    \/ BeheerNext(w) \/ FormulierLeest(w) \/ FormulierBewaart(w)
                    \/ \E alle \in BOOLEAN, eraf, erbij \in SUBSET Clients :
                         BeheerBewaart(w, alle, eraf, erbij)
                    \/ \E t \in Typen : TypeMaakt(w, t) \/ TypeWist(w, t)
                    \/ Sync(w) \/ \E a \in Apps : SyncMeldt(w, a)
                    \/ TypeGewist(w) \/ Opdracht(w) \/ Afgebroken(w)
             PROVE  GInv'
  BY DEF Next
<1>1. ASSUME NEW t, Lees(w, t) PROVE GInv'
  BY <1>1, LeesBekend DEF Lees
<1>2. CASE ApiNext(w)
  <2>1. (\E t : Lees(w, t)) \/ \E a \in Apps : Delete(w, a)
    BY <1>2, ZenonT(60) DEF ApiNext, Post, Patch
  <2> QED BY <1>1, <2>1, WegBekend
<1>3. CASE BeheerNext(w)
  <2>1. \/ \E t : Lees(w, t)
        \/ \E a \in Apps : BeheerWist(w, a)
        \/ \E a \in Apps, ids \in SUBSET Clients, alle \in BOOLEAN : BeheerMaakt(w, a, alle, ids)
    BY <1>3 DEF BeheerNext, BeheerLeest, FormulierGaatIn
  <2> QED BY <1>1, <2>1, WegBekend, BeheerMaaktBekend
<1>4. ASSUME NEW t \in Typen, TypeWist(w, t) PROVE GInv'
  BY <1>1, <1>4 DEF TypeWist
<1>5. CASE FormulierLeest(w)
  BY <1>5, LeesBekend DEF FormulierLeest
<1> QED BY <1>2, <1>3, <1>4, <1>5, SchrijfBekend, FormulierBewaartBekend, BeheerBewaartBekend,
           TypeMaaktBekend, SyncBekend, SyncMeldtBekend, TypeGewistBekend, OpdrachtBekend, AfgebrokenBekend

\* Notifications are sent after the API and a form wrote, after a form only if it made a
\* difference to what it read, and for a new type to those with autorisaties for its catalogus:
\* together they tell the autorisaties that an applicatie has, but where the property excuses it.
THEOREM AbonneesBekend == Spec => []Gemeld
<1>1. Init => GInv
  <2> SUFFICES ASSUME Init PROVE GInv
    OBVIOUS
  <2> QED BY DEF Init, GInv, Nieuw, Er
<1>2. TInv /\ GInv /\ [Next]_vars => GInv'
  <2> SUFFICES ASSUME TInv, GInv, [Next]_vars PROVE GInv'
    OBVIOUS
  <2>1. CASE Next
    BY <2>1, StapBekend
  <2>2. CASE UNCHANGED vars
    <3>1. \A a \in Apps : Inhoud(apps[a], typen)' = Inhoud(apps[a], typen)
      BY <2>2 DEF vars, Inhoud
    <3>2. \A a \in Apps : Onderweg(a) <=> Onderweg(a)'
      BY <2>2 DEF vars, Onderweg, MoetMelden, MetCatalogus, Er
    <3> QED BY <2>2, <3>1, <3>2 DEF vars, GInv, Bekend, Er
  <2> QED BY <2>1, <2>2
<1>3. GInv => Gemeld
  BY DEF GInv, Gemeld, Bekend
<1> QED BY <1>1, <1>2, <1>3, TInvKlopt, PTL DEF Spec

-----------------------------------------------------------------------------
(* The list: urls of autorisaties, sorted, are zipped with sorted types.  *)

\* The elements of a finite set that have the highest number.
LEMMA Hoogste ==
  ASSUME NEW U, IsFiniteSet(U), U # {}, NEW f \in [U -> Nat]
  PROVE  \E x \in U : \A y \in U : f[y] <= f[x]
<1> DEFINE vanaf(x) == {y \in U : f[y] >= f[x]}
           T == {vanaf(x) : x \in U}
<1>1. IsWellFoundedOn(StrictSubsetOrdering(U), FiniteSubsetsOf(U))
  BY FS_StrictSubsetOrderingWellFounded
<1>2. T \subseteq FiniteSubsetsOf(U) /\ T # {}
  <2>1. FiniteSubsetsOf(U) = SUBSET U
    BY FS_FiniteSubsetsOfFinite
  <2>2. \A x \in U : vanaf(x) \in SUBSET U
    OBVIOUS
  <2> HIDE DEF vanaf
  <2> QED BY <2>1, <2>2
<1>3. PICK V \in T : \A W \in T : <<W, V>> \notin StrictSubsetOrdering(U)
  <2> HIDE DEF T
  <2> QED BY <1>1, <1>2, WFMin
<1>4. PICK x \in U : V = vanaf(x)
  BY <1>3
<1>5. ASSUME NEW y \in U, f[y] > f[x] PROVE FALSE
  <2>1. f[x] \in Nat /\ f[y] \in Nat
    OBVIOUS
  <2>2. vanaf(y) \subseteq vanaf(x) /\ x \in vanaf(x) /\ x \notin vanaf(y)
    BY <1>5, <2>1
  <2>3. <<vanaf(y), vanaf(x)>> \in StrictSubsetOrdering(U)
    BY <2>2 DEF StrictSubsetOrdering
  <2> QED BY <1>3, <1>4, <2>3
<1> QED BY <1>5

\* A function that is onto
LEMMA Afbeelding ==
  ASSUME NEW S, NEW T, IsFiniteSet(S), NEW f, \A x \in S : f[x] \in T,
         \A t \in T : \E x \in S : f[x] = t
  PROVE  /\ IsFiniteSet(T) /\ Cardinality(T) <= Cardinality(S)
         /\ Cardinality(T) = Cardinality(S) => \A x, y \in S : f[x] = f[y] => x = y
<1> DEFINE g == [x \in S |-> f[x]]
<1>1. g \in Surjection(S, T)
  BY DEF Surjection
<1>2. g \in Injection(S, T) <=> \A x, y \in S : f[x] = f[y] => x = y
  BY DEF Injection, IsInjective
<1> HIDE DEF g
<1> QED BY <1>1, <1>2, FS_Surjection

\* And one-to-one
LEMMA EenOpEen ==
  ASSUME NEW S, NEW T, IsFiniteSet(S), NEW f, \A x \in S : f[x] \in T,
         \A t \in T : \E x \in S : f[x] = t, \A x, y \in S : f[x] = f[y] => x = y
  PROVE  IsFiniteSet(T) /\ Cardinality(T) = Cardinality(S)
<1> DEFINE g == [x \in S |-> f[x]]
<1>1. g \in Surjection(S, T) /\ g \in Injection(S, T)
  BY DEF Surjection, Injection, IsInjective
<1> HIDE DEF g
<1> QED BY <1>1, FS_Surjection

\* The place of a number in a set of numbers
Rang(T, t) == Cardinality({s \in T : s <= t})

LEMMA RangUniek ==
  ASSUME NEW T \in SUBSET Nat, IsFiniteSet(T), NEW s \in T, NEW t \in T, Rang(T, s) = Rang(T, t)
  PROVE  s = t
<1>1. ASSUME NEW u \in T, NEW v \in T, u < v, Rang(T, u) = Rang(T, v) PROVE FALSE
  <2> DEFINE A == {x \in T : x <= u}
             B == {x \in T : x <= v}
  <2>1. A \subseteq B /\ v \in B /\ v \notin A
    <3>1. u \in Nat /\ v \in Nat /\ \A x \in T : x \in Nat
      OBVIOUS
    <3>2. \A x \in T : x <= u => x <= v
      BY <1>1, <3>1
    <3>3. v <= v /\ ~(v <= u)
      BY <1>1, <3>1
    <3> QED BY <3>2, <3>3
  <2>2. IsFiniteSet(B)
    BY FS_Subset
  <2>3. Cardinality(A) = Cardinality(B)
    BY <1>1 DEF Rang
  <2> HIDE DEF A, B
  <2>4. A = B
    BY <2>1, <2>2, <2>3, FS_Subset
  <2> QED BY <2>1, <2>4
<1> QED BY <1>1

\* If fewer urls than there are types come before each url, then each url names a type that is
\* there, and only the last one is named more than once: the last place of a url is the place of
\* its type.
LEMMA Geritst ==
  ASSUME NEW U, IsFiniteSet(U), NEW f \in [U -> Nat], NEW T \in SUBSET Nat,
         \A t \in T : \E x \in U : f[x] = t,
         \A x \in U : Cardinality({y \in U : f[y] < f[x]}) < Cardinality(T)
  PROVE  \A x \in U :
           LET p == Cardinality({y \in U : f[y] <= f[x]})
           IN  f[x] \in T /\ Rang(T, f[x]) = IF p < Cardinality(T) THEN p ELSE Cardinality(T)
<1> SUFFICES ASSUME U # {}
             PROVE  \A x \in U :
                      LET p == Cardinality({y \in U : f[y] <= f[x]})
                      IN  f[x] \in T /\ Rang(T, f[x]) = IF p < Cardinality(T) THEN p ELSE Cardinality(T)
  OBVIOUS
<1>1. PICK m \in U : \A y \in U : f[y] <= f[m]
  BY Hoogste
<1> DEFINE L == {y \in U : f[y] < f[m]}
           V == L \cup {m}
           D == {f[y] : y \in U}
<1>2. L \subseteq U /\ V \subseteq U /\ IsFiniteSet(L) /\ m \notin L
  BY FS_Subset
<1>3. IsFiniteSet(V) /\ Cardinality(V) = Cardinality(L) + 1 /\ Cardinality(L) \in Nat
  BY <1>2, FS_AddElement, FS_CardinalityType
<1>4. /\ \A x \in V : f[x] \in D
      /\ \A t \in D : \E x \in V : f[x] = t
  <2>1. ASSUME NEW y \in U PROVE \E x \in V : f[x] = f[y]
    <3>1. f[y] \in Nat /\ f[m] \in Nat /\ f[y] <= f[m]
      BY <1>1
    <3>2. y \in L \/ f[y] = f[m]
      BY <3>1
    <3> QED BY <3>2
  <2> QED BY <1>2, <2>1
<1>5. T \subseteq D
  OBVIOUS
<1>6. Cardinality(L) < Cardinality(T)
  OBVIOUS
<1> HIDE DEF L, V, D
<1>7. IsFiniteSet(D) /\ Cardinality(D) <= Cardinality(V)
  BY <1>3, <1>4, Afbeelding
<1>8. /\ IsFiniteSet(T) /\ Cardinality(T) <= Cardinality(D)
      /\ Cardinality(T) = Cardinality(D) => T = D
      /\ Cardinality(T) \in Nat /\ Cardinality(D) \in Nat
  BY <1>5, <1>7, FS_Subset, FS_CardinalityType
<1>9. Cardinality(T) = Cardinality(V) /\ Cardinality(D) = Cardinality(V) /\ T = D
  BY <1>3, <1>6, <1>7, <1>8
<1>10. \A x, y \in V : f[x] = f[y] => x = y
  <2>1. Cardinality(D) = Cardinality(V) => \A x, y \in V : f[x] = f[y] => x = y
    BY <1>3, <1>4, Afbeelding
  <2> QED BY <1>9, <2>1
<1> SUFFICES ASSUME NEW x \in U
             PROVE  LET p == Cardinality({y \in U : f[y] <= f[x]})
                    IN  f[x] \in T /\ Rang(T, f[x]) = IF p < Cardinality(T) THEN p ELSE Cardinality(T)
  OBVIOUS
<1> DEFINE P == {y \in U : f[y] <= f[x]}
           Q == {s \in T : s <= f[x]}
<1>11. f[x] \in T
  BY <1>9 DEF D
<1>12. IsFiniteSet(P) /\ Cardinality(P) \in Nat
  BY FS_Subset, FS_CardinalityType
<1>13. CASE f[x] = f[m]
  <2>1. Q = T
    <3>1. \A t \in T : t <= f[m]
      BY <1>1, <1>9 DEF D
    <3> QED BY <1>13, <3>1
  <2>2. V \subseteq P
    BY <1>1, <1>2, <1>13
  <2>3. Cardinality(V) <= Cardinality(P)
    <3> HIDE DEF P
    <3> QED BY <1>12, <2>2, FS_Subset
  <2> HIDE DEF P, Q
  <2>4. ~(Cardinality(P) < Cardinality(T))
    BY <1>8, <1>9, <1>12, <2>3
  <2> QED BY <1>11, <2>1, <2>4 DEF Rang, P, Q
<1>14. CASE f[x] # f[m]
  <2>1. f[x] < f[m]
    BY <1>1, <1>14
  <2>2. P \subseteq V
    <3>1. ASSUME NEW y \in P PROVE f[y] < f[m]
      BY <2>1
    <3> QED BY <3>1 DEF L, V
  <2>3. /\ \A y \in P : f[y] \in Q
        /\ \A t \in Q : \E y \in P : f[y] = t
    BY <1>9 DEF D
  <2>4. \A y, z \in P : f[y] = f[z] => y = z
    BY <1>10, <2>2
  <2>5. Q \subseteq T
    OBVIOUS
  <2> HIDE DEF P, Q
  <2>6. Cardinality(Q) = Cardinality(P)
    BY <1>12, <2>3, <2>4, EenOpEen
  <2>7. Cardinality(Q) <= Cardinality(T)
    BY <1>8, <2>5, FS_Subset
  <2>8. Cardinality(P) \in Nat /\ Cardinality(T) \in Nat
    BY <1>8, <1>12
  <2>9. Cardinality(Q) = IF Cardinality(P) < Cardinality(T) THEN Cardinality(P) ELSE Cardinality(T)
    BY <2>6, <2>7, <2>8
  <2> QED BY <1>11, <2>9 DEF Rang, P, Q
<1> QED BY <1>13, <1>14

\* And if not, a url names a type that is not there, or two urls name the same.
LEMMA NietGeritst ==
  ASSUME NEW U, IsFiniteSet(U), NEW f \in [U -> Nat], NEW T \in SUBSET Nat,
         \A t \in T : \E x \in U : f[x] = t,
         NEW L \in SUBSET U, NEW u \in U \ L, ~(Cardinality(L) < Cardinality(T))
  PROVE  \E y \in U : f[y] \notin T \/ \E z \in U \ {y} : f[y] = f[z]
<1> SUFFICES ASSUME \A y \in U : f[y] \in T, \A y, z \in U : f[y] = f[z] => y = z PROVE FALSE
  OBVIOUS
<1>1. IsFiniteSet(T) /\ Cardinality(T) = Cardinality(U)
  BY EenOpEen
<1>2. /\ IsFiniteSet(L) /\ Cardinality(L) <= Cardinality(U)
      /\ Cardinality(U) = Cardinality(L) => U = L
      /\ Cardinality(L) \in Nat /\ Cardinality(U) \in Nat
  BY FS_Subset, FS_CardinalityType
<1> QED BY <1>1, <1>2

\* The urls of a client are finite: applicaties, types and levels are.
LEMMA UrlsEindig ==
  ASSUME TypeOK, NEW c
  PROVE  IsFiniteSet(LokaleUrls(c)) /\ \A x \in LokaleUrls(c) : x[2].type \in Typen
<1> DEFINE P == ((1..3) \X Typen) \X (Niveaus \X BOOLEAN)
           R == [nr : 1..3, type : Typen, max : Niveaus, leest : BOOLEAN]
           f == [p \in P |-> [nr |-> p[1][1], type |-> p[1][2], max |-> p[2][1], leest |-> p[2][2]]]
<1>1. IsFiniteSet(P)
  <2>1. IsFiniteSet(1..3) /\ IsFiniteSet(BOOLEAN)
    <3>1. IsFiniteSet(1..3)
      <4>1. 1 \in Int /\ 3 \in Int
        OBVIOUS
      <4> QED BY ONLY <4>1, FS_Interval
    <3>2. IsFiniteSet({TRUE})
      BY FS_Singleton
    <3>3. IsFiniteSet({TRUE} \cup {FALSE}) /\ {TRUE} \cup {FALSE} = BOOLEAN
      BY <3>2, FS_AddElement
    <3> QED BY <3>1, <3>3
  <2>2. IsFiniteSet((1..3) \X Typen)
    BY <2>1, AutorisatiesAssumption, FS_Product
  <2>3. IsFiniteSet(Niveaus \X BOOLEAN)
    BY <2>1, AutorisatiesAssumption, FS_Product
  <2> QED BY <2>2, <2>3, FS_Product
<1>2. f \in Surjection(P, R)
  <2>1. f \in [P -> R]
    OBVIOUS
  <2>2. ASSUME NEW r \in R PROVE \E p \in P : f[p] = r
    <3>1. <<<<r.nr, r.type>>, <<r.max, r.leest>>>> \in P
      OBVIOUS
    <3>2. f[<<<<r.nr, r.type>>, <<r.max, r.leest>>>>] = r
      BY <3>1
    <3> QED BY <3>1, <3>2
  <2> HIDE DEF f, P, R
  <2> QED BY <2>1, <2>2 DEF Surjection
<1> HIDE DEF P, f
<1>3. IsFiniteSet(R)
  BY <1>1, <1>2, FS_Surjection
<1>4. \A x \in LokaleUrls(c) : x \in Apps \X R
  <2> SUFFICES ASSUME NEW a \in VanClient(c), NEW r \in apps[a].rijen, Lokaal(r)
               PROVE  <<a, r>> \in Apps \X R
    BY DEF LokaleUrls, MetScope
  <2>1. a \in Apps /\ r \in Rij /\ r.type \in Typen
    BY DEF VanClient, TypeOK, Applicatie, Lokaal
  <2>2. r \in R
    BY <2>1 DEF Rij
  <2> QED BY <2>1, <2>2
<1>5. IsFiniteSet(Apps \X R)
  BY <1>3, AutorisatiesAssumption, FS_Product
<1>6. IsFiniteSet(LokaleUrls(c))
  <2>1. LokaleUrls(c) \in SUBSET (Apps \X R)
    BY <1>4
  <2> HIDE DEF R
  <2> QED BY <1>5, <2>1, FS_Subset
<1> QED BY <1>4, <1>6

\* The pairs of urls and types
LEMMA Paren ==
  ASSUME TypeOK, NEW c, ~Superuser(c)
  PROVE  IF Lukt(c)
         THEN \A x \in LokaleUrls(c) : ObjectVan(c, x[2].type) = x[2].type
         ELSE \E x \in LokaleUrls(c) :
                ~Bestaat(x[2].type) \/ \E y \in LokaleUrls(c) \ {x} : y[2].type = x[2].type
<1> DEFINE U == LokaleUrls(c)
           T == Objecten(c)
           f == [x \in U |-> x[2].type]
<1>1. IsFiniteSet(U) /\ \A x \in U : x[2].type \in Typen
  BY UrlsEindig
<1>2. f \in [U -> Nat] /\ T \in SUBSET Nat
  BY <1>1, AutorisatiesAssumption DEF Objecten
<1>3. \A t \in T : \E x \in U : f[x] = t
  BY DEF Objecten
<1>4. \A x \in U : {y \in U : y[2].type < x[2].type} = {y \in U : f[y] < f[x]}
  OBVIOUS
<1>5. \A x \in U : {y \in U : y[2].type <= x[2].type} = {y \in U : f[y] <= f[x]}
  OBVIOUS
<1>6. \A x \in U : f[x] = x[2].type
  OBVIOUS
<1>7. Lukt(c) <=> \A x \in U : Cardinality({y \in U : f[y] < f[x]}) < Cardinality(T)
  BY <1>4 DEF Lukt
<1>8. IsFiniteSet(T)
  BY <1>2, AutorisatiesAssumption, FS_Subset DEF Objecten
<1>9. \A x \in U : Plaats(c, x[2].type) = Cardinality({y \in U : f[y] <= f[x]})
  BY <1>5 DEF Plaats
<1>10. \A x \in U : x[2].type \notin T => ~Bestaat(x[2].type)
  BY <1>1 DEF Objecten, Bestaat
<1> HIDE DEF f
<1>11. CASE Lukt(c)
  <2>1. \A x \in U :
           LET p == Cardinality({y \in U : f[y] <= f[x]})
           IN  f[x] \in T /\ Rang(T, f[x]) = IF p < Cardinality(T) THEN p ELSE Cardinality(T)
    <3> HIDE DEF U, T
    <3> QED BY <1>1, <1>2, <1>3, <1>7, <1>11, Geritst
  <2>2. ASSUME NEW x \in U PROVE ObjectVan(c, x[2].type) = x[2].type
    <3> DEFINE p == IF Plaats(c, x[2].type) < Cardinality(T) THEN Plaats(c, x[2].type) ELSE Cardinality(T)
    <3>1. x[2].type \in T /\ Rang(T, x[2].type) = p
      BY <1>6, <1>9, <2>1
    <3>2. ObjectVan(c, x[2].type) = CHOOSE t \in T : Rang(T, t) = p
      BY DEF ObjectVan, Rang
    <3> HIDE DEF p, T
    <3>3. ASSUME NEW t \in T, Rang(T, t) = p PROVE t = x[2].type
      <4>1. T \in SUBSET Nat
        BY <1>2
      <4>2. Rang(T, t) = Rang(T, x[2].type)
        BY <3>1, <3>3
      <4>3. PICK v \in T : v = x[2].type
        BY <3>1
      <4> QED BY <1>8, <4>1, <4>2, <4>3, RangUniek
    <3> QED BY <3>1, <3>2, <3>3
  <2> QED BY <1>11, <2>2
<1>12. CASE ~Lukt(c)
  <2>1. PICK u \in U : ~(Cardinality({y \in U : f[y] < f[u]}) < Cardinality(T))
    BY <1>7, <1>12
  <2>2. \E y \in U : f[y] \notin T \/ \E z \in U \ {y} : f[y] = f[z]
    <3> DEFINE L == {y \in U : f[y] < f[u]}
    <3>1. L \in SUBSET U /\ u \in U \ L
      BY <1>2
    <3> HIDE DEF U, T, L
    <3>2. ~(Cardinality(L) < Cardinality(T))
      BY <2>1 DEF L
    <3> QED BY <1>1, <1>2, <1>3, <3>1, <3>2, NietGeritst
  <2> QED BY <1>6, <1>10, <1>12, <2>2
<1> QED BY <1>11, <1>12

\* What the groups list: the types of the autorisaties with the scope, and those that are there
\* of the catalogi.
LEMMA GroepenLijsten ==
  ASSUME NEW c, \A x \in LokaleUrls(c) : ObjectVan(c, x[2].type) = x[2].type, NEW z
  PROVE  (\E g \in Groepen(c) : z[1] = g[1] /\ z[2] <= g[2]) <=>
           \/ \E x \in MetScope(c) : z[1] = x[2].type /\ z[2] <= x[2].max
           \/ \E k \in CatsVan(c) : /\ z[1] \in Typen /\ typen[z[1]] = "er"
                                    /\ CatalogusVan[z[1]] = k.catalogus /\ z[2] <= k.max
<1> DEFINE lokaal == {<<x[2].type, x[2].max>> : x \in LokaleUrls(c)}
           extern == {<<x[2].type, x[2].max>> : x \in MetScope(c) \ LokaleUrls(c)}
           van(k) == {<<t, k.max>> : t \in {u \in Typen : typen[u] = "er" /\ CatalogusVan[u] = k.catalogus}}
<1>1. Groepen(c) = lokaal \cup extern \cup UNION {van(k) : k \in CatsVan(c)}
  <2>1. {<<ObjectVan(c, x[2].type), x[2].max>> : x \in LokaleUrls(c)} = lokaal
    OBVIOUS
  <2> QED BY <2>1 DEF Groepen
<1>2. LokaleUrls(c) \subseteq MetScope(c)
  BY DEF LokaleUrls
<1>3. (\E g \in lokaal : z[1] = g[1] /\ z[2] <= g[2]) <=>
        \E x \in LokaleUrls(c) : z[1] = x[2].type /\ z[2] <= x[2].max
  <2>1. \A x : <<x[2].type, x[2].max>>[1] = x[2].type /\ <<x[2].type, x[2].max>>[2] = x[2].max
    OBVIOUS
  <2> QED BY <2>1
<1>4. (\E g \in extern : z[1] = g[1] /\ z[2] <= g[2]) <=>
        \E x \in MetScope(c) \ LokaleUrls(c) : z[1] = x[2].type /\ z[2] <= x[2].max
  <2>1. \A x : <<x[2].type, x[2].max>>[1] = x[2].type /\ <<x[2].type, x[2].max>>[2] = x[2].max
    OBVIOUS
  <2> QED BY <2>1
<1>5. \A k : (\E g \in van(k) : z[1] = g[1] /\ z[2] <= g[2]) <=>
               /\ z[1] \in Typen /\ typen[z[1]] = "er"
               /\ CatalogusVan[z[1]] = k.catalogus /\ z[2] <= k.max
  <2> SUFFICES ASSUME NEW k
               PROVE  (\E g \in van(k) : z[1] = g[1] /\ z[2] <= g[2]) <=>
                        /\ z[1] \in Typen /\ typen[z[1]] = "er"
                        /\ CatalogusVan[z[1]] = k.catalogus /\ z[2] <= k.max
    OBVIOUS
  <2> DEFINE T == {u \in Typen : typen[u] = "er" /\ CatalogusVan[u] = k.catalogus}
  <2>1. (\E g \in van(k) : z[1] = g[1] /\ z[2] <= g[2]) <=>
          \E t \in T : z[1] = <<t, k.max>>[1] /\ z[2] <= <<t, k.max>>[2]
    OBVIOUS
  <2>2. (\E t \in T : z[1] = <<t, k.max>>[1] /\ z[2] <= <<t, k.max>>[2]) <=>
          z[1] \in T /\ z[2] <= k.max
    OBVIOUS
  <2> QED BY <2>1, <2>2
<1> HIDE DEF lokaal, extern, van
<1> QED BY <1>1, <1>2, <1>3, <1>4, <1>5

\* Without groups, the client may list nothing, or has catalogi without types.
LEMMA GeenGroepen ==
  ASSUME NEW c, ~Superuser(c), MagLijst(c), Groepen(c) = {}
  PROVE  ZonderTypen(c)
<1>1. LokaleUrls(c) = {} /\ MetScope(c) \ LokaleUrls(c) = {}
  <2>1. ASSUME NEW x \in LokaleUrls(c) PROVE FALSE
    <3>1. <<ObjectVan(c, x[2].type), x[2].max>> \in Groepen(c)
      BY DEF Groepen
    <3> QED BY <3>1
  <2>2. ASSUME NEW x \in MetScope(c) \ LokaleUrls(c) PROVE FALSE
    <3>1. <<x[2].type, x[2].max>> \in Groepen(c)
      BY DEF Groepen
    <3> QED BY <3>1
  <2> QED BY <2>1, <2>2
<1>2. MetScope(c) = {} /\ CatsVan(c) # {}
  BY <1>1 DEF MagLijst
<1>3. ASSUME NEW k \in CatsVan(c), NEW t \in Typen, CatalogusVan[t] = k.catalogus, typen[t] = "er"
      PROVE  FALSE
  <2>1. <<t, k.max>> \in Groepen(c)
    BY <1>3 DEF Groepen
  <2> QED BY <2>1
<1> QED BY <1>2, <1>3 DEF ZonderTypen

\* A client that may open a zaak may list zaken.
LEMMA MetRecht ==
  ASSUME NEW c, NEW z, MagZien(c, z)
  PROVE  MagLijst(c)
<1>1. ASSUME NEW a \in VanClient(c), NEW r \in apps[a].rijen, r.leest PROVE <<a, r>> \in MetScope(c)
  BY <1>1 DEF MetScope
<1>2. ASSUME NEW a \in VanClient(c), NEW k \in apps[a].cats, k.leest PROVE k \in CatsVan(c)
  BY <1>2 DEF CatsVan
<1> QED BY <1>1, <1>2 DEF MagZien, MagLijst

\* The list has what the client can open, for every set of urls and types: pairing sorted urls with
\* sorted types gives each url its own type, or fails, and the filter is empty only for a client
\* with autorisaties for nothing but catalogi without types.
THEOREM LijstEnDetail == Spec => []LijstKlopt
<1>1. TypeOK => LijstKlopt
  <2> SUFFICES ASSUME TypeOK, NEW c \in Clients
               PROVE  IF Lukt(c)
                      THEN \/ ZonderTypen(c)
                           \/ /\ \A z \in Lijst(c) : z \in Zaken /\ MagZien(c, z)
                              /\ \A z \in Zaken : MagZien(c, z) /\ z \notin Lijst(c) =>
                                   z[1] \in Extern /\ CatsVan(c) # {}
                      ELSE \E x \in LokaleUrls(c) :
                             ~Bestaat(x[2].type) \/ \E y \in LokaleUrls(c) \ {x} : y[2].type = x[2].type
    BY DEF LijstKlopt
  <2>1. CASE Superuser(c)
    <3>1. Lijst(c) = Zaken
      BY <2>1 DEF Lijst, MagLijst
    <3> QED BY <2>1, <3>1 DEF Lukt, MagZien
  <2>2. CASE ~Superuser(c) /\ ~Lukt(c)
    BY <2>2, Paren
  <2>3. CASE ~MagLijst(c) /\ Lukt(c)
    <3>1. Lijst(c) = {}
      BY <2>3 DEF Lijst
    <3> QED BY <2>3, <3>1, MetRecht
  <2>4. CASE ~Superuser(c) /\ Lukt(c) /\ MagLijst(c) /\ Groepen(c) = {}
    BY <2>4, GeenGroepen
  <2>5. CASE ~Superuser(c) /\ Lukt(c) /\ MagLijst(c) /\ Groepen(c) # {}
    <3>1. \A x \in LokaleUrls(c) : ObjectVan(c, x[2].type) = x[2].type
      BY <2>5, Paren
    <3>2. Lijst(c) = {z \in Zaken : \E g \in Groepen(c) : z[1] = g[1] /\ z[2] <= g[2]}
      BY <2>5 DEF Lijst
    <3>3. \A z : z \in Lijst(c) <=>
            /\ z \in Zaken
            /\ \/ \E x \in MetScope(c) : z[1] = x[2].type /\ z[2] <= x[2].max
               \/ \E k \in CatsVan(c) : /\ z[1] \in Typen /\ typen[z[1]] = "er"
                                        /\ CatalogusVan[z[1]] = k.catalogus /\ z[2] <= k.max
      BY <3>1, <3>2, GroepenLijsten
    <3>4. ASSUME NEW z
          PROVE  (\E x \in MetScope(c) : z[1] = x[2].type /\ z[2] <= x[2].max) <=>
                 \E a \in VanClient(c) : \E r \in apps[a].rijen : r.leest /\ r.type = z[1] /\ z[2] <= r.max
      <4>1. \A x \in MetScope(c) : x[1] \in VanClient(c) /\ x[2] \in apps[x[1]].rijen /\ x[2].leest
        BY DEF MetScope
      <4>2. \A a \in VanClient(c) : \A r \in apps[a].rijen : r.leest => <<a, r>> \in MetScope(c)
        BY DEF MetScope
      <4>3. ASSUME NEW a \in VanClient(c), NEW r \in apps[a].rijen, r.leest, r.type = z[1], z[2] <= r.max
            PROVE  \E x \in MetScope(c) : z[1] = x[2].type /\ z[2] <= x[2].max
        <5>1. <<a, r>>[2] = r /\ <<a, r>> \in MetScope(c)
          BY <4>2, <4>3
        <5> QED BY <4>3, <5>1
      <4> QED BY <4>1, <4>3
    <3>5. ASSUME NEW z \in Lijst(c) PROVE z \in Zaken /\ MagZien(c, z)
      BY <3>3, <3>4 DEF MagZien, CatsVan
    <3>6. ASSUME NEW z \in Zaken, MagZien(c, z), z \notin Lijst(c)
          PROVE  z[1] \in Extern /\ CatsVan(c) # {}
      <4>1. z[1] \in Typen \cup Extern /\ (z[1] \in Typen => typen[z[1]] = "er")
        BY DEF Zaken, Bestaat
      <4>2. PICK a \in VanClient(c) : \E k \in apps[a].cats :
              k.leest /\ (z[1] \in Typen => k.catalogus = CatalogusVan[z[1]]) /\ z[2] <= k.max
        BY <2>5, <3>3, <3>4, <3>6 DEF MagZien
      <4>3. PICK k \in apps[a].cats :
              k.leest /\ (z[1] \in Typen => k.catalogus = CatalogusVan[z[1]]) /\ z[2] <= k.max
        BY <4>2
      <4>4. k \in CatsVan(c)
        BY <4>3 DEF CatsVan
      <4> QED BY <3>3, <3>6, <4>1, <4>3, <4>4
    <3> QED BY <2>5, <3>5, <3>6
  <2> QED BY <2>1, <2>2, <2>3, <2>4, <2>5
<1> QED BY <1>1, TypeCorrect, PTL

=============================================================================
