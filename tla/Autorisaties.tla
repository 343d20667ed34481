----------------------------- MODULE Autorisaties -----------------------------
(***************************************************************************)
(* What applications may do: their client ids and credentials, their       *)
(* autorisaties for types of the Catalogi API or for whole catalogi, and   *)
(* the two places that decide with these which zaken a client sees, the    *)
(* list and the detail page.  Autorisaties name types by URL and no        *)
(* foreign key keeps the two together: signal handlers do.                 *)
(*                                                                         *)
(* Types are numbered in the order of their paths, and those of this       *)
(* installation all have the same host in their URL.  A request reads and  *)
(* validates first and writes later; what it writes commits in one step,   *)
(* except where another transaction may come in between.                   *)
(***************************************************************************)
EXTENDS Integers, FiniteSets

CONSTANTS
  Apps,        \* applicaties
  Clients,     \* client ids
  Typen,       \* numbers of the types of this installation
  Extern,      \* numbers of types of another one
  Catalogi,    \* catalogi of this installation
  CatalogusVan,\* Typen -> Catalogi
  Niveaus,     \* vertrouwelijkheidaanduidingen, in their order
  Lijsten,     \* bound: lists of autorisaties that clients and administrators write
  Geen,        \* no request
  Werkers      \* requests being served at the same time

\* An autorisatie of a list: its place, type and confidentiality, and whether its scopes
\* have zaken.lezen.
Rij == [nr : 1..3, type : Typen \cup Extern, max : Niveaus, leest : BOOLEAN]
CatRij == [catalogus : Catalogi, max : Niveaus, leest : BOOLEAN]

ASSUME AutorisatiesAssumption ==
  /\ Typen \subseteq Nat /\ Extern \subseteq Nat /\ Typen \cap Extern = {}
  /\ Niveaus \subseteq Nat
  /\ IsFiniteSet(Apps) /\ IsFiniteSet(Typen) /\ IsFiniteSet(Niveaus)
  /\ CatalogusVan \in [Typen -> Catalogi]
  /\ Lijsten \subseteq SUBSET Rij /\ {} \in Lijsten
  /\ \A L \in Lijsten : \A r, s \in L : r.nr = s.nr => r = s

VARIABLES
  apps,           \* rows of Applicatie, with those of Autorisatie and CatalogusAutorisatie
  typen,          \* of each type: not made yet, there, or deleted
  secrets,        \* identifiers of JWTSecret
  bekend,         \* what each applicatie could do when its last notification was sent
  tx,             \* the request of each worker
  beheerd,        \* applicaties that administrators or the command wrote
  gelijktijdig,   \* applicaties written while another request on them was under way
  dubbel,         \* client ids written while another request was about to write them
  stil            \* applicaties changed by something that sends no notification

vars == <<apps, typen, secrets, bekend, tx, beheerd, gelijktijdig, dubbel, stil>>

-----------------------------------------------------------------------------
\* A row of Applicatie that is not made yet, or deleted
Nieuw == [stand |-> "nieuw", alle |-> FALSE, ids |-> {}, rijen |-> {}, cats |-> {}]
Weg == [Nieuw EXCEPT !.stand = "weg"]

Er(a) == apps[a].stand = "er"

Lokaal(r) == r.type \in Typen
Bestaat(t) == t \in Typen => typen[t] = "er"

\* IS_SUPERUSER, HAS_AUTORISATIES: applicaties that are both or none are not in the API.
Geldig(app) == app.alle <=> app.rijen = {} /\ app.cats = {}
InApi(a) == Er(a) /\ Geldig(apps[a])

\* ApplicatieSerializer.to_representation: autorisaties, and virtual ones for every type in a
\* catalogus.  The order of the list does not matter.
Inhoud(app, T) ==
  LET van(c) == {<<t, c.max, c.leest>> : t \in {u \in Typen : T[u] = "er" /\ CatalogusVan[u] = c.catalogus}}
      rij(x) == {r \in app.rijen : <<r.type, r.max, r.leest>> = x}
      cat(x) == {c \in app.cats : x \in van(c)}
  IN {<<x, Cardinality(rij(x)) + Cardinality(cat(x))>> :
        x \in {<<r.type, r.max, r.leest>> : r \in app.rijen} \cup UNION {van(c) : c \in app.cats}}

Init ==
  /\ apps = [a \in Apps |-> Nieuw]
  /\ typen \in [Typen -> {"nieuw", "er"}]
  /\ secrets = {}
  /\ bekend = [a \in Apps |-> {}]
  /\ tx = [w \in Werkers |-> Geen]
  /\ beheerd = {} /\ gelijktijdig = {} /\ dubbel = {} /\ stil = {}

Leeg(op, S) ==
  [op |-> op, apps |-> S, alle |-> FALSE, ids |-> {}, geeft |-> FALSE, lijst |-> {},
   cats |-> {}, oud |-> {}, type |-> 0, meldt |-> {}]

Met(w, t) == tx' = [tx EXCEPT ![w] = t]

\* The app of a request on one applicatie
AppVan(w) == CHOOSE a \in tx[w].apps : TRUE

Anderen(w) == {v \in Werkers \ {w} : tx[v] # Geen}

\* What commits overtakes a request that has read an applicatie and will still write it, ...
Haalt(w, S) ==
  gelijktijdig' = gelijktijdig \cup {a \in S : \E v \in Anderen(w) : a \in tx[v].apps}

\* ... or that has validated a client id, or read it.
Dubbelt(w, ids) ==
  dubbel' = dubbel \cup {c \in ids : \E v \in Anderen(w) : c \in tx[v].ids}

\* Mutant: rows are not locked.
SlotLos(w, S) == TRUE

\* Rows of Autorisatie that another transaction deletes are locked.
Slot(w, S) == \A v \in Anderen(w) : tx[v].op = "type_weg" => tx[v].apps \cap S = {}

\* The applicaties with autorisaties for the whole catalogus of a type
MetCatalogus(t) == {a \in Apps : Er(a) /\ \E c \in apps[a].cats : c.catalogus = CatalogusVan[t]}

\* The notification of an applicatie for a new type is still to be sent by a request.
MoetMelden(t, a) ==
  \/ t.op = "sync" /\ a \in MetCatalogus(t.type)
  \/ t.op = "meldt" /\ a \in t.meldt

Onderweg(a) == \E w \in Werkers : tx[w] # Geen /\ MoetMelden(tx[w], a)

Meld(S, A, T) == bekend' = [a \in Apps |-> IF a \in S THEN Inhoud(A[a], T) ELSE bekend[a]]

-----------------------------------------------------------------------------
(* The Autorisaties API.  *)

\* Mutant: the client ids of others are not looked at.
AltijdUniek(a, ids) == TRUE

\* UniqueClientIDValidator
UniekeIds(a, ids) == \A b \in Apps \ {a} : Er(b) => apps[b].ids \cap ids = {}

\* Mutant: not specifying any is fine.
AlleenDubbel(alle, lijst) == ~(alle /\ lijst # {})

\* ambiguous-authorizations-specified, missing-authorizations
EenVanBeide(alle, lijst) == alle <=> lijst = {}

Lees(w, t) ==
  /\ tx[w] = Geen
  /\ Met(w, t)
  /\ UNCHANGED <<apps, typen, secrets, bekend, beheerd, gelijktijdig, dubbel, stil>>

Post(w, a, alle, ids, lijst) ==
  /\ apps[a].stand = "nieuw" /\ \A v \in Anderen(w) : a \notin tx[v].apps
  /\ UniekeIds(a, ids) /\ EenVanBeide(alle, lijst)
  /\ Lees(w, [Leeg("api", {a}) EXCEPT !.alle = alle, !.ids = ids, !.geeft = TRUE, !.lijst = lijst])

\* Fields that are not given keep what the row has now, or are validated with it.
Patch(w, a, alle, ids, geeft, lijst) ==
  /\ InApi(a)
  /\ ids # apps[a].ids => UniekeIds(a, ids)
  /\ EenVanBeide(alle, IF geeft THEN lijst ELSE apps[a].rijen)
  /\ Lees(w, [Leeg("api", {a}) EXCEPT !.alle = alle, !.ids = ids, !.geeft = geeft, !.lijst = lijst])

\* ApplicatieSerializer.create, update: the whole row is saved, also when it was deleted in
\* the meantime; a given list replaces all autorisaties.
Schrijf(w) ==
  LET t == tx[w]
      a == AppVan(w)
      rij == [stand |-> "er", alle |-> t.alle, ids |-> t.ids,
              rijen |-> IF t.geeft THEN t.lijst ELSE apps[a].rijen,
              cats |-> IF t.geeft THEN {} ELSE apps[a].cats]
  IN /\ t # Geen /\ t.op = "api"
     /\ t.geeft => Slot(w, {a})
     /\ apps' = [apps EXCEPT ![a] = rij]
     /\ secrets' = secrets \cup t.ids
     /\ Meld({a}, apps', typen) /\ stil' = stil \ {a}
     /\ Met(w, Geen) /\ Haalt(w, {a}) /\ Dubbelt(w, t.ids)
     /\ UNCHANGED <<typen, beheerd>>

\* The credentials stay.
Delete(w, a) ==
  /\ tx[w] = Geen /\ InApi(a) /\ Slot(w, {a})
  /\ apps' = [apps EXCEPT ![a] = Weg]
  /\ Haalt(w, {a})
  /\ UNCHANGED <<typen, secrets, bekend, tx, beheerd, dubbel, stil>>

-----------------------------------------------------------------------------
(* The admin.  It saves applicaties and their autorisaties on different pages.  *)

\* JWTSecret.identifier is unique.
BeheerMaakt(w, a, alle, ids) ==
  /\ tx[w] = Geen /\ apps[a].stand = "nieuw" /\ \A v \in Anderen(w) : a \notin tx[v].apps
  /\ ids \cap secrets = {}
  /\ apps' = [apps EXCEPT ![a] = [Nieuw EXCEPT !.stand = "er", !.alle = alle, !.ids = ids]]
  /\ secrets' = secrets \cup ids
  /\ beheerd' = beheerd \cup {a}
  /\ Dubbelt(w, ids)
  /\ UNCHANGED <<typen, bekend, tx, gelijktijdig, stil>>

BeheerLeest(w, a) ==
  /\ Er(a)
  /\ Lees(w, [Leeg("beheer", {a}) EXCEPT !.ids = apps[a].ids])

\* CredentialsBaseFormSet.save: credentials are deleted, added, or get another identifier.
BeheerBewaart(w, alle, eraf, erbij) ==
  LET a == AppVan(w)
      ids == (tx[w].ids \ eraf) \cup erbij
  IN /\ tx[w] # Geen /\ tx[w].op = "beheer"
     /\ eraf \subseteq tx[w].ids \cap secrets /\ erbij \cap secrets = {}
     /\ apps' = [apps EXCEPT ![a] = [@ EXCEPT !.stand = "er", !.alle = alle, !.ids = ids]]
     /\ secrets' = (secrets \ eraf) \cup erbij
     /\ beheerd' = beheerd \cup {a}
     /\ stil' = IF Er(a) THEN stil ELSE stil \cup {a}
     /\ Met(w, Geen) /\ Haalt(w, {a}) /\ Dubbelt(w, ids \cup eraf)
     /\ UNCHANGED <<typen, bekend>>

\* ApplicatieAdmin.delete_model
BeheerWist(w, a) ==
  /\ tx[w] = Geen /\ Er(a) /\ Slot(w, {a})
  /\ apps' = [apps EXCEPT ![a] = Weg]
  /\ secrets' = secrets \ apps[a].ids
  /\ Haalt(w, {a}) /\ Dubbelt(w, apps[a].ids)
  /\ UNCHANGED <<typen, bekend, tx, beheerd, stil>>

\* AutorisatieBaseFormSet.clean: a type has a scope once, and types of a catalogus come one
\* by one or all together.
FormulierGeldig(lijst, cats) ==
  /\ \A r \in lijst : Bestaat(r.type)
  /\ \A r, s \in lijst : r.type = s.type /\ r.leest = s.leest => r = s
  /\ \A c, d \in cats : c.catalogus = d.catalogus => c = d
  /\ \A r \in lijst : Lokaal(r) => \A c \in cats : c.catalogus # CatalogusVan[r.type]

FormulierGaatIn(w, a, lijst, cats) ==
  /\ Er(a) /\ FormulierGeldig(lijst, cats)
  /\ Lees(w, [Leeg("invoer", {a}) EXCEPT !.lijst = lijst, !.cats = cats])

\* old_version
FormulierLeest(w) ==
  /\ tx[w] # Geen /\ tx[w].op = "invoer"
  /\ Met(w, [tx[w] EXCEPT !.op = "formulier", !.oud = Inhoud(apps[AppVan(w)], typen)])
  /\ UNCHANGED <<apps, typen, secrets, bekend, beheerd, gelijktijdig, dubbel, stil>>

\* Mutant: only other types are a change.
ZelfdeTypen(oud, nieuw) ==
  {x[1][1] : x \in oud} = {x[1][1] : x \in nieuw}

\* versions_equivalent
Gelijk(oud, nieuw) == oud = nieuw

\* AutorisatieBaseFormSet.save deletes all autorisaties and makes those of the forms.  They
\* are compared with what was there before.
FormulierBewaart(w) ==
  LET a == AppVan(w)
      nieuw == [apps[a] EXCEPT !.rijen = tx[w].lijst, !.cats = tx[w].cats]
  IN /\ tx[w] # Geen /\ tx[w].op = "formulier"
     /\ Er(a) /\ Slot(w, {a})
     /\ apps' = [apps EXCEPT ![a] = nieuw]
     /\ IF Gelijk(tx[w].oud, Inhoud(nieuw, typen))
        THEN /\ UNCHANGED bekend
             /\ stil' = IF Inhoud(apps[a], typen) = tx[w].oud /\ ~Onderweg(a) THEN stil ELSE stil \cup {a}
        ELSE Meld({a}, apps', typen) /\ stil' = stil \ {a}
     /\ beheerd' = beheerd \cup {a}
     /\ Met(w, Geen) /\ Haalt(w, {a})
     /\ UNCHANGED <<typen, secrets, dubbel>>

-----------------------------------------------------------------------------
(* Types come and go.  *)

\* The type is committed; after that the notifications are sent.
TypeMaakt(w, t) ==
  /\ tx[w] = Geen /\ typen[t] = "nieuw"
  /\ typen' = [typen EXCEPT ![t] = "er"]
  /\ Met(w, [Leeg("sync", {}) EXCEPT !.type = t])
  /\ UNCHANGED <<apps, secrets, bekend, beheerd, gelijktijdig, dubbel, stil>>

\* The request ends when all have been told.
Resteert(w, S) == Met(w, IF S = {} THEN Geen ELSE [tx[w] EXCEPT !.op = "meldt", !.meldt = S])

\* CatalogusAutorisatie.sync looks up whose autorisaties the type extends, ...
Sync(w) ==
  /\ tx[w] # Geen /\ tx[w].op = "sync"
  /\ Resteert(w, MetCatalogus(tx[w].type))
  /\ UNCHANGED <<apps, typen, secrets, bekend, beheerd, gelijktijdig, dubbel, stil>>

\* ... and sends the notifications one after another.
SyncMeldt(w, a) ==
  /\ tx[w] # Geen /\ tx[w].op = "meldt" /\ a \in tx[w].meldt
  /\ Meld({a}, apps, typen) /\ stil' = stil \ {a}
  /\ Resteert(w, tx[w].meldt \ {a})
  /\ UNCHANGED <<apps, typen, secrets, beheerd, gelijktijdig, dubbel>>

\* Autorisatie.objects.filter(zaaktype=url).delete() in the handler of post_delete
TypeWist(w, t) ==
  /\ typen[t] = "er" /\ \A v \in Anderen(w) : tx[v].op = "type_weg" => tx[v].type # t
  /\ Lees(w, [Leeg("type_weg", {a \in Apps : Er(a) /\ \E r \in apps[a].rijen : r.type = t})
                EXCEPT !.type = t])

\* Mutant: the applicaties stay.
GeenWezen(S, rest) == {}

\* apps_to_delete
Wezen(S, rest) == {a \in S : rest[a].rijen = {} /\ ~rest[a].alle /\ rest[a].cats = {}}

\* The handler deletes applicaties that have no autorisaties left, and all is committed.
TypeGewist(w) ==
  LET t == tx[w].type
      rest == [a \in Apps |-> IF a \notin tx[w].apps THEN apps[a]
                              ELSE [apps[a] EXCEPT !.rijen = {r \in @ : r.type # t}]]
      wezen == Wezen(tx[w].apps, rest)
  IN /\ tx[w] # Geen /\ tx[w].op = "type_weg"
     /\ apps' = [a \in Apps |-> IF a \in wezen THEN Weg ELSE rest[a]]
     /\ typen' = [typen EXCEPT ![t] = "weg"]
     /\ stil' = stil \cup tx[w].apps \cup MetCatalogus(t)
     /\ Met(w, Geen) /\ Haalt(w, tx[w].apps)
     /\ UNCHANGED <<secrets, bekend, beheerd, dubbel>>

\* The command sync_autorisaties removes what signal handlers missed.
Opdracht(w) ==
  LET wees(r) == Lokaal(r) /\ ~Bestaat(r.type)
      S == {a \in Apps : Er(a) /\ \E r \in apps[a].rijen : wees(r)}
  IN /\ tx[w] = Geen /\ S # {} /\ Slot(w, S)
     /\ apps' = [a \in Apps |-> IF a \in S
                                THEN [apps[a] EXCEPT !.rijen = {r \in @ : ~wees(r)}]
                                ELSE apps[a]]
     /\ beheerd' = beheerd \cup S /\ stil' = stil \cup S
     /\ Haalt(w, S)
     /\ UNCHANGED <<typen, secrets, bekend, tx, dubbel>>

\* A validator refuses, a unique constraint is violated, PostgreSQL breaks a deadlock, a
\* worker dies.
Afgebroken(w) ==
  /\ tx[w] # Geen
  /\ Met(w, Geen)
  /\ stil' = stil \cup {a \in Apps : MoetMelden(tx[w], a)}
  /\ UNCHANGED <<apps, typen, secrets, bekend, beheerd, gelijktijdig, dubbel>>

-----------------------------------------------------------------------------
(* Which zaken a client sees: a zaak is given by its type and confidentiality.  *)

Zaken == {t \in Typen \cup Extern : Bestaat(t)} \X Niveaus

\* JWTAuth.applicaties
VanClient(c) == {a \in Apps : Er(a) /\ c \in apps[a].ids}
Superuser(c) == \E a \in VanClient(c) : apps[a].alle

\* get_authorizations: those with the scope, for types of this installation and others
MetScope(c) ==
  UNION {{<<a, r>> : r \in {s \in apps[a].rijen : s.leest}} : a \in VanClient(c)}
LokaleUrls(c) == {x \in MetScope(c) : Lokaal(x[2])}

CatsVan(c) == {k \in UNION {apps[a].cats : a \in VanClient(c)} : k.leest}

\* get_resources_for_paths
Objecten(c) == {t \in Typen : typen[t] = "er" /\ \E x \in LokaleUrls(c) : x[2].type = t}

\* Mutant: the last place of a URL in the reverse order.
PlaatsOmgekeerd(c, u) == Cardinality({x \in LokaleUrls(c) : x[2].type >= u})

\* The last place of a URL in sorted(resource_urls)
Plaats(c, u) == Cardinality({x \in LokaleUrls(c) : x[2].type <= u})

\* Every URL has a place in zip(sorted(resource_urls), sorted_objects).
Lukt(c) ==
  Superuser(c) \/ \A x \in LokaleUrls(c) :
    Cardinality({y \in LokaleUrls(c) : y[2].type < x[2].type}) < Cardinality(Objecten(c))

\* loose_fk_object_map: in a dict the last pair with a URL counts.
ObjectVan(c, u) ==
  LET n == Cardinality(Objecten(c))
      p == IF Plaats(c, u) < n THEN Plaats(c, u) ELSE n
  IN CHOOSE t \in Objecten(c) : Cardinality({s \in Objecten(c) : s <= t}) = p

\* va_mapping, of local and of external types: which are listed up to which level
Groepen(c) ==
  {<<ObjectVan(c, x[2].type), x[2].max>> : x \in LokaleUrls(c)}
  \cup {<<x[2].type, x[2].max>> : x \in MetScope(c) \ LokaleUrls(c)}
  \cup UNION {{<<t, k.max>> : t \in {u \in Typen : typen[u] = "er" /\ CatalogusVan[u] = k.catalogus}} :
                 k \in CatsVan(c)}

\* JWTAuth.has_auth for the list as a whole: the scope is there for something.
MagLijst(c) == Superuser(c) \/ MetScope(c) # {} \/ CatsVan(c) # {}

\* filter_for_authorizations.  The filters of the groups are added to an empty one, and an
\* empty filter lists everything.
Lijst(c) ==
  CASE ~MagLijst(c) -> {}
    [] MagLijst(c) /\ (Superuser(c) \/ Groepen(c) = {}) -> Zaken
    [] OTHER -> {z \in Zaken : \E g \in Groepen(c) : z[1] = g[1] /\ z[2] <= g[2]}

\* JWTAuth.has_auth for one zaak: only types of this installation have a catalogus to look at.
MagZien(c, z) ==
  \/ Superuser(c)
  \/ \E a \in VanClient(c) :
       \/ \E r \in apps[a].rijen : r.leest /\ r.type = z[1] /\ z[2] <= r.max
       \/ \E k \in apps[a].cats :
            k.leest /\ (z[1] \in Typen => k.catalogus = CatalogusVan[z[1]]) /\ z[2] <= k.max

-----------------------------------------------------------------------------
ApiNext(w) ==
  \E a \in Apps :
    \/ tx[w] = Geen /\ \E ids \in SUBSET Clients, alle \in BOOLEAN, lijst \in Lijsten :
         \/ Post(w, a, alle, ids, lijst)
         \/ \E geeft \in BOOLEAN :
              (~geeft => lijst = {}) /\ Patch(w, a, alle, ids, geeft, lijst)
    \/ Delete(w, a)

\* Autorisaties for at most one catalogus at a time
CatKeuzes == {{}} \cup {{k} : k \in {c \in CatRij : c.leest}}

BeheerNext(w) ==
  \E a \in Apps :
    \/ \E ids \in SUBSET Clients, alle \in BOOLEAN : BeheerMaakt(w, a, alle, ids)
    \/ BeheerLeest(w, a) \/ BeheerWist(w, a)
    \/ tx[w] = Geen /\ \E lijst \in Lijsten, cats \in CatKeuzes : FormulierGaatIn(w, a, lijst, cats)

Next ==
  \E w \in Werkers :
    \/ ApiNext(w) \/ Schrijf(w)
    \/ BeheerNext(w) \/ FormulierLeest(w) \/ FormulierBewaart(w)
    \/ \E alle \in BOOLEAN, eraf, erbij \in SUBSET Clients : BeheerBewaart(w, alle, eraf, erbij)
    \/ \E t \in Typen : TypeMaakt(w, t) \/ TypeWist(w, t)
    \/ Sync(w) \/ \E a \in Apps : SyncMeldt(w, a)
    \/ TypeGewist(w) \/ Opdracht(w) \/ Afgebroken(w)

Spec == Init /\ [][Next]_vars

-----------------------------------------------------------------------------
Tellingen == SUBSET (((Typen \cup Extern) \X Niveaus \X BOOLEAN) \X Nat)

Applicatie ==
  [stand : {"nieuw", "er", "weg"}, alle : BOOLEAN, ids : SUBSET Clients, rijen : SUBSET Rij,
   cats : SUBSET CatRij]

Verzoek ==
  [op : {"api", "beheer", "invoer", "formulier", "sync", "meldt", "type_weg"}, apps : SUBSET Apps, alle : BOOLEAN,
   ids : SUBSET Clients, geeft : BOOLEAN, lijst : SUBSET Rij, cats : SUBSET CatRij,
   oud : Tellingen, type : Typen \cup {0}, meldt : SUBSET Apps]

ASSUME GeenAssumption == Geen \notin Verzoek

\* Types; what is deleted has no rows left; the rows that another transaction is deleting
\* are still there.
TypeOK ==
  /\ apps \in [Apps -> Applicatie]
  /\ \A a \in Apps : ~Er(a) => apps[a] \in {Nieuw, Weg}
  /\ typen \in [Typen -> {"nieuw", "er", "weg"}]
  /\ secrets \subseteq Clients
  /\ bekend \in [Apps -> Tellingen]
  /\ DOMAIN tx = Werkers /\ \A w \in Werkers : tx[w] = Geen \/ tx[w] \in Verzoek
  /\ \A w \in Werkers : tx[w] # Geen /\ tx[w].op = "type_weg" =>
       /\ typen[tx[w].type] = "er"
       /\ \A a \in tx[w].apps : \E r \in apps[a].rijen : r.type = tx[w].type
  /\ beheerd \subseteq Apps /\ gelijktijdig \subseteq Apps /\ stil \subseteq Apps
  /\ dubbel \subseteq Clients

\* An applicatie is superuser or has autorisaties, so that it is in the API and can be
\* deleted there, whatever happens to the types it has autorisaties for, unless it was
\* written in the admin or by two requests at a time.
BlijftInApi ==
  \A a \in Apps : Er(a) /\ a \notin beheerd \cup gelijktijdig => Geldig(apps[a])

\* A client id belongs to one applicatie and has a credential, as long as no two requests
\* write it at a time.
EenApplicatie ==
  \A a \in Apps : Er(a) =>
    \A c \in apps[a].ids \ dubbel : c \in secrets /\ \A b \in Apps \ {a} : c \notin apps[b].ids

\* All that a client may do is for catalogi, and none of these has a type.
ZonderTypen(c) ==
  /\ ~Superuser(c) /\ MetScope(c) = {} /\ CatsVan(c) # {}
  /\ \A k \in CatsVan(c), t \in Typen : CatalogusVan[t] = k.catalogus => typen[t] # "er"

\* The list of zaken has those that the client can open one by one, but for zaken with a type of
\* another installation when the client has autorisaties for a catalogus.  This is not so only
\* for a client with autorisaties for nothing but catalogi without types.  The list fails only
\* if an autorisatie is for a type that is gone, or for a type that another one is for as well.
LijstKlopt ==
  \A c \in Clients :
    IF Lukt(c)
    THEN LET open == {z \in Zaken : MagZien(c, z)}
         IN \/ ZonderTypen(c)
            \/ /\ Lijst(c) \subseteq open
               /\ \A z \in open \ Lijst(c) : z[1] \in Extern /\ CatsVan(c) # {}
    ELSE \E x \in LokaleUrls(c) :
           ~Bestaat(x[2].type) \/ \E y \in LokaleUrls(c) \ {x} : y[2].type = x[2].type

\* Zaken are in the list only if the client may see them, as the docstring of
\* ZaakAuthorizationsFilterMixin says.  The code lists all zaken to a client with autorisaties
\* for nothing but catalogi without types.
LijstAlleenToegestaan ==
  \A c \in Clients : Lukt(c) => Lijst(c) \subseteq {z \in Zaken : MagZien(c, z)}

\* The last notification of an applicatie tells the autorisaties that it has now, unless a type
\* was deleted, the command ran, or a form was overtaken or brought back what was deleted; for a
\* new type it may still be on its way.
Gemeld ==
  \A a \in Apps : Er(a) =>
    \/ bekend[a] = Inhoud(apps[a], typen)
    \/ a \in stil
    \/ Onderweg(a)
=============================================================================
