------------------------------ MODULE ZaakDossier ------------------------------
(***************************************************************************)
(* What belongs to a zaak and is written with it: its relations with other *)
(* zaken and its roles.  A relation between two zaken of this installation *)
(* has a reverse, which signal handlers make and delete.                   *)
(*                                                                         *)
(* A request is one transaction of several statements.  PostgreSQL runs    *)
(* them READ COMMITTED: a statement sees what is committed and what its    *)
(* own transaction wrote, and waits for another transaction that changed   *)
(* the same row, or inserted a row with the same unique key.               *)
(***************************************************************************)
EXTENDS Integers, FiniteSets, Sequences

CONSTANTS
  Zaken,       \* zaken of this installation
  Extern,      \* zaken of another one
  Soorten,     \* omschrijvingGeneriek of a rol
  Beperkt,     \* those of which a zaak has one at most: initiator, zaakcoordinator
  Geen,        \* no request
  Werkers,     \* requests being served at the same time
  MaxPk        \* bound: primary keys

ASSUME DossierAssumption ==
  /\ MaxPk \in Nat
  /\ Beperkt \subseteq Soorten
  /\ Zaken \cap Extern = {} /\ Zaken \cap Soorten = {} /\ Extern \cap Soorten = {}

VARIABLES
  stand,       \* of each zaak: not made yet, there, or deleted
  rijen,       \* rows of relations and of roles
  tx,          \* the transaction of each request
  pks,         \* primary keys handed out
  herhaald,    \* pairs of zaken related again while a request was removing their relation
  samen,       \* zaken with a rol that was written while another request wrote their roles
  verplaatst   \* zaken that got a rol of another zaak

vars == <<stand, rijen, tx, pks, herhaald, samen, verplaatst>>
merken == <<herhaald, samen, verplaatst>>

-----------------------------------------------------------------------------
\* ZaakRelatie, Rol: a row of a zaak refers to another zaak, or is a rol of some kind.
Rij == [pk : 1..MaxPk, zaak : Zaken, naar : Zaken \cup Extern \cup Soorten]

Relatie(r) == r.naar \in Zaken \cup Extern
Rol(r) == r.naar \in Soorten
Nieuw(z, naar, pk) == [pk |-> pk, zaak |-> z, naar |-> naar]

\* A rol as a client gives it: a new one (0), or one that is there.
Gegeven == [pk : 0..MaxPk, soort : Soorten]

Leeg(op, z) ==
  [op |-> op, zaak |-> z, fase |-> "gelezen", lijst |-> {}, todo |-> {}, rollen |-> <<>>,
   klus |-> {}, bij |-> {}, weg |-> {}]

Init ==
  /\ stand \in [Zaken -> {"nieuw", "er"}]
  /\ rijen = {}
  /\ tx = [w \in Werkers |-> Geen]
  /\ pks = 0
  /\ herhaald = {} /\ samen = {} /\ verplaatst = {}

\* The transactions of others that have written something
Anderen(w) == {v \in Werkers \ {w} : tx[v] # Geen /\ tx[v].fase # "gelezen"}

Pks(S) == {r.pk : r \in S}

\* What the statements of w see
Zicht(w) == {r \in rijen : r.pk \notin tx[w].weg} \cup tx[w].bij
Paar(w, x, y) == {r \in Zicht(w) : r.zaak = x /\ r.naar = y}

Vrij(w, S) == \A v \in Anderen(w) : tx[v].weg \cap Pks(S) = {}

\* zaak_gerelateerde_zaak_unique_together: no other transaction inserts the same pair.
VrijPaar(w, x, y) ==
  \A v \in Anderen(w) : \A r \in tx[v].bij : ~(r.zaak = x /\ r.naar = y)

Met(w, t) == tx' = [tx EXCEPT ![w] = t]
Fase(w, fase) == Met(w, [tx[w] EXCEPT !.fase = fase])

-----------------------------------------------------------------------------
(* Reading and validating. *)

\* A single rol is written without a lock on its zaak.
Overlapt(w, op, Z) ==
  samen' = samen \cup {z \in Z : \E v \in Werkers \ {w} :
             /\ tx[v] # Geen /\ z \in {tx[v].zaak} \cup {r.zaak : r \in tx[v].klus}
             /\ op = "rol" \/ tx[v].op = "rol"}

Lees(w, t, Z) ==
  /\ tx[w] = Geen
  /\ Met(w, t)
  /\ Overlapt(w, t.op, Z)
  /\ UNCHANGED <<stand, rijen, pks, herhaald, verplaatst>>

Onbekend(z) == stand[z] = "nieuw" /\ \A v \in Werkers : tx[v] # Geen => tx[v].zaak # z

PostZaak(w, z, lijst) ==
  /\ Onbekend(z)
  /\ Lees(w, [Leeg("post", z) EXCEPT !.lijst = lijst, !.todo = lijst], {})

PatchZaak(w, z, lijst) ==
  /\ stand[z] = "er"
  /\ Lees(w, [Leeg("patch", z) EXCEPT !.lijst = lijst, !.todo = lijst], {})

DeleteZaak(w, z) == stand[z] = "er" /\ Lees(w, Leeg("delete", z), {})

Registreren(w, z, rollen) ==
  /\ Onbekend(z)
  /\ \A i \in DOMAIN rollen : rollen[i].pk = 0
  /\ Lees(w, [Leeg("registreren", z) EXCEPT !.rollen = rollen], {z})

\* validate_rollen(): the roles are of this zaak and none is named twice.
Bijwerken(w, z, rollen) ==
  /\ stand[z] = "er"
  /\ \A i \in DOMAIN rollen : rollen[i].pk = 0 \/ Nieuw(z, rollen[i].soort, rollen[i].pk) \in rijen
  /\ \A i, j \in DOMAIN rollen : rollen[i].pk # 0 /\ rollen[i].pk = rollen[j].pk => i = j
  /\ Lees(w, [Leeg("bijwerken", z) EXCEPT !.rollen = rollen], {z})

\* Mutant: an off-by-one allows two.
OccurencesPlusOne(z, soort, zicht) ==
  soort \notin Beperkt \/ Cardinality({r \in zicht : r.zaak = z /\ r.naar = soort}) <= 1

\* RolOccurenceValidator
MagErbij(z, soort, zicht) == soort \notin Beperkt \/ \A r \in zicht : ~(r.zaak = z /\ r.naar = soort)

RolPost(w, z, soort) ==
  /\ stand[z] = "er" /\ MagErbij(z, soort, rijen)
  /\ pks < MaxPk
  /\ Lees(w, [Leeg("rol", z) EXCEPT !.rollen = <<[pk |-> 0, soort |-> soort]>>], {z})

\* Mutant: the update makes another row.
RolPutKopie(w, r, z) ==
  /\ r \in rijen /\ Rol(r) /\ stand[z] = "er"
  /\ Lees(w, [Leeg("rol", z) EXCEPT !.klus = {r}, !.bij = {[r EXCEPT !.zaak = z]}], {r.zaak, z})

\* The kind of a rol cannot change; its zaak can, and how many roles that has is not
\* looked at.
RolPut(w, r, z) ==
  /\ r \in rijen /\ Rol(r) /\ stand[z] = "er"
  /\ Lees(w, [Leeg("rol", z) EXCEPT !.klus = {r}, !.bij = {[r EXCEPT !.zaak = z]}, !.weg = {r.pk}],
          {r.zaak, z})

RolDelete(w, r) ==
  /\ r \in rijen /\ Rol(r)
  /\ Lees(w, [Leeg("rol", r.zaak) EXCEPT !.klus = {r}, !.weg = {r.pk}], {r.zaak})

-----------------------------------------------------------------------------
(* The zaak and its relations. *)

Schrijft(w, ops, fase) == tx[w] # Geen /\ tx[w].op \in ops /\ tx[w].fase = fase
Rest == <<stand, rijen, merken>>

\* Mutant: relations are written before the zaak is saved.
OpslaanZonderSlot(w) ==
  /\ Schrijft(w, {"post", "patch", "registreren", "bijwerken"}, "gelezen")
  /\ Met(w, IF tx[w].op \in {"post", "patch"} THEN [tx[w] EXCEPT !.fase = "relaties"]
            ELSE [tx[w] EXCEPT !.fase = "rollen", !.klus = {r \in rijen : Rol(r) /\ r.zaak = tx[w].zaak}])
  /\ UNCHANGED <<Rest, pks>>

\* The zaak is saved first, and its row is locked from then on.
Opslaan(w) ==
  /\ Schrijft(w, {"post", "patch", "registreren", "bijwerken"}, "gelezen")
  /\ \A v \in Anderen(w) : tx[v].zaak # tx[w].zaak \/ tx[v].op = "delete"
  /\ Met(w, IF tx[w].op \in {"post", "patch"} THEN [tx[w] EXCEPT !.fase = "relaties"]
            ELSE [tx[w] EXCEPT !.fase = "rollen", !.klus = {r \in rijen : Rol(r) /\ r.zaak = tx[w].zaak}])
  /\ UNCHANGED <<Rest, pks>>

\* GerelateerdeZaakSerializer.create(): get_or_create
GetOrCreate(w, y) ==
  LET z == tx[w].zaak IN
  /\ Schrijft(w, {"post", "patch"}, "relaties") /\ y \in tx[w].todo
  /\ \/ /\ Paar(w, z, y) # {}
        /\ Met(w, [tx[w] EXCEPT !.todo = @ \ {y}])
        /\ UNCHANGED pks
     \/ /\ Paar(w, z, y) = {} /\ pks < MaxPk
        /\ y \in Zaken => VrijPaar(w, z, y)
        /\ pks' = pks + 1
        /\ LET r == Nieuw(z, y, pks') IN
             Met(w, IF y \in Zaken
                    THEN [tx[w] EXCEPT !.bij = @ \cup {r}, !.fase = "omgekeerd", !.klus = {r}]
                    ELSE [tx[w] EXCEPT !.bij = @ \cup {r}, !.todo = @ \ {y}])
  /\ UNCHANGED Rest

\* create_reverse_zaakrelatie looks whether the reverse exists,
Omgekeerd(w) ==
  /\ Schrijft(w, {"post", "patch"}, "omgekeerd")
  /\ \E r \in tx[w].klus :
       IF Paar(w, r.naar, r.zaak) # {}
       THEN Met(w, [tx[w] EXCEPT !.fase = "relaties", !.todo = @ \ {r.naar}, !.klus = {}])
       ELSE Fase(w, "omgekeerd_insert")
  /\ UNCHANGED <<Rest, pks>>

\* and inserts it.  If it is there by now, the savepoint is rolled back and the relation
\* must be there as well.
OmgekeerdInsert(w) ==
  /\ Schrijft(w, {"post", "patch"}, "omgekeerd_insert")
  /\ \E r \in tx[w].klus :
       LET klaar == [tx[w] EXCEPT !.fase = "relaties", !.todo = @ \ {r.naar}, !.klus = {}] IN
       /\ VrijPaar(w, r.naar, r.zaak) /\ Vrij(w, Paar(w, r.naar, r.zaak))
       /\ \/ /\ Paar(w, r.naar, r.zaak) = {} /\ pks < MaxPk
             /\ pks' = pks + 1
             /\ Met(w, [klaar EXCEPT !.bij = @ \cup {Nieuw(r.naar, r.zaak, pks')}])
          \/ /\ Paar(w, r.naar, r.zaak) # {}
             /\ Met(w, IF Paar(w, r.zaak, r.naar) \ {r} # {}
                       THEN [klaar EXCEPT !.bij = @ \ {r}] ELSE Geen)
             /\ UNCHANGED pks
  /\ UNCHANGED Rest

\* NestedUpdateMixin: the other relations of the zaak are read to be deleted.
Overige(w) ==
  /\ Schrijft(w, {"post", "patch"}, "relaties") /\ tx[w].todo = {}
  /\ Met(w, [tx[w] EXCEPT !.fase = "wissen",
               !.klus = {r \in Zicht(w) : /\ tx[w].op = "patch" /\ Relatie(r)
                                          /\ r.zaak = tx[w].zaak /\ r.naar \notin tx[w].lijst}])
  /\ UNCHANGED <<Rest, pks>>

\* Collector: the relations from and to a zaak, and its roles
Verzamel(w) ==
  /\ Schrijft(w, {"delete"}, "gelezen")
  /\ Met(w, [tx[w] EXCEPT !.fase = "wissen",
               !.klus = {r \in rijen : tx[w].zaak \in {r.zaak, r.naar}}])
  /\ UNCHANGED <<Rest, pks>>

\* The transaction after deleting the rows S that it still sees
Gewist(w, S) ==
  LET D == S \cap Zicht(w) IN
    [tx[w] EXCEPT !.bij = @ \ D, !.weg = @ \cup Pks(D \ tx[w].bij)]

Wis(w) ==
  /\ tx[w] # Geen /\ tx[w].fase = "wissen" /\ Vrij(w, tx[w].klus)
  /\ Met(w, [Gewist(w, tx[w].klus) EXCEPT !.fase = "wis_omgekeerd"])
  /\ UNCHANGED <<Rest, pks>>

\* Mutant: the reverse stays.
OmgekeerdBlijft(w, r) == {}

\* delete_reverse_zaakrelatie
Tegenkant(w, r) == Paar(w, r.naar, r.zaak)

WisOmgekeerd(w) ==
  /\ tx[w] # Geen /\ tx[w].fase = "wis_omgekeerd"
  /\ IF tx[w].klus = {} THEN Fase(w, "klaar")
     ELSE \E r \in tx[w].klus :
            /\ Vrij(w, Tegenkant(w, r))
            /\ Met(w, [Gewist(w, Tegenkant(w, r)) EXCEPT !.klus = @ \ {r}])
  /\ UNCHANGED <<Rest, pks>>

-----------------------------------------------------------------------------
(* Roles, one after the other; klus has those of the zaak that the request did not name  *)
(* yet.  Those that it does not name at all go last; one that is not there, or is now of *)
(* another zaak, ends the request.                                                       *)

RolOpslaan(w) ==
  /\ Schrijft(w, {"registreren", "bijwerken"}, "rollen")
  /\ IF tx[w].rollen = <<>>
     THEN /\ Vrij(w, tx[w].klus)
          /\ Met(w, [Gewist(w, tx[w].klus) EXCEPT !.fase = "klaar", !.klus = {}])
          /\ UNCHANGED pks
     ELSE LET g == Head(tx[w].rollen)
              z == tx[w].zaak
              volgende == [tx[w] EXCEPT !.rollen = Tail(@)]
              oud == {r \in Zicht(w) : r.pk = g.pk}
          IN \/ /\ g.pk = 0 /\ MagErbij(z, g.soort, Zicht(w)) /\ pks < MaxPk
                /\ pks' = pks + 1
                /\ Met(w, [volgende EXCEPT !.bij = @ \cup {Nieuw(z, g.soort, pks')}])
             \/ /\ g.pk \in Pks(tx[w].klus) /\ oud # {} /\ Vrij(w, oud)
                /\ Met(w, [volgende EXCEPT !.bij = @ \cup {Nieuw(z, g.soort, g.pk)},
                                           !.weg = @ \cup {g.pk},
                                           !.klus = {r \in @ : r.pk # g.pk}])
                /\ UNCHANGED pks
             \/ /\ IF g.pk = 0 THEN ~MagErbij(z, g.soort, Zicht(w))
                   ELSE oud = {} \/ g.pk \notin Pks(tx[w].klus)
                /\ Met(w, Geen)
                /\ UNCHANGED pks
  /\ UNCHANGED Rest

-----------------------------------------------------------------------------
(* The end of a request. *)

\* The foreign keys are checked at the end.
Verwijst(w, Z) == \A r \in tx[w].bij : {r.zaak, r.naar} \cap Zaken \subseteq Z

\* Relations with what w makes
Opnieuw(w) ==
  {{r.zaak, r.naar} : r \in {q \in tx[w].bij : \E v \in Werkers \ {w} :
     tx[v] # Geen /\ \E k \in tx[v].klus : {k.zaak, k.naar} = {q.zaak, q.naar}}}

LegVast(w, bij) ==
  /\ rijen' = {r \in rijen : r.pk \notin tx[w].weg} \cup bij
  /\ tx' = [tx EXCEPT ![w] = Geen]

Commit(w) ==
  /\ tx[w] # Geen /\ tx[w].fase = "klaar" /\ tx[w].op # "delete"
  /\ LET er == {z \in Zaken : stand[z] = "er"} \cup {tx[w].zaak} IN
     IF Verwijst(w, er)
     THEN /\ LegVast(w, tx[w].bij)
          /\ stand' = [stand EXCEPT ![tx[w].zaak] = "er"]
          /\ herhaald' = herhaald \cup Opnieuw(w)
     ELSE Met(w, Geen) /\ UNCHANGED <<rijen, stand, herhaald>>
  /\ UNCHANGED <<pks, samen, verplaatst>>

\* The row of the zaak goes last.
CommitDelete(w) ==
  /\ Schrijft(w, {"delete"}, "klaar")
  /\ \A v \in Anderen(w) : tx[v].zaak # tx[w].zaak \/ tx[v].op \in {"delete", "rol"}
  /\ IF \A r \in rijen : tx[w].zaak \in {r.zaak, r.naar} => r.pk \in tx[w].weg
     THEN LegVast(w, {}) /\ stand' = [stand EXCEPT ![tx[w].zaak] = "weg"]
     ELSE Met(w, Geen) /\ UNCHANGED <<rijen, stand>>
  /\ UNCHANGED <<pks, merken>>

\* A rol of its own: an update of a row that is gone inserts it again.
RolSchrijf(w) ==
  /\ Schrijft(w, {"rol"}, "gelezen")
  /\ Vrij(w, tx[w].klus)
  /\ LET nieuw == {Nieuw(tx[w].zaak, tx[w].rollen[i].soort, pks + 1) : i \in DOMAIN tx[w].rollen}
         bij == tx[w].bij \cup nieuw
     IN IF (\A r \in bij : stand[r.zaak] = "er") /\ (nieuw # {} => pks < MaxPk)
        THEN /\ LegVast(w, bij)
             /\ pks' = IF nieuw = {} THEN pks ELSE pks + 1
             /\ verplaatst' = verplaatst \cup
                  {z \in {tx[w].zaak} : \E r \in tx[w].klus : r.zaak # z}
        ELSE Met(w, Geen) /\ UNCHANGED <<rijen, pks, verplaatst>>
  /\ UNCHANGED <<stand, herhaald, samen>>

\* A validator refuses, PostgreSQL breaks a deadlock, a worker dies.
Afgebroken(w) ==
  /\ tx[w] # Geen
  /\ Met(w, Geen)
  /\ UNCHANGED <<Rest, pks>>

-----------------------------------------------------------------------------
\* At most two roles in a request
Rijtjes == {<<>>} \cup {<<g>> : g \in Gegeven} \cup {<<g, h>> : g, h \in Gegeven}

RelatieNext(w) ==
  \/ \E z \in Zaken :
       \/ \E lijst \in SUBSET ((Zaken \cup Extern) \ {z}) : PostZaak(w, z, lijst)
       \/ \E lijst \in SUBSET (Zaken \cup Extern) : PatchZaak(w, z, lijst)
       \/ DeleteZaak(w, z)
  \/ \E y \in Zaken \cup Extern : GetOrCreate(w, y)
  \/ Omgekeerd(w) \/ OmgekeerdInsert(w) \/ Overige(w)

RolNext(w) ==
  \/ \E z \in Zaken :
       \/ tx[w] = Geen /\ \E rollen \in Rijtjes : Registreren(w, z, rollen) \/ Bijwerken(w, z, rollen)
       \/ \E soort \in Soorten : RolPost(w, z, soort)
       \/ \E r \in rijen : RolPut(w, r, z)
  \/ \E r \in rijen : RolDelete(w, r)
  \/ RolOpslaan(w) \/ RolSchrijf(w)

Next ==
  \E w \in Werkers :
    \/ RelatieNext(w) \/ RolNext(w)
    \/ Opslaan(w) \/ Verzamel(w) \/ Wis(w) \/ WisOmgekeerd(w)
    \/ Commit(w) \/ CommitDelete(w) \/ Afgebroken(w)

Spec == Init /\ [][Next]_vars

-----------------------------------------------------------------------------
Verzoek ==
  [op : {"post", "patch", "delete", "registreren", "bijwerken", "rol"}, zaak : Zaken,
   fase : {"gelezen", "relaties", "omgekeerd", "omgekeerd_insert", "rollen", "wissen",
           "wis_omgekeerd", "klaar"},
   lijst : SUBSET (Zaken \cup Extern), todo : SUBSET (Zaken \cup Extern), rollen : Seq(Gegeven),
   klus : SUBSET Rij, bij : SUBSET Rij, weg : SUBSET (1..MaxPk)]

\* Types, and the foreign keys of what is committed.
TypeOK ==
  /\ stand \in [Zaken -> {"nieuw", "er", "weg"}]
  /\ rijen \subseteq Rij
  /\ \A r \in rijen : \A z \in {r.zaak, r.naar} \cap Zaken : stand[z] = "er"
  /\ \A r, s \in rijen : r.pk = s.pk => r = s
  /\ DOMAIN tx = Werkers /\ \A w \in Werkers : tx[w] = Geen \/ tx[w] \in Verzoek
  /\ pks \in 0..MaxPk

\* Two zaken of this installation are related to each other or not at all, however requests
\* interleave, unless they were related again by others while a request was removing their
\* relation.
Wederkerig ==
  \A r \in rijen : r.naar \in Zaken /\ {r.zaak, r.naar} \notin herhaald =>
    \E s \in rijen : s.zaak = r.naar /\ s.naar = r.zaak

\* A zaak has a relation once, also with a zaak of another installation, for which there is
\* no unique constraint.
RelatieEenmaal ==
  \A r, s \in rijen : Relatie(r) /\ r.zaak = s.zaak /\ r.naar = s.naar => r = s

\* A relation between zaken is there once on both sides.
RelatiesHeel == Wederkerig /\ RelatieEenmaal

\* A zaak has one initiator and one zaakcoordinator at most, also when combined requests
\* run at the same time, unless a rol was moved to it or a rol of its own was written meanwhile.
EenRol ==
  \A r, s \in rijen :
    r.naar \in Beperkt /\ r.naar = s.naar /\ r.zaak = s.zaak /\ r # s => r.zaak \in samen \cup verplaatst

\* The same, whatever happens
WederkerigAltijd ==
  \A r \in rijen : r.naar \in Zaken => \E s \in rijen : s.zaak = r.naar /\ s.naar = r.zaak

EenRolAltijd ==
  \A r, s \in rijen : r.naar \in Beperkt /\ r.naar = s.naar /\ r.zaak = s.zaak => r = s
=============================================================================
