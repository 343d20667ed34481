------------------------- MODULE ZaakDossierProofs -------------------------
(***************************************************************************)
(* Proofs about ZaakDossier for any number of zaken, requests, related     *)
(* zaken and roles: its types, that a relation and its reverse come and go *)
(* together and once, and that a zaak has each limited role once.          *)
(***************************************************************************)
EXTENDS ZaakDossier, TLAPS

-----------------------------------------------------------------------------
(* What a request is about. *)

Rolwerk == {"registreren", "bijwerken", "rol"}
Actief == {w \in Werkers : tx[w] # Geen}
Schrijvend(q) == q.fase # "gelezen"

\* s is the reverse of r.
Keert(r, s) == s.zaak = r.naar /\ s.naar = r.zaak

\* The roles that a request names
Genoemde(q) ==
  {Nieuw(q.zaak, q.rollen[i].soort, q.rollen[i].pk) : i \in {j \in DOMAIN q.rollen : q.rollen[j].pk # 0}}

\* The rows that a request knows of, the keys it may use and those it was given itself
Kent(q) == q.klus \cup q.bij \cup Genoemde(q)
Gebruikt(q) == Pks(Kent(q)) \cup q.weg
Eigen(q) == Pks(q.bij) \ q.weg

Bekend == rijen \cup UNION {Kent(tx[w]) : w \in Actief}

\* The relations of a zaak: made one by one, each with its reverse, before others are removed.
VormZaak(q) ==
  /\ q.fase \in {"gelezen", "relaties", "omgekeerd", "omgekeerd_insert", "wissen",
                 "wis_omgekeerd", "klaar"}
  /\ q.todo \subseteq q.lijst /\ q.rollen = <<>>
  /\ \A r \in q.bij :
       /\ Relatie(r) /\ r.pk \notin q.weg
       /\ \/ r.zaak = q.zaak /\ r.naar \in q.lijst
          \/ r.naar = q.zaak /\ r.zaak \in q.lijst /\ \E s \in q.bij : Keert(r, s)
  /\ q.fase = "gelezen" => q.bij = {}
  /\ q.fase \in {"gelezen", "relaties", "klaar"} => q.klus = {}
  /\ q.fase \in {"gelezen", "relaties", "omgekeerd", "omgekeerd_insert"} => q.weg = {}
  /\ q.fase \in {"omgekeerd", "omgekeerd_insert"} =>
       \E r \in q.bij : /\ q.klus = {r} /\ r.zaak = q.zaak /\ r.naar \in Zaken
                        /\ \A s \in q.bij : Keert(r, s) => s = r
  /\ q.fase \in {"wissen", "wis_omgekeerd"} =>
       \A r \in q.klus : r.zaak = q.zaak /\ r.naar \notin q.lijst

VormDelete(q) ==
  /\ q.fase \in {"gelezen", "wissen", "wis_omgekeerd", "klaar"}
  /\ q.bij = {} /\ q.rollen = <<>>
  /\ q.fase \in {"gelezen", "klaar"} => q.klus = {}
  /\ q.fase = "gelezen" => q.weg = {}

\* The roles of a zaak, each named once
VormRollen(q) ==
  /\ q.fase \in {"gelezen", "rollen", "klaar"}
  /\ \A r \in q.bij \cup q.klus : Rol(r) /\ r.zaak = q.zaak
  /\ q.fase = "gelezen" => q.bij = {} /\ q.klus = {} /\ q.weg = {}
  /\ q.fase = "klaar" => q.rollen = <<>> /\ q.klus = {}
  /\ \A i, j \in DOMAIN q.rollen : q.rollen[i].pk # 0 /\ q.rollen[i].pk = q.rollen[j].pk => i = j
  /\ \A i \in DOMAIN q.rollen : q.rollen[i].pk \notin Pks(q.bij)

\* A rol that is made, changed or deleted
VormRol(q) ==
  /\ q.fase = "gelezen"
  /\ \/ /\ q.klus = {} /\ q.bij = {} /\ q.weg = {}
        /\ \E soort \in Soorten : q.rollen = <<[pk |-> 0, soort |-> soort]>>
     \/ /\ q.rollen = <<>>
        /\ \E r \in q.klus :
             /\ q.klus = {r} /\ q.weg = {r.pk} /\ Rol(r)
             /\ q.bij = {[r EXCEPT !.zaak = q.zaak]} \/ (q.bij = {} /\ r.zaak = q.zaak)

Vorm(q) ==
  /\ q \in Verzoek
  /\ q.op \in {"post", "patch"} => VormZaak(q)
  /\ q.op = "delete" => VormDelete(q)
  /\ q.op \in {"registreren", "bijwerken"} => VormRollen(q)
  /\ q.op = "rol" => VormRol(q)

VormInv == \A w \in Actief : Vorm(tx[w])

-----------------------------------------------------------------------------
(* Keys: those that a request was given are its own, and the rows with a   *)
(* key are one relation, or a rol of one kind.                             *)

Sleutels(q, R, n) ==
  /\ Gebruikt(q) \subseteq 1..n
  /\ \A r, s \in q.bij : r.pk = s.pk => r = s
  /\ Eigen(q) \cap Pks(R) = {}

Apart(p, q) == Eigen(p) \cap Gebruikt(q) = {}

SleutelInv ==
  /\ Pks(rijen) \subseteq 1..pks
  /\ \A w \in Actief : Sleutels(tx[w], rijen, pks)
  /\ \A v, w \in Actief : v # w => Apart(tx[v], tx[w])

EenSoort(a, b) == a.pk = b.pk => a.naar = b.naar /\ (Relatie(a) => a = b)

BekendInv ==
  /\ \A a, b \in Bekend : EenSoort(a, b)
  /\ \A w \in Actief : tx[w].op \in Rolwerk => \A a \in Bekend : a.pk \in tx[w].weg => Rol(a)

\* The lock on a zaak
Slot(p, q) ==
  p.zaak = q.zaak /\ Schrijvend(p) /\ Schrijvend(q) => "delete" \in {p.op, q.op}

SlotInv == \A v, w \in Actief : v # w => Slot(tx[v], tx[w])

TypeInv == TypeOK /\ VormInv /\ SleutelInv /\ BekendInv /\ SlotInv

-----------------------------------------------------------------------------
(* What a step of one request does to the rest. *)

Zet(w, q) == tx' = [tx EXCEPT ![w] = q]

LEMMA Na ==
  ASSUME DOMAIN tx = Werkers, NEW w \in Werkers, NEW q, Zet(w, q)
  PROVE  /\ DOMAIN tx' = Werkers /\ tx'[w] = q
         /\ \A v \in Werkers \ {w} : tx'[v] = tx[v] /\ (v \in Actief' <=> v \in Actief)
         /\ w \in Actief' <=> q # Geen
         /\ Actief' \subseteq Werkers
BY DEF Zet, Actief

LEMMA Voorheen ==
  ASSUME TypeInv, NEW w \in Actief
  PROVE  /\ w \in Werkers /\ Vorm(tx[w]) /\ tx[w] \in Verzoek
         /\ Sleutels(tx[w], rijen, pks)
         /\ Kent(tx[w]) \subseteq Bekend
         /\ tx[w].klus \subseteq Bekend /\ tx[w].bij \subseteq Bekend /\ Genoemde(tx[w]) \subseteq Bekend
<1>1. w \in Werkers /\ Vorm(tx[w]) /\ Sleutels(tx[w], rijen, pks)
  BY DEF TypeInv, VormInv, SleutelInv, Actief
<1>2. Kent(tx[w]) \subseteq Bekend
  BY DEF Bekend
<1> QED
  BY <1>1, <1>2 DEF Vorm, Kent

\* The rows that a request knows are rows.
LEMMA KentRijen ==
  ASSUME NEW q \in Verzoek
  PROVE  /\ Kent(q) \subseteq Rij \cup Genoemde(q)
         /\ \A r \in Genoemde(q) : \E i \in DOMAIN q.rollen :
              /\ q.rollen[i] \in Gegeven /\ q.rollen[i].pk \in 1..MaxPk
              /\ r = Nieuw(q.zaak, q.rollen[i].soort, q.rollen[i].pk)
              /\ r \in Rij /\ Rol(r) /\ r.pk = q.rollen[i].pk /\ r.zaak = q.zaak /\ r.naar = q.rollen[i].soort
         /\ Kent(q) \subseteq Rij
<1>1. q.rollen \in Seq(Gegeven) /\ q.zaak \in Zaken /\ q.klus \subseteq Rij /\ q.bij \subseteq Rij
  BY DEF Verzoek
<1>2. ASSUME NEW r \in Genoemde(q)
      PROVE  \E i \in DOMAIN q.rollen :
              /\ q.rollen[i] \in Gegeven /\ q.rollen[i].pk \in 1..MaxPk
              /\ r = Nieuw(q.zaak, q.rollen[i].soort, q.rollen[i].pk)
              /\ r \in Rij /\ Rol(r) /\ r.pk = q.rollen[i].pk /\ r.zaak = q.zaak /\ r.naar = q.rollen[i].soort
  <2>1. PICK i \in DOMAIN q.rollen : q.rollen[i].pk # 0 /\ r = Nieuw(q.zaak, q.rollen[i].soort, q.rollen[i].pk)
    BY DEF Genoemde
  <2>2. q.rollen[i] \in Gegeven
    BY <1>1
  <2>3. q.rollen[i].pk \in 1..MaxPk /\ q.rollen[i].soort \in Soorten
    BY <2>1, <2>2, DossierAssumption DEF Gegeven
  <2> QED
    BY <1>1, <2>1, <2>2, <2>3 DEF Nieuw, Rij, Rol
<1>3. Genoemde(q) \subseteq Rij
  BY <1>2
<1> QED
  BY <1>1, <1>2, <1>3 DEF Kent

LEMMA BekendRijen ==
  ASSUME TypeInv
  PROVE  /\ Bekend \subseteq Rij
         /\ \A a \in Bekend : a.pk \in 1..pks
<1>1. rijen \subseteq Rij /\ Pks(rijen) \subseteq 1..pks
  BY DEF TypeInv, TypeOK, SleutelInv
<1>2. ASSUME NEW w \in Actief
      PROVE  Kent(tx[w]) \subseteq Rij /\ \A a \in Kent(tx[w]) : a.pk \in 1..pks
  <2>1. tx[w] \in Verzoek /\ Sleutels(tx[w], rijen, pks)
    BY Voorheen
  <2>2. Pks(Kent(tx[w])) \subseteq 1..pks
    BY <2>1 DEF Sleutels, Gebruikt
  <2> QED
    BY <2>1, <2>2, KentRijen DEF Pks
<1> QED
  BY <1>1, <1>2 DEF Bekend, Pks

\* Only what w knows changes what is known.
LEMMA BekendNa ==
  ASSUME DOMAIN tx = Werkers, NEW w \in Werkers, NEW q, Zet(w, q), NEW X,
         rijen' \subseteq Bekend \cup X, q # Geen => Kent(q) \subseteq Bekend \cup X
  PROVE  Bekend' \subseteq Bekend \cup X
<1> SUFFICES ASSUME NEW a \in Bekend', a \notin rijen' PROVE a \in Bekend \cup X
  OBVIOUS
<1>1. PICK v \in Actief' : a \in Kent(tx'[v])
  BY DEF Bekend, Kent, Genoemde
<1>2. CASE v = w
  BY <1>1, <1>2, Na
<1>3. CASE v # w
  BY <1>1, <1>3, Na DEF Bekend
<1> QED
  BY <1>2, <1>3

LEMMA StapVorm ==
  ASSUME TypeInv, NEW w \in Werkers, NEW q, Zet(w, q), q # Geen => Vorm(q)
  PROVE  /\ VormInv' /\ DOMAIN tx' = Werkers
         /\ \A v \in Werkers : tx'[v] = Geen \/ tx'[v] \in Verzoek
<1>1. DOMAIN tx = Werkers /\ \A v \in Werkers : tx[v] = Geen \/ tx[v] \in Verzoek
  BY DEF TypeInv, TypeOK
<1>2. /\ DOMAIN tx' = Werkers /\ tx'[w] = q
      /\ \A v \in Werkers \ {w} : tx'[v] = tx[v] /\ (v \in Actief' <=> v \in Actief)
      /\ w \in Actief' <=> q # Geen
      /\ Actief' \subseteq Werkers
  BY <1>1, Na
<1>3. \A v \in Actief : Vorm(tx[v])
  BY DEF TypeInv, VormInv
<1>4. \A v \in Actief' : Vorm(tx'[v])
  BY <1>2, <1>3
<1>5. \A v \in Werkers : tx'[v] = Geen \/ tx'[v] \in Verzoek
  BY <1>1, <1>2 DEF Vorm
<1> QED
  BY <1>2, <1>4, <1>5 DEF VormInv, Vorm, VormZaak, VormDelete, VormRollen, VormRol, Relatie, Rol, Keert, Pks, Verzoek

LEMMA StapSleutels ==
  ASSUME TypeInv, NEW w \in Werkers, NEW q, Zet(w, q), pks' \in Nat, pks <= pks',
         Pks(rijen') \subseteq 1..pks',
         \A v \in Actief \ {w} : Eigen(tx[v]) \cap Pks(rijen') = {},
         q # Geen => /\ Sleutels(q, rijen', pks')
                     /\ \A v \in Actief \ {w} : Apart(tx[v], q) /\ Apart(q, tx[v])
  PROVE  SleutelInv'
<1>1. DOMAIN tx = Werkers /\ pks \in Nat
  BY DossierAssumption DEF TypeInv, TypeOK
<1>2. /\ DOMAIN tx' = Werkers /\ tx'[w] = q
      /\ \A v \in Werkers \ {w} : tx'[v] = tx[v] /\ (v \in Actief' <=> v \in Actief)
      /\ w \in Actief' <=> q # Geen
      /\ Actief' \subseteq Werkers
  BY <1>1, Na
<1>3. \A v \in Actief : Sleutels(tx[v], rijen, pks) /\ \A u \in Actief : u # v => Apart(tx[u], tx[v])
  BY DEF TypeInv, SleutelInv
<1>4. ASSUME NEW v \in Actief' PROVE Sleutels(tx'[v], rijen', pks')
  <2>1. CASE v = w
    BY <1>2, <1>4, <2>1
  <2>2. CASE v # w
    <3>1. v \in Actief /\ tx'[v] = tx[v]
      BY <1>2, <1>4, <2>2
    <3>2. 1..pks \subseteq 1..pks'
      BY <1>1
    <3> QED
      BY <1>3, <2>2, <3>1, <3>2 DEF Sleutels
  <2> QED
    BY <2>1, <2>2
<1>5. ASSUME NEW u \in Actief', NEW v \in Actief', u # v PROVE Apart(tx'[u], tx'[v])
  BY <1>2, <1>3, <1>5
<1> QED
  BY <1>4, <1>5 DEF SleutelInv, Sleutels, Apart, Gebruikt, Eigen, Kent, Genoemde, Pks, Nieuw

LEMMA StapBekend ==
  ASSUME TypeInv, NEW w \in Werkers, NEW q, Zet(w, q), NEW X,
         Bekend' \subseteq Bekend \cup X, \A x, y \in X : x = y,
         \A x \in X : \/ x.pk \notin 1..pks
                      \/ Rol(x) /\ \E b \in Bekend : b.pk = x.pk /\ b.naar = x.naar,
         q # Geen /\ q.op \in Rolwerk => \A k \in q.weg :
            \/ \E b \in Bekend : b.pk = k /\ Rol(b)
            \/ w \in Actief /\ k \in tx[w].weg /\ tx[w].op \in Rolwerk
  PROVE  BekendInv'
<1>1. DOMAIN tx = Werkers /\ pks \in Nat
  BY DossierAssumption DEF TypeInv, TypeOK
<1>2. /\ DOMAIN tx' = Werkers /\ tx'[w] = q
      /\ \A v \in Werkers \ {w} : tx'[v] = tx[v] /\ (v \in Actief' <=> v \in Actief)
      /\ w \in Actief' <=> q # Geen
      /\ Actief' \subseteq Werkers
  BY <1>1, Na
<1>3. /\ \A a, b \in Bekend : EenSoort(a, b)
      /\ \A v \in Actief : tx[v].op \in Rolwerk => \A a \in Bekend : a.pk \in tx[v].weg => Rol(a)
  BY DEF TypeInv, BekendInv
<1>4. \A a \in Bekend : a \in Rij /\ a.pk \in 1..pks
  BY BekendRijen
<1>5. \A a \in Bekend : ~(Rol(a) /\ Relatie(a))
  BY <1>4, DossierAssumption DEF Rol, Relatie
<1>6. ASSUME NEW a \in Bekend', NEW b \in Bekend' PROVE EenSoort(a, b)
  <2>1. CASE a \in Bekend /\ b \in Bekend
    BY <1>3, <2>1
  <2>2. CASE a \in X /\ b \in X
    BY <2>2 DEF EenSoort
  <2>3. CASE a \in Bekend /\ b \in X
    <3>1. CASE b.pk \notin 1..pks
      BY <1>4, <2>3, <3>1 DEF EenSoort
    <3>2. CASE Rol(b) /\ \E c \in Bekend : c.pk = b.pk /\ c.naar = b.naar
      <4>1. PICK c \in Bekend : c.pk = b.pk /\ c.naar = b.naar
        BY <3>2
      <4>2. Rol(c)
        BY <3>2, <4>1 DEF Rol
      <4>3. EenSoort(a, c)
        BY <1>3, <2>3, <4>1
      <4> QED
        BY <1>5, <2>3, <4>1, <4>2, <4>3 DEF EenSoort, Rol
    <3> QED
      BY <2>3, <3>1, <3>2
  <2>4. CASE a \in X /\ b \in Bekend
    <3>1. CASE a.pk \notin 1..pks
      BY <1>4, <2>4, <3>1 DEF EenSoort
    <3>2. CASE Rol(a) /\ \E c \in Bekend : c.pk = a.pk /\ c.naar = a.naar
      <4>1. PICK c \in Bekend : c.pk = a.pk /\ c.naar = a.naar
        BY <3>2
      <4>2. Rol(c) /\ (Relatie(a) => Relatie(c))
        BY <3>2, <4>1 DEF Rol, Relatie
      <4>3. EenSoort(c, b)
        BY <1>3, <2>4, <4>1
      <4> QED
        BY <1>5, <2>4, <4>1, <4>2, <4>3 DEF EenSoort, Rol
    <3> QED
      BY <2>4, <3>1, <3>2
  <2> QED
    BY <1>6, <2>1, <2>2, <2>3, <2>4
<1>7. ASSUME NEW v \in Actief', tx'[v].op \in Rolwerk, NEW a \in Bekend', a.pk \in tx'[v].weg
      PROVE  Rol(a)
  <2>1. ASSUME NEW b \in Bekend, b.pk = a.pk, Rol(b) PROVE Rol(a)
    <3>1. CASE a \in Bekend
      BY <1>3, <2>1, <3>1 DEF EenSoort, Rol
    <3>2. CASE a \in X
      BY <1>4, <2>1, <3>2
    <3> QED
      BY <1>7, <3>1, <3>2
  <2>2. ASSUME NEW u \in Actief, tx[u].op \in Rolwerk, a.pk \in tx[u].weg PROVE Rol(a)
    <3>1. tx[u].weg \subseteq 1..pks
      BY DEF TypeInv, SleutelInv, Sleutels, Gebruikt
    <3> QED
      BY <1>3, <1>7, <2>2, <3>1
  <2>3. CASE v = w
    BY <1>2, <1>7, <2>1, <2>2, <2>3
  <2>4. CASE v # w
    BY <1>2, <1>7, <2>2, <2>4
  <2> QED
    BY <2>3, <2>4
<1> QED
  BY <1>6, <1>7 DEF BekendInv, EenSoort, Rol, Relatie

LEMMA StapSlot ==
  ASSUME TypeInv, NEW w \in Werkers, NEW q, Zet(w, q),
         q # Geen => \A v \in Actief \ {w} : Slot(tx[v], q)
  PROVE  SlotInv'
<1>1. DOMAIN tx = Werkers
  BY DEF TypeInv, TypeOK
<1>2. /\ DOMAIN tx' = Werkers /\ tx'[w] = q
      /\ \A v \in Werkers \ {w} : tx'[v] = tx[v] /\ (v \in Actief' <=> v \in Actief)
      /\ w \in Actief' <=> q # Geen
      /\ Actief' \subseteq Werkers
  BY <1>1, Na
<1>3. \A u, v \in Actief : u # v => Slot(tx[u], tx[v])
  BY DEF TypeInv, SlotInv
<1>4. ASSUME NEW u \in Actief', NEW v \in Actief', u # v PROVE Slot(tx'[u], tx'[v])
  <2>1. Slot(tx'[u], tx'[v]) <=> Slot(tx'[v], tx'[u])
    BY DEF Slot
  <2> QED
    BY <1>2, <1>3, <1>4, <2>1
<1> QED
  BY <1>4 DEF SlotInv, Slot, Schrijvend

\* A request q that goes on from p, with a new row in X or none: it keeps what it knew and
\* adds rows that are there.
Verder(p, q, X) ==
  /\ q.op = p.op /\ q.zaak = p.zaak
  /\ Kent(q) \subseteq Kent(p) \cup rijen \cup X
  /\ \A r \in q.bij : r \in p.bij \/ r \in X \/ r.pk \in q.weg
  /\ \A r, s \in q.bij : r.pk = s.pk => r = s
  /\ p.weg \subseteq q.weg
  /\ \A k \in q.weg \ p.weg : \E b \in rijen : b.pk = k /\ (q.op \in Rolwerk => Rol(b))

\* A new row gets the next key.
Vers(X) ==
  \/ X = {} /\ pks' = pks
  \/ \E f \in Rij : X = {f} /\ f.pk = pks + 1 /\ pks' = pks + 1

LEMMA Voortgang ==
  ASSUME TypeInv, NEW w \in Actief, NEW q, NEW X, Zet(w, q), stand' = stand, rijen' = rijen,
         Vorm(q), Verder(tx[w], q, X), Vers(X),
         \/ Schrijvend(tx[w]) \/ ~Schrijvend(q)
         \/ \A v \in Actief \ {w} : Slot(tx[v], q)
  PROVE  TypeInv'
<1> USE DossierAssumption
<1>1. PICK p : p = tx[w]
  OBVIOUS
<1>2. /\ w \in Werkers /\ p \in Verzoek /\ Sleutels(p, rijen, pks) /\ Kent(p) \subseteq Bekend
      /\ q \in Verzoek
  BY <1>1, Voorheen DEF Vorm
<1>3. /\ pks \in Nat /\ rijen \subseteq Rij /\ Pks(rijen) \subseteq 1..pks
      /\ \A a \in Bekend : a \in Rij /\ a.pk \in 1..pks
  BY BekendRijen DEF TypeInv, TypeOK, SleutelInv
<1>4. pks' \in 0..MaxPk /\ pks <= pks' /\ pks' \in Nat
  BY <1>3 DEF Vers, Rij, TypeInv, TypeOK
<1>5. \A x \in X : x \in Rij /\ x.pk = pks' /\ x.pk \notin 1..pks
  BY <1>3 DEF Vers
<1>6. rijen \subseteq Bekend
  BY DEF Bekend
<1>7. \A v \in Actief \ {w} : Apart(tx[v], p) /\ Apart(p, tx[v]) /\ Sleutels(tx[v], rijen, pks)
  BY <1>1 DEF TypeInv, SleutelInv
<1>8. VormInv' /\ DOMAIN tx' = Werkers /\ \A v \in Werkers : tx'[v] = Geen \/ tx'[v] \in Verzoek
  BY <1>2, StapVorm
<1>9. q.weg \subseteq p.weg \cup Pks(rijen)
  BY <1>1 DEF Verder, Pks
<1>10. ASSUME NEW k \in Eigen(q) PROVE k \in Eigen(p) \/ (k = pks' /\ k \notin 1..pks)
  <2>1. PICK r \in q.bij : r.pk = k /\ k \notin q.weg
    BY <1>10 DEF Eigen, Pks
  <2>2. r \in p.bij \/ r \in X
    BY <1>1, <2>1 DEF Verder
  <2> QED
    BY <1>1, <1>5, <2>1, <2>2 DEF Verder, Eigen, Pks
<1>11. ASSUME NEW k \in Gebruikt(q)
       PROVE  k \in Gebruikt(p) \/ k \in Pks(rijen) \/ (k = pks' /\ k \notin 1..pks)
  <2>1. CASE k \in q.weg
    BY <1>9, <2>1 DEF Gebruikt
  <2>2. CASE k \notin q.weg
    <3>1. PICK r \in Kent(q) : r.pk = k
      BY <1>11, <2>2 DEF Gebruikt, Pks
    <3>2. r \in Kent(p) \/ r \in rijen \/ r \in X
      BY <1>1, <3>1 DEF Verder
    <3> QED
      BY <1>5, <3>1, <3>2 DEF Gebruikt, Pks
  <2> QED
    BY <2>1, <2>2
<1>12. pks' \in 1..pks' \/ X = {}
  BY <1>3, <1>4 DEF Vers
<1>13. Sleutels(q, rijen', pks')
  <2>1. Gebruikt(q) \subseteq 1..pks'
    <3>1. Gebruikt(p) \subseteq 1..pks /\ 1..pks \subseteq 1..pks'
      BY <1>2, <1>3, <1>4 DEF Sleutels
    <3>2. ASSUME NEW k \in Gebruikt(q), k \notin 1..pks PROVE k \in 1..pks'
      <4>1. CASE k \in q.weg
        BY <1>3, <1>9, <3>1, <3>2, <4>1 DEF Gebruikt
      <4>2. CASE k \notin q.weg
        <5>1. PICK r \in Kent(q) : r.pk = k
          BY <3>2, <4>2 DEF Gebruikt, Pks
        <5>2. r \in X
          BY <1>1, <1>2, <1>3, <1>6, <3>2, <5>1 DEF Verder
        <5> QED
          BY <1>5, <1>12, <5>1, <5>2
      <4> QED
        BY <4>1, <4>2
    <3> QED
      BY <3>1, <3>2
  <2>2. \A r, s \in q.bij : r.pk = s.pk => r = s
    BY <1>1 DEF Verder
  <2>3. Eigen(q) \cap Pks(rijen') = {}
    BY <1>2, <1>3, <1>10 DEF Sleutels
  <2> QED
    BY <2>1, <2>2, <2>3 DEF Sleutels
<1>14. ASSUME NEW v \in Actief \ {w} PROVE Apart(tx[v], q) /\ Apart(q, tx[v])
  <2>1. Eigen(tx[v]) \subseteq 1..pks /\ Gebruikt(tx[v]) \subseteq 1..pks
    BY <1>7 DEF Sleutels, Gebruikt, Eigen, Kent, Pks
  <2>2. Eigen(tx[v]) \cap Gebruikt(q) = {}
    BY <1>7, <1>11, <2>1 DEF Apart, Sleutels
  <2>3. Eigen(q) \cap Gebruikt(tx[v]) = {}
    BY <1>7, <1>10, <2>1 DEF Apart
  <2> QED
    BY <2>2, <2>3 DEF Apart
<1>15. SleutelInv'
  <2>1. Pks(rijen') \subseteq 1..pks'
    BY <1>3, <1>4
  <2>2. \A v \in Actief \ {w} : Eigen(tx[v]) \cap Pks(rijen') = {}
    BY <1>7 DEF Sleutels
  <2> QED
    BY <1>2, <1>3, <1>4, <1>13, <1>14, <2>1, <2>2, StapSleutels
<1>16. Bekend' \subseteq Bekend \cup X
  <2>1. rijen' \subseteq Bekend \cup X
    BY <1>6
  <2>2. Kent(q) \subseteq Bekend \cup X
    BY <1>1, <1>2, <1>6 DEF Verder
  <2>3. DOMAIN tx = Werkers
    BY DEF TypeInv, TypeOK
  <2> QED
    BY <1>2, <2>1, <2>2, <2>3, BekendNa
<1>17. BekendInv'
  <2>1. \A x, y \in X : x = y
    BY DEF Vers
  <2>2. ASSUME q.op \in Rolwerk, NEW k \in q.weg
        PROVE  (\E b \in Bekend : b.pk = k /\ Rol(b)) \/ (k \in tx[w].weg /\ tx[w].op \in Rolwerk)
    BY <1>1, <1>6, <2>2 DEF Verder
  <2> QED
    BY <1>2, <1>5, <1>16, <2>1, <2>2, StapBekend
<1>18. SlotInv'
  <2>1. \A v \in Actief \ {w} : Slot(tx[v], p)
    BY <1>1 DEF TypeInv, SlotInv
  <2>2. q.op = p.op /\ q.zaak = p.zaak
    BY <1>1 DEF Verder
  <2>3. ASSUME NEW v \in Actief \ {w} PROVE Slot(tx[v], q)
    BY <1>1, <2>1, <2>2, <2>3 DEF Slot
  <2> QED
    BY <1>2, <2>3, StapSlot
<1>19. TypeOK'
  BY <1>4, <1>8 DEF TypeInv, TypeOK
<1> QED
  BY <1>8, <1>15, <1>17, <1>18, <1>19 DEF TypeInv

\* A request q that begins, and names rows that are there: X has a rol that it moves.
LEMMA Begin ==
  ASSUME TypeInv, NEW w \in Werkers, tx[w] = Geen, NEW q, NEW X, Zet(w, q),
         stand' = stand, rijen' = rijen, pks' = pks,
         Vorm(q), ~Schrijvend(q),
         \A x, y \in X : x = y,
         \A x \in X : Rol(x) /\ \E b \in rijen : b.pk = x.pk /\ b.naar = x.naar,
         Kent(q) \subseteq rijen \cup X,
         \A r \in q.bij : r \in X /\ r.pk \in q.weg,
         \A k \in q.weg : \E b \in rijen : b.pk = k /\ Rol(b)
  PROVE  TypeInv'
<1> USE DossierAssumption
<1>1. /\ pks \in Nat /\ rijen \subseteq Rij /\ Pks(rijen) \subseteq 1..pks
      /\ \A a \in Bekend : a \in Rij /\ a.pk \in 1..pks
  BY BekendRijen DEF TypeInv, TypeOK, SleutelInv
<1>2. rijen \subseteq Bekend /\ DOMAIN tx = Werkers
  BY DEF Bekend, TypeInv, TypeOK
<1>3. VormInv' /\ DOMAIN tx' = Werkers /\ \A v \in Werkers : tx'[v] = Geen \/ tx'[v] \in Verzoek
  BY StapVorm
<1>4. Eigen(q) = {}
  BY DEF Eigen, Pks
<1>5. Gebruikt(q) \subseteq Pks(rijen)
  BY DEF Gebruikt, Pks
<1>6. SleutelInv'
  <2>1. \A v \in Actief : Sleutels(tx[v], rijen, pks)
    BY DEF TypeInv, SleutelInv
  <2>2. \A r, s \in q.bij : r.pk = s.pk => r = s
    OBVIOUS
  <2>3. Sleutels(q, rijen', pks')
    BY <1>1, <1>4, <1>5, <2>2 DEF Sleutels
  <2>4. \A v \in Actief \ {w} : Apart(tx[v], q) /\ Apart(q, tx[v])
    BY <1>4, <1>5, <2>1 DEF Apart, Sleutels
  <2>5. \A v \in Actief \ {w} : Eigen(tx[v]) \cap Pks(rijen') = {}
    BY <2>1 DEF Sleutels
  <2> QED
    BY <1>1, <2>3, <2>4, <2>5, StapSleutels
<1>7. BekendInv'
  <2>1. Bekend' \subseteq Bekend \cup X
    <3>1. rijen' \subseteq Bekend \cup X /\ Kent(q) \subseteq Bekend \cup X
      BY <1>2
    <3> QED
      BY <1>2, <3>1, BekendNa
  <2>2. \A x \in X : Rol(x) /\ \E b \in Bekend : b.pk = x.pk /\ b.naar = x.naar
    BY <1>2
  <2>3. \A k \in q.weg : \E b \in Bekend : b.pk = k /\ Rol(b)
    BY <1>2
  <2> QED
    BY <2>1, <2>2, <2>3, StapBekend
<1>8. SlotInv'
  BY StapSlot DEF Slot
<1>9. TypeOK'
  BY <1>3 DEF TypeInv, TypeOK
<1> QED
  BY <1>3, <1>6, <1>7, <1>8, <1>9 DEF TypeInv

\* A request that ends without a trace.
LEMMA Einde ==
  ASSUME TypeInv, NEW w \in Werkers, Zet(w, Geen), stand' = stand, rijen' = rijen, pks' = pks
  PROVE  TypeInv'
<1> USE DossierAssumption
<1>1. pks \in Nat /\ Pks(rijen) \subseteq 1..pks /\ DOMAIN tx = Werkers /\ rijen \subseteq Bekend
  BY DEF TypeInv, TypeOK, SleutelInv, Bekend
<1>2. VormInv' /\ DOMAIN tx' = Werkers /\ \A v \in Werkers : tx'[v] = Geen \/ tx'[v] \in Verzoek
  BY StapVorm
<1>3. SleutelInv'
  <2>1. \A v \in Actief \ {w} : Eigen(tx[v]) \cap Pks(rijen') = {}
    BY DEF TypeInv, SleutelInv, Sleutels
  <2> QED
    BY <1>1, <2>1, StapSleutels
<1>4. BekendInv'
  <2>1. Bekend' \subseteq Bekend \cup {}
    BY <1>1, BekendNa
  <2> QED
    BY <2>1, StapBekend
<1>5. SlotInv'
  BY StapSlot
<1>6. TypeOK'
  BY <1>2 DEF TypeInv, TypeOK
<1> QED
  BY <1>2, <1>3, <1>4, <1>5, <1>6 DEF TypeInv

\* A request that ends with a commit, of the rows it made and a new rol in X or none.
LEMMA NaCommit ==
  ASSUME TypeInv, NEW w \in Actief, NEW X, Zet(w, Geen),
         rijen' = {r \in rijen : r.pk \notin tx[w].weg} \cup tx[w].bij \cup X,
         stand' \in [Zaken -> {"nieuw", "er", "weg"}],
         \A r \in rijen' : \A z \in {r.zaak, r.naar} \cap Zaken : stand'[z] = "er",
         Vers(X)
  PROVE  TypeInv'
<1> USE DossierAssumption
<1>1. PICK p : p = tx[w]
  OBVIOUS
<1>2. w \in Werkers /\ p \in Verzoek /\ Sleutels(p, rijen, pks) /\ p.bij \subseteq Bekend
  BY <1>1, Voorheen
<1>3. /\ pks \in Nat /\ rijen \subseteq Rij /\ Pks(rijen) \subseteq 1..pks
      /\ \A a \in Bekend : a \in Rij /\ a.pk \in 1..pks
  BY BekendRijen DEF TypeInv, TypeOK, SleutelInv
<1>4. pks' \in 0..MaxPk /\ pks <= pks' /\ pks' \in Nat
  BY <1>3 DEF Vers, Rij, TypeInv, TypeOK
<1>5. \A x \in X : x \in Rij /\ x.pk = pks' /\ x.pk \notin 1..pks /\ pks' \in 1..pks'
  BY <1>3 DEF Vers
<1>6. rijen \subseteq Bekend /\ DOMAIN tx = Werkers
  BY DEF Bekend, TypeInv, TypeOK
<1>7. VormInv' /\ DOMAIN tx' = Werkers /\ \A v \in Werkers : tx'[v] = Geen \/ tx'[v] \in Verzoek
  BY <1>2, StapVorm
<1>8. \A r \in rijen' : r \in Rij /\ (r \in Bekend \/ r \in X)
  BY <1>1, <1>2, <1>3, <1>5, <1>6
<1>9. ASSUME NEW r \in rijen', NEW s \in rijen', r.pk = s.pk PROVE r = s
  <2>1. CASE r \in X \/ s \in X
    BY <1>3, <1>5, <1>8, <1>9, <2>1 DEF Vers
  <2>2. CASE r \in rijen /\ s \in rijen
    BY <1>9, <2>2 DEF TypeInv, TypeOK
  <2>3. CASE r \in p.bij /\ s \in p.bij
    BY <1>2, <1>9, <2>3 DEF Sleutels
  <2>4. ASSUME NEW a \in rijen, a.pk \notin p.weg, NEW b \in p.bij PROVE a.pk # b.pk
    BY <1>2, <2>4 DEF Sleutels, Eigen, Pks
  <2> QED
    BY <1>1, <1>9, <2>1, <2>2, <2>3, <2>4
<1>10. SleutelInv'
  <2>1. Pks(rijen') \subseteq 1..pks'
    BY <1>3, <1>4, <1>5, <1>8 DEF Pks
  <2>2. ASSUME NEW v \in Actief \ {w} PROVE Eigen(tx[v]) \cap Pks(rijen') = {}
    <3>1. Apart(tx[v], p) /\ Sleutels(tx[v], rijen, pks)
      BY <1>1 DEF TypeInv, SleutelInv
    <3>2. Eigen(tx[v]) \subseteq 1..pks
      BY <3>1 DEF Sleutels, Gebruikt, Eigen, Kent, Pks
    <3>3. Pks(p.bij) \subseteq Gebruikt(p)
      BY DEF Gebruikt, Kent, Pks
    <3>4. ASSUME NEW r \in rijen' PROVE r.pk \notin Eigen(tx[v])
      <4>1. CASE r \in rijen
        BY <3>1, <4>1 DEF Sleutels, Pks
      <4>2. CASE r \in p.bij
        BY <3>1, <3>3, <4>2 DEF Apart, Pks
      <4>3. CASE r \in X
        BY <1>5, <3>2, <4>3
      <4> QED
        BY <1>1, <4>1, <4>2, <4>3
    <3> QED
      BY <3>4 DEF Pks
  <2> QED
    BY <1>2, <1>3, <1>4, <2>1, <2>2, StapSleutels
<1>11. BekendInv'
  <2>1. Bekend' \subseteq Bekend \cup X
    BY <1>2, <1>6, <1>8, BekendNa
  <2>2. \A x, y \in X : x = y
    BY DEF Vers
  <2> QED
    BY <1>2, <1>5, <2>1, <2>2, StapBekend
<1>12. SlotInv'
  BY <1>2, StapSlot
<1>13. TypeOK'
  <2>1. rijen' \subseteq Rij
    BY <1>8
  <2> QED
    BY <1>4, <1>7, <1>9, <2>1 DEF TypeInv, TypeOK
<1> QED
  BY <1>7, <1>10, <1>11, <1>12, <1>13 DEF TypeInv

-----------------------------------------------------------------------------
(* Relations: each is written once, and, unless requests related its zaken *)
(* again while it was removed, goes and comes with its reverse.            *)

Dezelfde(a, b) == a.zaak = b.zaak /\ a.naar = b.naar
Geschreven == rijen \cup UNION {tx[w].bij : w \in Actief}
Uniek == \A a, b \in Geschreven : Relatie(a) /\ Dezelfde(a, b) => a = b

Ongestoord(r, H) == r.naar \in Zaken /\ {r.zaak, r.naar} \notin H

\* What a request makes has its reverse, or is about to get it, and was not there.
Maakt(q, R, H) ==
  \A r \in q.bij : Ongestoord(r, H) =>
    /\ \/ \E s \in q.bij : Keert(r, s)
       \/ q.fase \in {"omgekeerd", "omgekeerd_insert"} /\ q.klus = {r}
    /\ \A s \in R : ~Keert(r, s)

\* What a request removes goes with its reverse, or the reverse is about to go; what another
\* removed before went with its reverse.
Verwijdert(q, R, H) ==
  /\ \A r, s \in R : Ongestoord(r, H) /\ Keert(r, s) /\ r.pk \in q.weg =>
       s.pk \in q.weg \/ (q.fase = "wis_omgekeerd" /\ r \in q.klus)
  /\ q.fase \in {"wissen", "wis_omgekeerd"} =>
       \A r \in q.klus : Ongestoord(r, H) =>
         IF r \in R THEN q.fase = "wis_omgekeerd" => r.pk \in q.weg
         ELSE \A s \in R : ~Dezelfde(r, s) /\ ~Keert(r, s)

RelatieInv ==
  Uniek /\ Wederkerig /\ \A w \in Actief : Maakt(tx[w], rijen, herhaald) /\ Verwijdert(tx[w], rijen, herhaald)

\* A request that writes roles has nothing to do with relations.
LEMMA RolwerkMaakt ==
  ASSUME TypeInv, NEW q, Vorm(q), q.op \in Rolwerk
  PROVE  /\ \A r \in q.bij : Rol(r) /\ ~Relatie(r)
         /\ Maakt(q, rijen, herhaald)
<1> USE DossierAssumption
<1>1. \A r \in q.bij : Rol(r)
  <2>1. CASE q.op = "rol"
    <3>1. VormRol(q)
      BY <2>1 DEF Vorm
    <3>2. q.zaak \in Zaken /\ q.klus \subseteq Rij
      BY DEF Vorm, Verzoek
    <3> QED
      BY <3>1, <3>2 DEF VormRol, Rol, Rij
  <2>2. CASE q.op # "rol"
    BY <2>2 DEF Vorm, VormRollen, Rolwerk
  <2> QED
    BY <2>1, <2>2
<1>2. \A r \in q.bij : ~Relatie(r)
  BY <1>1 DEF Rol, Relatie
<1>3. \A r \in q.bij : ~Ongestoord(r, herhaald)
  BY <1>2 DEF Ongestoord, Relatie
<1> QED
  BY <1>1, <1>2, <1>3 DEF Maakt

LEMMA RolwerkVerwijdert ==
  ASSUME TypeInv, NEW w \in Werkers, NEW q, Vorm(q), q.op \in Rolwerk,
         \A k \in q.weg : \/ \E b \in rijen : b.pk = k /\ Rol(b)
                          \/ w \in Actief /\ k \in tx[w].weg /\ tx[w].op \in Rolwerk
  PROVE  Verwijdert(q, rijen, herhaald)
<1> USE DossierAssumption
<1>1. q.fase \notin {"wissen", "wis_omgekeerd"}
  BY DEF Vorm, VormRollen, VormRol, Rolwerk
<1>2. ASSUME NEW r \in rijen, r.pk \in q.weg PROVE Rol(r)
  <2>1. ASSUME NEW b \in rijen, b.pk = r.pk, Rol(b) PROVE Rol(r)
    BY <2>1 DEF TypeInv, TypeOK
  <2>2. ASSUME w \in Actief, r.pk \in tx[w].weg, tx[w].op \in Rolwerk PROVE Rol(r)
    BY <2>2 DEF TypeInv, BekendInv, Bekend
  <2> QED
    BY <1>2, <2>1, <2>2
<1>3. \A r \in rijen : Ongestoord(r, herhaald) => ~Rol(r)
  BY DEF Ongestoord, Rol
<1> QED
  BY <1>1, <1>2, <1>3 DEF Verwijdert

\* A step that leaves the rows: what is written before the commit stays unique.
LEMMA StapRelaties ==
  ASSUME TypeInv, RelatieInv, NEW w \in Werkers, NEW q, NEW X, Zet(w, q),
         rijen' = rijen, herhaald' = herhaald,
         q # Geen => /\ \A r \in q.bij : Relatie(r) => (w \in Actief /\ r \in tx[w].bij) \/ r \in X
                     /\ Maakt(q, rijen, herhaald) /\ Verwijdert(q, rijen, herhaald),
         \A x, y \in X : x = y,
         \A x \in X : Relatie(x) => \A a \in Geschreven : ~Dezelfde(x, a)
  PROVE  RelatieInv'
<1>1. DOMAIN tx = Werkers
  BY DEF TypeInv, TypeOK
<1>2. /\ DOMAIN tx' = Werkers /\ tx'[w] = q
      /\ \A v \in Werkers \ {w} : tx'[v] = tx[v] /\ (v \in Actief' <=> v \in Actief)
      /\ w \in Actief' <=> q # Geen
      /\ Actief' \subseteq Werkers
  BY <1>1, Na
<1>3. \A v \in Actief' : Maakt(tx'[v], rijen, herhaald) /\ Verwijdert(tx'[v], rijen, herhaald)
  BY <1>2 DEF RelatieInv
<1>4. \A v \in Actief' : Maakt(tx'[v], rijen', herhaald') /\ Verwijdert(tx'[v], rijen', herhaald')
  BY <1>3
<1>5. ASSUME NEW a \in Geschreven', Relatie(a) PROVE a \in Geschreven \/ a \in X
  <2>1. CASE a \in rijen
    BY <2>1 DEF Geschreven
  <2>2. CASE a \notin rijen
    <3>1. PICK v \in Actief' : a \in tx'[v].bij
      BY <1>5, <2>2 DEF Geschreven
    <3> QED
      BY <1>2, <1>5, <3>1 DEF Geschreven
  <2> QED
    BY <2>1, <2>2
<1>6. ASSUME NEW a \in Geschreven', NEW b \in Geschreven', Relatie(a), Dezelfde(a, b) PROVE a = b
  <2>1. Relatie(b)
    BY <1>6 DEF Relatie, Dezelfde
  <2>2. Dezelfde(b, a)
    BY <1>6 DEF Dezelfde
  <2> QED
    BY <1>5, <1>6, <2>1, <2>2 DEF RelatieInv, Uniek
<1>7. Uniek'
  BY <1>6 DEF Uniek, Relatie, Dezelfde
<1>8. Wederkerig'
  <2>1. Wederkerig
    BY DEF RelatieInv
  <2> QED
    BY <2>1 DEF Wederkerig
<1> QED
  BY <1>4, <1>7, <1>8 DEF RelatieInv, Maakt, Verwijdert, Ongestoord, Keert, Dezelfde

LEMMA EindeRelaties ==
  ASSUME TypeInv, RelatieInv, NEW w \in Werkers, Zet(w, Geen), rijen' = rijen, herhaald' = herhaald
  PROVE  RelatieInv'
<1>1. PICK X : X = {}
  OBVIOUS
<1>2. \A x \in X : x \notin X
  BY <1>1
<1> QED
  BY <1>2, StapRelaties

\* After a commit what is there is paired, and so is what others are about to make or remove.
LEMMA CommitRelaties ==
  ASSUME TypeInv, RelatieInv, NEW w \in Actief, NEW X, Zet(w, Geen),
         rijen' = {r \in rijen : r.pk \notin tx[w].weg} \cup tx[w].bij \cup X,
         \A x \in X : Rol(x),
         herhaald \subseteq herhaald',
         \A r \in tx[w].bij, v \in Actief \ {w} : Ongestoord(r, herhaald') =>
           \A k \in tx[v].klus : {k.zaak, k.naar} # {r.zaak, r.naar},
         tx[w].fase \in {"klaar", "gelezen"}
  PROVE  RelatieInv'
<1> USE DossierAssumption
<1>1. PICK p : p = tx[w]
  OBVIOUS
<1>2. w \in Werkers /\ DOMAIN tx = Werkers
  BY Voorheen DEF TypeInv, TypeOK
<1>3. /\ \A v \in Werkers \ {w} : tx'[v] = tx[v] /\ (v \in Actief' <=> v \in Actief)
      /\ Actief' \subseteq Werkers \ {w}
  BY <1>2, Na
<1>4. \A r \in rijen' : r \in X \/ (r \in rijen /\ r.pk \notin p.weg) \/ r \in p.bij
  BY <1>1
<1>5. ASSUME NEW r \in X PROVE ~Relatie(r) /\ r.naar \notin Zaken
  BY <1>5 DEF Rol, Relatie
<1>6. rijen \subseteq Geschreven /\ \A v \in Actief : tx[v].bij \subseteq Geschreven
  BY DEF Geschreven
<1>7. \A a, b \in Geschreven : Relatie(a) /\ Dezelfde(a, b) => a = b
  BY DEF RelatieInv, Uniek
<1>8. ASSUME NEW a \in Geschreven' PROVE a \in Geschreven \/ a \in X
  <2>1. CASE a \in rijen'
    BY <1>1, <1>4, <1>6, <2>1
  <2>2. CASE a \notin rijen'
    <3>1. PICK v \in Actief' : a \in tx'[v].bij
      BY <1>8, <2>2 DEF Geschreven
    <3> QED
      BY <1>3, <1>6, <3>1
  <2> QED
    BY <2>1, <2>2
<1>9. Uniek'
  <2>1. ASSUME NEW a \in Geschreven', NEW b \in Geschreven', Relatie(a), Dezelfde(a, b) PROVE a = b
    <3>1. Relatie(b)
      BY <2>1 DEF Relatie, Dezelfde
    <3> QED
      BY <1>5, <1>7, <1>8, <2>1, <3>1
  <2> QED
    BY <2>1 DEF Uniek, Relatie, Dezelfde
\* What w made is its own.
<1>10. ASSUME NEW v \in Actief \ {w}, NEW r \in tx[v].bij, Ongestoord(r, herhaald)
       PROVE  r \notin p.bij /\ r \notin rijen
  <2>1. Vorm(tx[v]) /\ Sleutels(tx[v], rijen, pks) /\ Apart(tx[v], p)
    BY <1>1, <1>2, Voorheen DEF TypeInv, SleutelInv
  <2>2. r.pk \notin tx[v].weg
    <3>1. Relatie(r)
      BY <1>10 DEF Ongestoord, Relatie
    <3>2. tx[v].op \notin Rolwerk
      BY <1>10, <2>1, <3>1, RolwerkMaakt
    <3> QED
      BY <1>10, <2>1, <3>2 DEF Vorm, VormZaak, VormDelete, Rolwerk, Verzoek
  <2>3. r.pk \in Eigen(tx[v])
    BY <1>10, <2>2 DEF Eigen, Pks
  <2> QED
    BY <2>1, <2>3 DEF Sleutels, Apart, Gebruikt, Kent, Pks
<1>11. ASSUME NEW r, Ongestoord(r, herhaald') PROVE Ongestoord(r, herhaald)
  BY <1>11 DEF Ongestoord
<1>12. Maakt(p, rijen, herhaald) /\ Verwijdert(p, rijen, herhaald)
  BY <1>1 DEF RelatieInv
<1>13. ASSUME NEW r \in p.bij, Ongestoord(r, herhaald)
       PROVE  (\E s \in p.bij : Keert(r, s)) /\ \A s \in rijen : ~Keert(r, s)
  BY <1>1, <1>12, <1>13 DEF Maakt
<1>14. ASSUME NEW r \in rijen, NEW s \in rijen, Ongestoord(r, herhaald), Keert(r, s), r.pk \in p.weg
       PROVE  s.pk \in p.weg
  BY <1>1, <1>12, <1>14 DEF Verwijdert
<1>15. \A r, s : Keert(r, s) <=> Keert(s, r)
  BY DEF Keert
<1>16. ASSUME NEW r \in Bekend, NEW s \in Bekend, Keert(r, s), Ongestoord(r, herhaald)
       PROVE  Ongestoord(s, herhaald)
  <2>1. r \in Rij
    BY BekendRijen
  <2>2. s.naar = r.zaak /\ s.zaak = r.naar /\ r.zaak \in Zaken
    BY <1>16, <2>1 DEF Keert, Rij
  <2>3. {s.zaak, s.naar} = {r.zaak, r.naar}
    BY <2>2
  <2> QED
    BY <1>16, <2>2, <2>3 DEF Ongestoord
<1>17. rijen \subseteq Bekend /\ \A v \in Actief : tx[v].bij \subseteq Bekend /\ tx[v].klus \subseteq Bekend
  BY Voorheen DEF Bekend
<1>18. Wederkerig'
  <2> SUFFICES ASSUME NEW r \in rijen', Ongestoord(r, herhaald')
               PROVE  \E s \in rijen' : Keert(r, s)
    BY DEF Wederkerig, Ongestoord, Keert
  <2>1. CASE r \in p.bij
    BY <1>1, <1>11, <1>13, <2>1
  <2>2. CASE r \in rijen /\ r.pk \notin p.weg
    <3>1. Wederkerig /\ Ongestoord(r, herhaald)
      BY <1>11 DEF RelatieInv
    <3>2. PICK s \in rijen : Keert(r, s)
      BY <2>2, <3>1 DEF Wederkerig, Ongestoord, Keert
    <3>3. Ongestoord(s, herhaald) /\ Keert(s, r)
      BY <1>15, <1>16, <1>17, <2>2, <3>1, <3>2
    <3>4. s.pk \notin p.weg
      BY <1>14, <2>2, <3>3
    <3> QED
      BY <1>1, <3>2, <3>4
  <2>3. CASE r \in X
    BY <1>5, <2>3 DEF Ongestoord
  <2> QED
    BY <1>4, <2>1, <2>2, <2>3
<1>19. ASSUME NEW v \in Actief \ {w} PROVE Maakt(tx[v], rijen', herhaald')
  <2> SUFFICES ASSUME NEW r \in tx[v].bij, Ongestoord(r, herhaald')
               PROVE  /\ \/ \E s \in tx[v].bij : Keert(r, s)
                         \/ tx[v].fase \in {"omgekeerd", "omgekeerd_insert"} /\ tx[v].klus = {r}
                      /\ \A s \in rijen' : ~Keert(r, s)
    BY DEF Maakt
  <2>1. Ongestoord(r, herhaald) /\ Maakt(tx[v], rijen, herhaald)
    BY <1>11 DEF RelatieInv
  <2>2. ASSUME NEW s \in rijen', Keert(r, s) PROVE FALSE
    <3>1. s \notin rijen
      BY <2>1, <2>2 DEF Maakt
    <3>2. s \notin X
      <4>1. r \in Rij
        BY <1>17, BekendRijen
      <4>2. s.naar \in Zaken
        BY <2>2, <4>1 DEF Keert, Rij
      <4> QED
        BY <1>5, <4>2
    <3>3. s \in p.bij
      BY <1>4, <3>1, <3>2
    <3>4. Ongestoord(s, herhaald)
      BY <1>1, <1>16, <1>17, <2>1, <2>2, <3>3
    <3>5. PICK t \in p.bij : Keert(s, t)
      BY <1>13, <3>3, <3>4
    <3>6. Dezelfde(t, r) /\ Relatie(t)
      BY <2>1, <2>2, <3>5 DEF Keert, Dezelfde, Relatie, Ongestoord
    <3>7. t = r
      BY <1>1, <1>6, <1>7, <3>5, <3>6
    <3> QED
      BY <1>10, <2>1, <3>5, <3>7
  <2> QED
    BY <2>1, <2>2 DEF Maakt
<1>20. ASSUME NEW v \in Actief \ {w} PROVE Verwijdert(tx[v], rijen', herhaald')
  <2>1. Verwijdert(tx[v], rijen, herhaald) /\ Apart(p, tx[v])
    BY <1>1, <1>2 DEF RelatieInv, TypeInv, SleutelInv
  <2>2. ASSUME NEW r \in p.bij, Relatie(r) PROVE r.pk \notin Gebruikt(tx[v])
    <3>1. Vorm(p)
      BY <1>1, Voorheen
    <3>2. p.op \notin Rolwerk
      BY <2>2, <3>1, RolwerkMaakt
    <3>3. r.pk \notin p.weg
      BY <2>2, <3>1, <3>2 DEF Vorm, VormZaak, VormDelete, Rolwerk, Verzoek
    <3> QED
      BY <2>1, <2>2, <3>3 DEF Apart, Eigen, Pks
  <2>3. ASSUME NEW r \in rijen', NEW s \in rijen', Ongestoord(r, herhaald'), Keert(r, s),
               r.pk \in tx[v].weg
        PROVE  s.pk \in tx[v].weg \/ (tx[v].fase = "wis_omgekeerd" /\ r \in tx[v].klus)
    <3>1. Ongestoord(r, herhaald) /\ Relatie(r) /\ r \notin X
      BY <1>5, <1>11, <2>3 DEF Ongestoord, Relatie
    <3>2. r \in rijen
      BY <1>4, <2>2, <2>3, <3>1 DEF Gebruikt
    <3>3. s.naar \in Zaken
      <4>1. r \in Rij
        BY <1>17, <3>2, BekendRijen
      <4> QED
        BY <2>3, <4>1 DEF Keert, Rij
    <3>4. s \in rijen \/ s \in p.bij
      BY <1>4, <1>5, <2>3, <3>3
    <3>5. CASE s \in p.bij
      <4>1. Ongestoord(s, herhaald)
        BY <1>1, <1>16, <1>17, <2>3, <3>1, <3>2, <3>5
      <4> QED
        BY <1>13, <1>15, <2>3, <3>2, <3>5, <4>1
    <3> QED
      BY <2>1, <2>3, <3>1, <3>2, <3>4, <3>5 DEF Verwijdert
  <2>4. ASSUME tx[v].fase \in {"wissen", "wis_omgekeerd"}, NEW r \in tx[v].klus, Ongestoord(r, herhaald')
        PROVE  IF r \in rijen' THEN tx[v].fase = "wis_omgekeerd" => r.pk \in tx[v].weg
               ELSE \A s \in rijen' : ~Dezelfde(r, s) /\ ~Keert(r, s)
    <3>1. Ongestoord(r, herhaald) /\ Relatie(r) /\ r \notin X
      BY <1>5, <1>11, <2>4 DEF Ongestoord, Relatie
    <3>2. r.pk \in Gebruikt(tx[v])
      BY <2>4 DEF Gebruikt, Kent, Pks
    <3>3. CASE r \in rijen'
      <4>1. r \in rijen
        BY <1>4, <2>2, <3>1, <3>2, <3>3
      <4> QED
        BY <2>1, <2>4, <3>1, <3>3, <4>1 DEF Verwijdert
    <3>4. CASE r \notin rijen'
      <4> SUFFICES ASSUME NEW s \in rijen', Dezelfde(r, s) \/ Keert(r, s) PROVE FALSE
        BY <3>4
      <4>1. r \in Rij
        BY <1>17, BekendRijen
      <4>2. s.naar \in Zaken /\ s \notin X
        BY <1>5, <3>1, <4>1 DEF Keert, Dezelfde, Rij, Ongestoord
      <4>3. {s.zaak, s.naar} = {r.zaak, r.naar}
        BY DEF Keert, Dezelfde
      <4>4. Ongestoord(s, herhaald')
        BY <2>4, <4>2, <4>3 DEF Ongestoord
      <4>5. s \notin p.bij
        <5>1. ASSUME s \in p.bij PROVE FALSE
          <6>1. \A k \in tx[v].klus : {k.zaak, k.naar} # {s.zaak, s.naar}
            BY <1>1, <4>4, <5>1
          <6> QED
            BY <2>4, <4>3, <6>1
        <5> QED
          BY <5>1
      <4>6. s \in rijen /\ s.pk \notin p.weg
        BY <1>4, <4>2, <4>5
      <4>7. r \in rijen
        BY <2>1, <2>4, <3>1, <4>6 DEF Verwijdert
      <4>8. r.pk \in p.weg
        BY <1>1, <3>4, <4>7
      <4>9. CASE Dezelfde(r, s)
        BY <1>6, <1>7, <3>1, <4>6, <4>7, <4>8, <4>9
      <4>10. CASE Keert(r, s)
        BY <1>14, <3>1, <4>6, <4>7, <4>8, <4>10
      <4> QED
        BY <4>9, <4>10
    <3> QED
      BY <3>3, <3>4
  <2> QED
    BY <2>3, <2>4 DEF Verwijdert
<1>21. \A v \in Actief' : Maakt(tx'[v], rijen', herhaald') /\ Verwijdert(tx'[v], rijen', herhaald')
  BY <1>3, <1>19, <1>20
<1> QED
  BY <1>9, <1>18, <1>21 DEF RelatieInv, Maakt, Verwijdert, Ongestoord, Keert, Dezelfde

-----------------------------------------------------------------------------
(* Roles: a zaak has each of the limited kinds once, unless it is one of   *)
(* those that EenRol excuses.                                              *)

Uit == samen \cup verplaatst
Raakt(q) == {q.zaak} \cup {r.zaak : r \in q.klus}

\* The roles that were there when a request read them
Las(q) == IF q.op = "rol" THEN q.klus ELSE Genoemde(q) \cup {r \in q.bij : r.pk \in q.weg}

\* The kinds of roles that a request for one rol writes
Geeft(q) == {r.naar : r \in q.bij} \cup {q.rollen[i].soort : i \in DOMAIN q.rollen}

\* A rol that was read is where it was, unless the zaken that it moved from and to are excused.
Elders(a, b, U) == a.pk = b.pk /\ a.zaak # b.zaak => a.zaak \in U /\ b.zaak \in U

\* Requests that have to do with a zaak at the same time, one of them for one rol
RaaktApart(p, q, S) ==
  {p.op, q.op} \subseteq Rolwerk /\ "rol" \in {p.op, q.op} => Raakt(p) \cap Raakt(q) \subseteq S

PlaatsApart(p, q, U) ==
  {p.op, q.op} \subseteq Rolwerk => \A c \in Las(p), d \in Las(q) : Elders(c, d, U)

PlaatsVan(q, R, U) == q.op \in Rolwerk => \A c \in Las(q), o \in R : Elders(c, o, U)

Eenmalig(S, z) ==
  \A a, b \in S : a.zaak = z /\ b.zaak = z /\ a.naar \in Beperkt /\ a.naar = b.naar => a = b

ZichtVan(q, R) == {r \in R : r.pk \notin q.weg} \cup q.bij

\* What a request sees of its zaak, and what it is going to write there.
RolGoed(q, R, U) ==
  q.zaak \notin U =>
    /\ q.op \in {"registreren", "bijwerken"} /\ Schrijvend(q) => Eenmalig(ZichtVan(q, R), q.zaak)
    /\ q.op = "rol" /\ (\A k \in q.klus : k.zaak = q.zaak) =>
         \A s \in R : s.zaak = q.zaak /\ s.naar \in Geeft(q) \cap Beperkt => s.pk \in Pks(q.klus)

EenRolInv ==
  /\ \A z \in Zaken \ Uit : Eenmalig(rijen, z)
  /\ \A w \in Actief : PlaatsVan(tx[w], rijen, Uit) /\ RolGoed(tx[w], rijen, Uit)
  /\ \A v, w \in Actief : v # w => RaaktApart(tx[v], tx[w], samen) /\ PlaatsApart(tx[v], tx[w], Uit)

LEMMA MeerUit ==
  ASSUME NEW U, NEW V, U \subseteq V
  PROVE  /\ \A a, b : Elders(a, b, U) => Elders(a, b, V)
         /\ \A q, R : PlaatsVan(q, R, U) => PlaatsVan(q, R, V)
         /\ \A q, R : RolGoed(q, R, U) => RolGoed(q, R, V)
         /\ \A p, q : PlaatsApart(p, q, U) => PlaatsApart(p, q, V)
         /\ \A p, q : RaaktApart(p, q, U) => RaaktApart(p, q, V)
<1>1. \A a, b : Elders(a, b, U) => Elders(a, b, V)
  BY DEF Elders
<1>2. \A q, R : PlaatsVan(q, R, U) => PlaatsVan(q, R, V)
  BY <1>1 DEF PlaatsVan
<1>3. \A q, R : RolGoed(q, R, U) => RolGoed(q, R, V)
  BY DEF RolGoed
<1>4. \A p, q : PlaatsApart(p, q, U) => PlaatsApart(p, q, V)
  BY <1>1 DEF PlaatsApart
<1>5. \A p, q : RaaktApart(p, q, U) => RaaktApart(p, q, V)
  BY DEF RaaktApart
<1> QED
  BY <1>1, <1>2, <1>3, <1>4, <1>5

LEMMA Gespiegeld ==
  ASSUME NEW p, NEW q, NEW U
  PROVE  /\ RaaktApart(p, q, U) <=> RaaktApart(q, p, U)
         /\ PlaatsApart(p, q, U) <=> PlaatsApart(q, p, U)
         /\ \A a, b : Elders(a, b, U) <=> Elders(b, a, U)
<1>1. \A a, b : Elders(a, b, U) <=> Elders(b, a, U)
  BY DEF Elders
<1>2. PlaatsApart(p, q, U) <=> PlaatsApart(q, p, U)
  BY <1>1 DEF PlaatsApart
<1>3. RaaktApart(p, q, U) <=> RaaktApart(q, p, U)
  BY DEF RaaktApart
<1> QED
  BY <1>1, <1>2, <1>3

\* A step in which only the request of w changes, and more zaken may be excused.
LEMMA StapRollen ==
  ASSUME DOMAIN tx = Werkers, EenRolInv, NEW w \in Werkers, NEW q, Zet(w, q), rijen' = rijen,
         samen \subseteq samen', verplaatst \subseteq verplaatst',
         q # Geen => /\ PlaatsVan(q, rijen, Uit') /\ RolGoed(q, rijen, Uit')
                     /\ \A v \in Actief \ {w} : RaaktApart(tx[v], q, samen') /\ PlaatsApart(tx[v], q, Uit')
  PROVE  EenRolInv'
<1>1. /\ tx'[w] = q
      /\ \A v \in Werkers \ {w} : tx'[v] = tx[v] /\ (v \in Actief' <=> v \in Actief)
      /\ w \in Actief' <=> q # Geen
      /\ Actief' \subseteq Werkers
  BY Na
<1>2. Uit \subseteq Uit'
  BY DEF Uit
<1>3. \A z \in Zaken \ Uit' : Eenmalig(rijen', z)
  BY <1>2 DEF EenRolInv
<1>4. ASSUME NEW v \in Actief' PROVE PlaatsVan(tx'[v], rijen', Uit') /\ RolGoed(tx'[v], rijen', Uit')
  <2>1. CASE v = w
    BY <1>1, <1>4, <2>1
  <2>2. CASE v # w
    <3>1. tx'[v] = tx[v] /\ v \in Actief
      BY <1>1, <1>4, <2>2
    <3>2. PlaatsVan(tx[v], rijen, Uit) /\ RolGoed(tx[v], rijen, Uit)
      BY <3>1 DEF EenRolInv
    <3> QED
      BY <1>2, <3>1, <3>2, MeerUit
  <2> QED
    BY <2>1, <2>2
<1>5. ASSUME NEW u \in Actief', NEW v \in Actief', u # v
      PROVE  RaaktApart(tx'[u], tx'[v], samen') /\ PlaatsApart(tx'[u], tx'[v], Uit')
  <2>1. CASE u = w
    BY <1>1, <1>5, <2>1, Gespiegeld
  <2>2. CASE v = w
    BY <1>1, <1>5, <2>2
  <2>3. CASE u # w /\ v # w
    <3>1. tx'[v] = tx[v] /\ v \in Actief /\ tx'[u] = tx[u] /\ u \in Actief
      BY <1>1, <1>5, <2>3
    <3>2. RaaktApart(tx[u], tx[v], samen) /\ PlaatsApart(tx[u], tx[v], Uit)
      BY <1>5, <3>1 DEF EenRolInv
    <3> QED
      BY <1>2, <3>1, <3>2, MeerUit
  <2> QED
    BY <2>1, <2>2, <2>3
<1> QED
  BY <1>3, <1>4, <1>5
  DEF EenRolInv, Eenmalig, PlaatsVan, RolGoed, RaaktApart, PlaatsApart, Elders, Las, Raakt, Geeft, ZichtVan,
      Genoemde, Nieuw, Pks, Schrijvend, Rolwerk

\* A request that goes on touches no more and keeps what it read.
LEMMA VoortgangRollen ==
  ASSUME TypeInv, EenRolInv, NEW w \in Actief, NEW q, Zet(w, q), rijen' = rijen,
         samen' = samen, verplaatst' = verplaatst,
         q.op = tx[w].op, q.zaak = tx[w].zaak,
         q.op \in Rolwerk => /\ Raakt(q) \subseteq Raakt(tx[w]) /\ Las(q) \subseteq Las(tx[w])
                             /\ RolGoed(q, rijen, Uit)
  PROVE  EenRolInv'
<1>1. PICK p : p = tx[w]
  OBVIOUS
<1>2. Uit' = Uit /\ DOMAIN tx = Werkers /\ w \in Werkers
  BY Voorheen DEF Uit, TypeInv, TypeOK
<1>3. PlaatsVan(p, rijen, Uit)
  BY <1>1 DEF EenRolInv
<1>4. PlaatsVan(q, rijen, Uit)
  BY <1>1, <1>3 DEF PlaatsVan
<1>5. RolGoed(q, rijen, Uit)
  BY DEF RolGoed, Rolwerk
<1>6. ASSUME NEW v \in Actief \ {w} PROVE RaaktApart(tx[v], q, samen) /\ PlaatsApart(tx[v], q, Uit)
  <2>1. RaaktApart(tx[v], p, samen) /\ PlaatsApart(tx[v], p, Uit)
    BY <1>1 DEF EenRolInv
  <2>2. PlaatsApart(tx[v], q, Uit)
    BY <1>1, <2>1 DEF PlaatsApart
  <2>3. RaaktApart(tx[v], q, samen)
    BY <1>1, <2>1 DEF RaaktApart
  <2> QED
    BY <2>2, <2>3
<1> QED
  BY <1>2, <1>4, <1>5, <1>6, StapRollen

\* A request that begins reads roles that are there.
LEMMA BeginRollen ==
  ASSUME TypeInv, EenRolInv, NEW w \in Werkers, NEW q, NEW Z, Zet(w, q), rijen' = rijen,
         Overlapt(w, q.op, Z), verplaatst' = verplaatst,
         q.op \in Rolwerk => /\ Raakt(q) \subseteq Z /\ Las(q) \subseteq rijen
                             /\ RolGoed(q, rijen, Uit)
  PROVE  EenRolInv'
<1>1. samen \subseteq samen' /\ Uit \subseteq Uit' /\ DOMAIN tx = Werkers
  BY DEF Overlapt, Uit, TypeInv, TypeOK
<1>2. PlaatsVan(q, rijen, Uit')
  BY DEF PlaatsVan, Elders, TypeInv, TypeOK
<1>3. RolGoed(q, rijen, Uit)
  BY DEF RolGoed, Rolwerk
<1>4. RolGoed(q, rijen, Uit')
  BY <1>1, <1>3, MeerUit
<1>5. ASSUME NEW v \in Actief \ {w} PROVE RaaktApart(tx[v], q, samen') /\ PlaatsApart(tx[v], q, Uit')
  <2>1. PlaatsApart(tx[v], q, Uit)
    <3> SUFFICES ASSUME {tx[v].op, q.op} \subseteq Rolwerk, NEW c \in Las(tx[v]), NEW d \in Las(q)
                 PROVE  Elders(c, d, Uit)
      BY DEF PlaatsApart
    <3>1. d \in rijen
      OBVIOUS
    <3>2. PlaatsVan(tx[v], rijen, Uit)
      BY DEF EenRolInv
    <3> QED
      BY <3>1, <3>2 DEF PlaatsVan
  <2>2. RaaktApart(tx[v], q, samen')
    <3> SUFFICES ASSUME {tx[v].op, q.op} \subseteq Rolwerk, "rol" \in {tx[v].op, q.op},
                        NEW z \in Raakt(tx[v]), z \in Raakt(q)
                 PROVE  z \in samen'
      BY DEF RaaktApart
    <3>1. z \in Z /\ v \in Werkers \ {w} /\ tx[v] # Geen
      BY DEF Actief
    <3>2. z \in {tx[v].zaak} \cup {r.zaak : r \in tx[v].klus}
      BY DEF Raakt
    <3> QED
      BY <3>1, <3>2 DEF Overlapt
  <2> QED
    BY <1>1, <2>1, <2>2, MeerUit
<1> QED
  BY <1>1, <1>2, <1>4, <1>5, StapRollen

LEMMA EindeRollen ==
  ASSUME TypeInv, EenRolInv, NEW w \in Werkers, Zet(w, Geen), rijen' = rijen,
         samen' = samen, verplaatst' = verplaatst
  PROVE  EenRolInv'
BY StapRollen DEF TypeInv, TypeOK

\* What a request read of roles it knows, at its zaak or where it moves them from.
LEMMA LasKent ==
  ASSUME NEW q, Vorm(q), q.op \in Rolwerk
  PROVE  /\ Las(q) \subseteq Kent(q)
         /\ \A c \in Las(q) : c.zaak \in Raakt(q)
<1>1. Las(q) \subseteq Kent(q)
  BY DEF Las, Kent
<1>2. CASE q.op = "rol"
  BY <1>1, <1>2 DEF Las, Raakt
<1>3. CASE q.op # "rol"
  <2>1. \A r \in q.bij : r.zaak = q.zaak
    BY <1>3 DEF Vorm, VormRollen, Rolwerk
  <2>2. \A r \in Genoemde(q) : r.zaak = q.zaak
    BY KentRijen DEF Vorm
  <2> QED
    BY <1>1, <1>3, <2>1, <2>2 DEF Las, Raakt
<1> QED
  BY <1>1, <1>2, <1>3

\* After a commit: the roles that it wrote are of its zaak.
LEMMA CommitRollen ==
  ASSUME TypeInv, EenRolInv, NEW w \in Actief, NEW X, Zet(w, Geen),
         rijen' = {r \in rijen : r.pk \notin tx[w].weg} \cup tx[w].bij \cup X,
         samen' = samen, verplaatst \subseteq verplaatst',
         tx[w].op = "rol" \/ tx[w].fase = "klaar",
         \A x, y \in X : x = y,
         \A x \in X : /\ tx[w].op = "rol" /\ Rol(x) /\ x.pk \notin 1..pks
                      /\ x.zaak = tx[w].zaak /\ x.naar \in Geeft(tx[w]),
         X = {} \/ tx[w].bij = {},
         tx[w].op = "rol" /\ (\E k \in tx[w].klus : k.zaak # tx[w].zaak) => tx[w].zaak \in verplaatst'
  PROVE  EenRolInv'
<1> USE DossierAssumption
<1>1. PICK p : p = tx[w]
  OBVIOUS
<1>2. w \in Werkers /\ DOMAIN tx = Werkers /\ Vorm(p) /\ Sleutels(p, rijen, pks) /\ p.zaak \in Zaken
  BY <1>1, Voorheen DEF TypeInv, TypeOK, Verzoek
<1>3. /\ \A v \in Werkers \ {w} : tx'[v] = tx[v] /\ (v \in Actief' <=> v \in Actief)
      /\ Actief' \subseteq Werkers \ {w}
  BY <1>2, Na
<1>4. Uit \subseteq Uit' /\ samen \subseteq Uit' /\ verplaatst' \subseteq Uit'
  BY DEF Uit
<1>5. \A r \in rijen' : r \in X \/ (r \in rijen /\ r.pk \notin p.weg) \/ r \in p.bij
  BY <1>1
\* A rol that is new
<1>6. ASSUME NEW r \in rijen', r \notin rijen \/ r.pk \in p.weg, Rol(r)
      PROVE  (r \in X \/ r \in p.bij) /\ p.op \in Rolwerk /\ r.zaak = p.zaak
  <2>1. r \in X \/ r \in p.bij
    BY <1>5, <1>6
  <2>2. CASE r \in X
    BY <1>1, <2>1, <2>2 DEF Rolwerk
  <2>3. CASE r \in p.bij
    <3>1. p.op \in {"post", "patch", "delete", "registreren", "bijwerken", "rol"}
      BY <1>2 DEF Vorm, Verzoek
    <3>2. p.op \notin {"post", "patch", "delete"}
      BY <1>2, <1>6, <2>3 DEF Vorm, VormZaak, VormDelete, Rol, Relatie
    <3>3. p.op \in Rolwerk
      BY <3>1, <3>2 DEF Rolwerk
    <3>4. CASE p.op = "rol"
      <4>1. VormRol(p)
        BY <1>2, <3>4 DEF Vorm
      <4>2. PICK k \in p.klus : p.bij = {[k EXCEPT !.zaak = p.zaak]}
        BY <2>3, <4>1 DEF VormRol
      <4>3. k \in Rij
        BY <1>2 DEF Vorm, Verzoek
      <4> QED
        BY <2>3, <3>3, <4>2, <4>3 DEF Rij
    <3>5. CASE p.op # "rol"
      BY <1>2, <2>3, <3>3, <3>5 DEF Vorm, VormRollen, Rolwerk
    <3> QED
      BY <2>3, <3>3, <3>4, <3>5
  <2> QED
    BY <2>1, <2>2, <2>3
\* Others that work on roles of the same zaak
<1>7. ASSUME NEW v \in Actief \ {w}, tx[v].op \in Rolwerk, p.op \in Rolwerk, tx[v].zaak = p.zaak,
             tx[v].op = "rol" \/ Schrijvend(tx[v])
      PROVE  p.zaak \in samen
  <2>1. RaaktApart(tx[v], p, samen) /\ Slot(tx[v], p)
    BY <1>1, <1>2 DEF EenRolInv, TypeInv, SlotInv
  <2>2. "rol" \in {tx[v].op, p.op}
    BY <1>1, <1>7, <2>1 DEF Slot, Rolwerk, Schrijvend
  <2>3. p.zaak \in Raakt(tx[v]) /\ p.zaak \in Raakt(p)
    BY <1>7 DEF Raakt
  <2> QED
    BY <1>7, <2>1, <2>2, <2>3 DEF RaaktApart
<1>8. ASSUME NEW r, r.naar \in Beperkt PROVE Rol(r)
  BY <1>8 DEF Rol
<1>9. ASSUME NEW z \in Zaken \ Uit' PROVE Eenmalig(rijen', z)
  <2>1. z \notin Uit /\ z \notin samen /\ z \notin verplaatst' /\ Eenmalig(rijen, z)
    BY <1>4, <1>9 DEF EenRolInv
  <2>2. RolGoed(p, rijen, Uit)
    BY <1>1 DEF EenRolInv
  <2> SUFFICES ASSUME NEW a \in rijen', NEW b \in rijen', a.zaak = z, b.zaak = z,
                      a.naar \in Beperkt, a.naar = b.naar, a # b
               PROVE  FALSE
    BY DEF Eenmalig
  <2>3. ~(a \in rijen /\ b \in rijen)
    BY <2>1 DEF Eenmalig
  <2>4. Rol(a) /\ Rol(b)
    BY <1>8
  <2>5. p.op \in Rolwerk /\ p.zaak = z
    BY <1>6, <2>3, <2>4
  <2>6. CASE p.op # "rol"
    <3>1. X = {} /\ a \in ZichtVan(p, rijen) /\ b \in ZichtVan(p, rijen)
      BY <1>1, <2>6 DEF ZichtVan
    <3>2. Eenmalig(ZichtVan(p, rijen), z)
      BY <1>1, <2>1, <2>2, <2>5, <2>6 DEF RolGoed, Rolwerk, Schrijvend
    <3> QED
      BY <3>1, <3>2 DEF Eenmalig
  <2>7. CASE p.op = "rol"
    <3>1. VormRol(p)
      BY <1>2, <2>7 DEF Vorm
    <3>2. \A k \in p.klus : k.zaak = z
      BY <1>1, <2>1, <2>5, <2>7
    <3>3. \A s \in rijen : s.zaak = z /\ s.naar \in Geeft(p) \cap Beperkt => s.pk \in Pks(p.klus)
      BY <2>1, <2>2, <2>5, <2>7, <3>2 DEF RolGoed
    <3>4. Pks(p.klus) \subseteq p.weg
      BY <3>1 DEF VormRol, Pks
    <3>5. ASSUME NEW r \in rijen', r \in X \/ r \in p.bij PROVE r.naar \in Geeft(p)
      BY <1>1, <3>5 DEF Geeft
    <3>6. ASSUME NEW r \in rijen, r.pk \notin p.weg, r.zaak = z, r.naar \in Geeft(p) \cap Beperkt PROVE FALSE
      BY <3>3, <3>4, <3>6
    <3>7. a \in X \/ a \in p.bij
      BY <1>5, <2>3, <3>5, <3>6
    <3>8. b \in X \/ b \in p.bij
      BY <1>5, <2>3, <3>5, <3>6
    <3>9. \A r, s \in p.bij : r = s
      BY <3>1 DEF VormRol
    <3> QED
      BY <1>1, <3>7, <3>8, <3>9
  <2> QED
    BY <2>6, <2>7
<1>10. ASSUME NEW v \in Actief \ {w} PROVE RolGoed(tx[v], rijen', Uit')
  <2>1. RolGoed(tx[v], rijen, Uit) /\ Vorm(tx[v])
    BY Voorheen DEF EenRolInv
  <2>2. ASSUME tx[v].zaak \notin Uit', tx[v].op \in {"registreren", "bijwerken"}, Schrijvend(tx[v])
        PROVE  Eenmalig(ZichtVan(tx[v], rijen'), tx[v].zaak)
    <3>1. Eenmalig(ZichtVan(tx[v], rijen), tx[v].zaak)
      BY <1>4, <2>1, <2>2 DEF RolGoed
    <3>2. ASSUME NEW a \in ZichtVan(tx[v], rijen'), a.zaak = tx[v].zaak, a.naar \in Beperkt
          PROVE  a \in ZichtVan(tx[v], rijen)
      <4>1. CASE a \in tx[v].bij
        BY <4>1 DEF ZichtVan
      <4>2. CASE a \in rijen' /\ a.pk \notin tx[v].weg
        <5>1. a \in rijen
          BY <1>4, <1>6, <1>7, <1>8, <2>2, <3>2, <4>2 DEF Rolwerk
        <5> QED
          BY <4>2, <5>1 DEF ZichtVan
      <4> QED
        BY <3>2, <4>1, <4>2 DEF ZichtVan
    <3> QED
      BY <3>1, <3>2 DEF Eenmalig
  <2>3. ASSUME tx[v].zaak \notin Uit', tx[v].op = "rol", \A k \in tx[v].klus : k.zaak = tx[v].zaak,
               NEW s \in rijen', s.zaak = tx[v].zaak, s.naar \in Geeft(tx[v]) \cap Beperkt
        PROVE  s.pk \in Pks(tx[v].klus)
    <3>1. s \in rijen
      BY <1>4, <1>6, <1>7, <1>8, <2>3 DEF Rolwerk
    <3> QED
      BY <1>4, <2>1, <2>3, <3>1 DEF RolGoed
  <2> QED
    BY <2>2, <2>3 DEF RolGoed
<1>11. ASSUME NEW v \in Actief \ {w} PROVE PlaatsVan(tx[v], rijen', Uit')
  <2> SUFFICES ASSUME tx[v].op \in Rolwerk, NEW c \in Las(tx[v]), NEW o \in rijen', c.pk = o.pk, c.zaak # o.zaak
               PROVE  c.zaak \in Uit' /\ o.zaak \in Uit'
    BY DEF PlaatsVan, Elders
  <2>1. Vorm(tx[v]) /\ Sleutels(tx[v], rijen, pks) /\ Apart(p, tx[v])
    BY <1>1, <1>2, Voorheen DEF TypeInv, SleutelInv
  <2>2. c.pk \in Gebruikt(tx[v]) /\ c.pk \in 1..pks /\ c.zaak \in Raakt(tx[v])
    BY <2>1, LasKent DEF Gebruikt, Pks, Sleutels
  <2>3. CASE o \in rijen
    BY <1>4, <2>3 DEF EenRolInv, PlaatsVan, Elders
  <2>4. CASE o \in p.bij
    <3>1. o.pk \in p.weg
      BY <2>1, <2>2, <2>4 DEF Apart, Eigen, Pks
    <3>2. p.op \in {"post", "patch", "delete", "registreren", "bijwerken", "rol"}
      BY <1>2 DEF Vorm, Verzoek
    <3>3. p.op \in Rolwerk
      BY <1>2, <2>4, <3>1, <3>2 DEF Vorm, VormZaak, VormDelete, Rolwerk
    <3>4. PlaatsApart(p, tx[v], Uit) /\ RaaktApart(p, tx[v], samen)
      BY <1>1, <1>2 DEF EenRolInv
    <3>5. CASE p.op # "rol"
      <4>1. o \in Las(p)
        BY <2>4, <3>1, <3>5 DEF Las
      <4> QED
        BY <1>4, <3>3, <3>4, <4>1 DEF PlaatsApart, Elders
    <3>6. CASE p.op = "rol"
      <4>1. VormRol(p)
        BY <1>2, <3>6 DEF Vorm
      <4>2. PICK r \in p.klus : p.klus = {r} /\ p.bij = {[r EXCEPT !.zaak = p.zaak]}
        BY <2>4, <4>1 DEF VormRol
      <4>3. r \in Rij
        BY <1>2 DEF Vorm, Verzoek
      <4>4. o.zaak = p.zaak /\ o.pk = r.pk /\ r \in Las(p) /\ r.zaak \in Raakt(p)
        BY <2>4, <3>6, <4>2, <4>3 DEF Rij, Las, Raakt
      <4>5. Elders(r, c, Uit)
        BY <3>3, <3>4, <4>4 DEF PlaatsApart
      <4>6. r.zaak # p.zaak => p.zaak \in Uit'
        BY <1>1, <1>4, <3>6
      <4>7. CASE r.zaak = c.zaak
        <5>1. c.zaak \in samen
          BY <2>2, <3>3, <3>4, <3>6, <4>4, <4>7 DEF RaaktApart
        <5> QED
          BY <1>4, <4>4, <4>6, <4>7, <5>1
      <4>8. CASE r.zaak # c.zaak
        BY <1>4, <4>4, <4>5, <4>6, <4>8 DEF Elders
      <4> QED
        BY <4>7, <4>8
    <3> QED
      BY <3>5, <3>6
  <2>5. CASE o \in X
    BY <2>2, <2>5
  <2> QED
    BY <1>5, <2>3, <2>4, <2>5
<1>12. ASSUME NEW u \in Actief', NEW v \in Actief', u # v
       PROVE  RaaktApart(tx'[u], tx'[v], samen') /\ PlaatsApart(tx'[u], tx'[v], Uit')
  <2>1. tx'[v] = tx[v] /\ v \in Actief /\ tx'[u] = tx[u] /\ u \in Actief
    BY <1>3, <1>12
  <2>2. RaaktApart(tx[u], tx[v], samen) /\ PlaatsApart(tx[u], tx[v], Uit)
    BY <1>12, <2>1 DEF EenRolInv
  <2> QED
    BY <1>4, <2>1, <2>2, MeerUit
<1>13. \A v \in Actief' : PlaatsVan(tx'[v], rijen', Uit') /\ RolGoed(tx'[v], rijen', Uit')
  BY <1>3, <1>10, <1>11
<1> QED
  BY <1>9, <1>12, <1>13
  DEF EenRolInv, Eenmalig, PlaatsVan, RolGoed, RaaktApart, PlaatsApart, Elders, Las, Raakt, Geeft, ZichtVan,
      Genoemde, Nieuw, Pks, Schrijvend, Rolwerk

-----------------------------------------------------------------------------
(* The steps. *)

IInv == TypeInv /\ RelatieInv /\ EenRolInv

\* A request begins, with a rol in X that it moves.
LEMMA LeesGoed ==
  ASSUME IInv, NEW w \in Werkers, NEW q, NEW Z, NEW X, Lees(w, q, Z), Vorm(q), ~Schrijvend(q),
         \A x, y \in X : x = y,
         \A x \in X : Rol(x) /\ \E b \in rijen : b.pk = x.pk /\ b.naar = x.naar,
         Kent(q) \subseteq rijen \cup X,
         \A r \in q.bij : r \in X /\ r.pk \in q.weg,
         \A k \in q.weg : \E b \in rijen : b.pk = k /\ Rol(b),
         q.op \in Rolwerk => Raakt(q) \subseteq Z /\ Las(q) \subseteq rijen /\ RolGoed(q, rijen, Uit),
         q.op \notin Rolwerk => q.bij = {} /\ q.weg = {}
  PROVE  IInv'
<1> USE DossierAssumption
<1>1. /\ Zet(w, q) /\ tx[w] = Geen /\ Overlapt(w, q.op, Z)
      /\ stand' = stand /\ rijen' = rijen /\ pks' = pks /\ herhaald' = herhaald /\ verplaatst' = verplaatst
  BY DEF Lees, Met, Zet
<1>2. TypeInv'
  BY <1>1, Begin DEF IInv
<1>3. RelatieInv'
  <2>1. Maakt(q, rijen, herhaald)
    <3>1. CASE q.op \in Rolwerk
      BY <3>1, RolwerkMaakt DEF IInv
    <3>2. CASE q.op \notin Rolwerk
      BY <3>2 DEF Maakt
    <3> QED
      BY <3>1, <3>2
  <2>2. Verwijdert(q, rijen, herhaald)
    <3>1. CASE q.op \in Rolwerk
      BY <3>1, RolwerkVerwijdert DEF IInv
    <3>2. CASE q.op \notin Rolwerk
      BY <3>2 DEF Verwijdert, Schrijvend
    <3> QED
      BY <3>1, <3>2
  <2>3. \A r \in q.bij : ~Relatie(r)
    BY DEF Rol, Relatie
  <2>4. \A x \in X : ~Relatie(x)
    BY DEF Rol, Relatie
  <2> QED
    BY <1>1, <2>1, <2>2, <2>3, <2>4, StapRelaties DEF IInv
<1>4. EenRolInv'
  BY <1>1, BeginRollen DEF IInv
<1> QED
  BY <1>2, <1>3, <1>4 DEF IInv

\* A request that only knows what it is about
LEMMA LeegGoed ==
  ASSUME IInv, NEW w \in Werkers, NEW q, NEW Z, Lees(w, q, Z), Vorm(q), q.fase = "gelezen",
         q.op \in {"post", "patch", "delete"}, q.klus = {}, q.bij = {}, q.weg = {}, q.rollen = <<>>
  PROVE  IInv'
<1>1. PICK X : X = {}
  OBVIOUS
<1>2. Kent(q) = {}
  BY DEF Kent, Genoemde
<1>3. q.op \notin Rolwerk /\ ~Schrijvend(q)
  BY DEF Rolwerk, Schrijvend
<1>4. \A x \in X : x \notin X
  BY <1>1
<1> QED
  BY <1>2, <1>3, <1>4, LeesGoed

LEMMA LegeRollen == <<>> \in Seq(Gegeven)
OBVIOUS

LEMMA ZaakGoed ==
  ASSUME IInv, NEW w \in Werkers, NEW z \in Zaken, NEW lijst \in SUBSET (Zaken \cup Extern),
         PostZaak(w, z, lijst) \/ PatchZaak(w, z, lijst)
  PROVE  IInv'
<1>1. PICK op \in {"post", "patch"} :
        Lees(w, [Leeg(op, z) EXCEPT !.lijst = lijst, !.todo = lijst], {})
  BY DEF PostZaak, PatchZaak
<1>2. PICK q : q = [Leeg(op, z) EXCEPT !.lijst = lijst, !.todo = lijst]
  OBVIOUS
<1>3. /\ q.op = op /\ q.zaak = z /\ q.fase = "gelezen" /\ q.lijst = lijst /\ q.todo = lijst
      /\ q.rollen = <<>> /\ q.klus = {} /\ q.bij = {} /\ q.weg = {}
      /\ q \in Verzoek
  BY <1>2, LegeRollen DEF Leeg, Verzoek
<1>4. Vorm(q)
  BY <1>1, <1>3 DEF Vorm, VormZaak
<1> QED
  BY <1>1, <1>2, <1>3, <1>4, LeegGoed

LEMMA DeleteGoed ==
  ASSUME IInv, NEW w \in Werkers, NEW z \in Zaken, DeleteZaak(w, z)
  PROVE  IInv'
<1>1. PICK q : q = Leeg("delete", z)
  OBVIOUS
<1>2. Lees(w, q, {})
  BY <1>1 DEF DeleteZaak
<1>3. /\ q.op = "delete" /\ q.zaak = z /\ q.fase = "gelezen"
      /\ q.rollen = <<>> /\ q.klus = {} /\ q.bij = {} /\ q.weg = {}
      /\ q \in Verzoek
  BY <1>1, LegeRollen DEF Leeg, Verzoek
<1>4. Vorm(q)
  BY <1>3 DEF Vorm, VormDelete
<1> QED
  BY <1>2, <1>3, <1>4, LeegGoed

LEMMA RijtjesType == Rijtjes \subseteq Seq(Gegeven)
<1>1. \A g \in Gegeven : <<g>> \in Seq(Gegeven)
  OBVIOUS
<1>2. \A g, h \in Gegeven : <<g, h>> \in Seq(Gegeven)
  OBVIOUS
<1>3. ASSUME NEW rollen \in Rijtjes PROVE rollen \in Seq(Gegeven)
  <2>1. \/ rollen = <<>>
        \/ \E g \in Gegeven : rollen = <<g>>
        \/ \E g, h \in Gegeven : rollen = <<g, h>>
    BY SMT DEF Rijtjes
  <2>2. CASE rollen = <<>>
    BY <2>2, LegeRollen, Zenon
  <2>3. ASSUME NEW g \in Gegeven, rollen = <<g>> PROVE rollen \in Seq(Gegeven)
    BY <1>1, <2>3, Zenon
  <2>4. ASSUME NEW g \in Gegeven, NEW h \in Gegeven, rollen = <<g, h>> PROVE rollen \in Seq(Gegeven)
    BY <1>2, <2>4, Zenon
  <2> QED
    BY <2>1, <2>2, <2>3, <2>4, Zenon
<1> QED
  BY <1>3

\* Combined requests name roles of their zaak.
LEMMA RollenGoed ==
  ASSUME IInv, NEW w \in Werkers, NEW z \in Zaken, NEW rollen \in Rijtjes,
         Registreren(w, z, rollen) \/ Bijwerken(w, z, rollen)
  PROVE  IInv'
<1> USE DossierAssumption
<1>1. PICK op \in {"registreren", "bijwerken"} : Lees(w, [Leeg(op, z) EXCEPT !.rollen = rollen], {z})
  BY DEF Registreren, Bijwerken
<1>2. PICK q : q = [Leeg(op, z) EXCEPT !.rollen = rollen]
  OBVIOUS
<1>3. rollen \in Seq(Gegeven)
  BY RijtjesType
<1>4. /\ q.op = op /\ q.zaak = z /\ q.fase = "gelezen"
      /\ q.rollen = rollen /\ q.klus = {} /\ q.bij = {} /\ q.weg = {}
      /\ q \in Verzoek
  BY <1>2, <1>3 DEF Leeg, Verzoek
<1>5. /\ \A i \in DOMAIN rollen : rollen[i].pk = 0 \/ Nieuw(z, rollen[i].soort, rollen[i].pk) \in rijen
      /\ \A i, j \in DOMAIN rollen : rollen[i].pk # 0 /\ rollen[i].pk = rollen[j].pk => i = j
  BY DEF Registreren, Bijwerken
<1>6. Vorm(q)
  <2>1. Pks(q.bij) = {}
    BY <1>4 DEF Pks
  <2>2. VormRollen(q)
    BY <1>4, <1>5, <2>1 DEF VormRollen
  <2> QED
    BY <1>1, <1>4, <2>2 DEF Vorm
<1>7. Genoemde(q) \subseteq rijen
  BY <1>4, <1>5 DEF Genoemde
<1>8. Kent(q) \subseteq rijen /\ Las(q) \subseteq rijen /\ Raakt(q) = {z}
  BY <1>1, <1>4, <1>7 DEF Kent, Las, Raakt
<1>9. RolGoed(q, rijen, Uit) /\ ~Schrijvend(q) /\ q.op \in Rolwerk
  BY <1>1, <1>4 DEF RolGoed, Schrijvend, Rolwerk
<1>10. PICK X : X = {}
  OBVIOUS
<1>11. \A x \in X : x \notin X
  BY <1>10
<1> QED
  BY <1>1, <1>2, <1>4, <1>6, <1>8, <1>9, <1>11, LeesGoed

LEMMA RolPostGoed ==
  ASSUME IInv, NEW w \in Werkers, NEW z \in Zaken, NEW soort \in Soorten, RolPost(w, z, soort)
  PROVE  IInv'
<1> USE DossierAssumption
<1>1. PICK q : q = [Leeg("rol", z) EXCEPT !.rollen = <<[pk |-> 0, soort |-> soort]>>]
  OBVIOUS
<1>2. Lees(w, q, {z}) /\ MagErbij(z, soort, rijen)
  BY <1>1 DEF RolPost
<1>3. <<[pk |-> 0, soort |-> soort]>> \in Seq(Gegeven)
  BY DEF Gegeven
<1>4. /\ q.op = "rol" /\ q.zaak = z /\ q.fase = "gelezen"
      /\ q.rollen = <<[pk |-> 0, soort |-> soort]>> /\ q.klus = {} /\ q.bij = {} /\ q.weg = {}
      /\ q \in Verzoek
  BY <1>1, <1>3 DEF Leeg, Verzoek
<1>5. Vorm(q)
  BY <1>4 DEF Vorm, VormRol
<1>6. Genoemde(q) = {}
  BY <1>4 DEF Genoemde
<1>7. Kent(q) = {} /\ Las(q) = {} /\ Raakt(q) = {z} /\ Geeft(q) = {soort}
  BY <1>4, <1>6 DEF Kent, Las, Raakt, Geeft
<1>8. RolGoed(q, rijen, Uit) /\ ~Schrijvend(q) /\ q.op \in Rolwerk
  BY <1>2, <1>4, <1>7 DEF RolGoed, Schrijvend, Rolwerk, MagErbij
<1>9. PICK X : X = {}
  OBVIOUS
<1>10. \A x \in X : x \notin X
  BY <1>9
<1> QED
  BY <1>2, <1>4, <1>5, <1>7, <1>8, <1>10, LeesGoed

LEMMA RolPutGoed ==
  ASSUME IInv, NEW w \in Werkers, NEW z \in Zaken, NEW r \in rijen, RolPut(w, r, z)
  PROVE  IInv'
<1> USE DossierAssumption
<1>1. PICK s : s = [r EXCEPT !.zaak = z]
  OBVIOUS
<1>2. PICK q : q = [Leeg("rol", z) EXCEPT !.klus = {r}, !.bij = {s}, !.weg = {r.pk}]
  OBVIOUS
<1>3. Lees(w, q, {r.zaak, z}) /\ Rol(r)
  BY <1>1, <1>2 DEF RolPut
<1>4. /\ r \in Rij /\ s \in Rij /\ s.pk = r.pk /\ s.naar = r.naar /\ s.zaak = z /\ Rol(s)
  BY <1>1, <1>3 DEF IInv, TypeInv, TypeOK, Rij, Rol
<1>5. /\ q.op = "rol" /\ q.zaak = z /\ q.fase = "gelezen"
      /\ q.rollen = <<>> /\ q.klus = {r} /\ q.bij = {s} /\ q.weg = {r.pk}
      /\ q \in Verzoek
  <2>1. r.pk \in 1..MaxPk
    BY <1>4 DEF Rij
  <2>2. {r.pk} \in SUBSET (1..MaxPk) /\ {r} \in SUBSET Rij /\ {s} \in SUBSET Rij
    BY <1>4, <2>1
  <2> QED
    BY <1>2, <2>2, LegeRollen DEF Leeg, Verzoek
<1>6. Vorm(q)
  BY <1>1, <1>3, <1>5 DEF Vorm, VormRol
<1>7. Genoemde(q) = {}
  BY <1>5 DEF Genoemde
<1>8. Kent(q) = {r, s} /\ Las(q) = {r} /\ Raakt(q) = {r.zaak, z} /\ Geeft(q) = {r.naar} /\ Pks(q.klus) = {r.pk}
  BY <1>4, <1>5, <1>7 DEF Kent, Las, Raakt, Geeft, Pks
<1>9. RolGoed(q, rijen, Uit)
  <2> SUFFICES ASSUME z \notin Uit, r.zaak = z, NEW t \in rijen, t.zaak = z, t.naar = r.naar, t.naar \in Beperkt
               PROVE  t.pk = r.pk
    BY <1>5, <1>8 DEF RolGoed
  <2>1. Eenmalig(rijen, z)
    BY DEF IInv, EenRolInv
  <2> QED
    BY <2>1 DEF Eenmalig
<1>10. ~Schrijvend(q) /\ q.op \in Rolwerk
  BY <1>5 DEF Schrijvend, Rolwerk
<1>11. PICK X : X = {s}
  OBVIOUS
<1>12. Kent(q) \subseteq rijen \cup X /\ Las(q) \subseteq rijen
  BY <1>8, <1>11
<1>13. \A x \in X : Rol(x) /\ \E b \in rijen : b.pk = x.pk /\ b.naar = x.naar
  BY <1>4, <1>11
<1>14. \A k \in q.weg : \E b \in rijen : b.pk = k /\ Rol(b)
  BY <1>3, <1>5
<1>15. \A t \in q.bij : t \in X /\ t.pk \in q.weg
  BY <1>4, <1>5, <1>11
<1>16. PICK Z : Z = {r.zaak, z}
  OBVIOUS
<1>17. Lees(w, q, Z) /\ Raakt(q) \subseteq Z
  BY <1>3, <1>8, <1>16
<1>18. \A x, y \in X : x = y
  BY <1>11
<1> QED
  BY <1>6, <1>9, <1>10, <1>12, <1>13, <1>14, <1>15, <1>17, <1>18, LeesGoed

LEMMA RolDeleteGoed ==
  ASSUME IInv, NEW w \in Werkers, NEW r \in rijen, RolDelete(w, r)
  PROVE  IInv'
<1> USE DossierAssumption
<1>1. PICK q : q = [Leeg("rol", r.zaak) EXCEPT !.klus = {r}, !.weg = {r.pk}]
  OBVIOUS
<1>2. Lees(w, q, {r.zaak}) /\ Rol(r)
  BY <1>1 DEF RolDelete
<1>3. r \in Rij
  BY DEF IInv, TypeInv, TypeOK
<1>4. /\ q.op = "rol" /\ q.zaak = r.zaak /\ q.fase = "gelezen"
      /\ q.rollen = <<>> /\ q.klus = {r} /\ q.bij = {} /\ q.weg = {r.pk}
      /\ q \in Verzoek
  <2>1. r.pk \in 1..MaxPk /\ r.zaak \in Zaken
    BY <1>3 DEF Rij
  <2>2. {r.pk} \in SUBSET (1..MaxPk) /\ {r} \in SUBSET Rij
    BY <1>3, <2>1
  <2> QED
    BY <1>1, <2>1, <2>2, LegeRollen DEF Leeg, Verzoek
<1>5. Vorm(q)
  BY <1>2, <1>4 DEF Vorm, VormRol
<1>6. Genoemde(q) = {}
  BY <1>4 DEF Genoemde
<1>7. Kent(q) = {r} /\ Las(q) = {r} /\ Raakt(q) = {r.zaak} /\ Geeft(q) = {}
  BY <1>4, <1>6 DEF Kent, Las, Raakt, Geeft
<1>8. RolGoed(q, rijen, Uit) /\ ~Schrijvend(q) /\ q.op \in Rolwerk
  BY <1>4, <1>7 DEF RolGoed, Schrijvend, Rolwerk
<1>9. PICK X : X = {}
  OBVIOUS
<1>10. \A x \in X : x \notin X
  BY <1>9
<1>11. \A k \in q.weg : \E b \in rijen : b.pk = k /\ Rol(b)
  BY <1>2, <1>4
<1> QED
  BY <1>2, <1>4, <1>5, <1>7, <1>8, <1>10, <1>11, LeesGoed

\* A request goes on within its transaction.
LEMMA StapGoed ==
  ASSUME IInv, NEW w \in Actief, NEW q, NEW X, Zet(w, q), UNCHANGED Rest,
         Vorm(q), Verder(tx[w], q, X), Vers(X),
         Schrijvend(tx[w]) \/ \A v \in Actief \ {w} : Slot(tx[v], q),
         \A r \in q.bij : Relatie(r) => r \in tx[w].bij \/ r \in X,
         \A x \in X : Relatie(x) => \A a \in Geschreven : ~Dezelfde(x, a),
         Maakt(q, rijen, herhaald), Verwijdert(q, rijen, herhaald),
         q.op \in Rolwerk => /\ Raakt(q) \subseteq Raakt(tx[w]) /\ Las(q) \subseteq Las(tx[w])
                             /\ RolGoed(q, rijen, Uit)
  PROVE  IInv'
<1>1. /\ stand' = stand /\ rijen' = rijen /\ herhaald' = herhaald
      /\ samen' = samen /\ verplaatst' = verplaatst
  BY DEF Rest, merken
<1>2. TypeInv'
  BY <1>1, Voortgang DEF IInv
<1>3. RelatieInv'
  <2>1. w \in Werkers
    BY Voorheen DEF IInv
  <2>2. \A x, y \in X : x = y
    BY DEF Vers
  <2> QED
    BY <1>1, <2>1, <2>2, StapRelaties DEF IInv
<1>4. EenRolInv'
  <2>1. q.op = tx[w].op /\ q.zaak = tx[w].zaak
    BY DEF Verder
  <2> QED
    BY <1>1, <2>1, VoortgangRollen DEF IInv
<1> QED
  BY <1>2, <1>3, <1>4 DEF IInv

\* A request that writes relations, or deletes a zaak, goes on and makes nothing new.
LEMMA ZaakStapGoed ==
  ASSUME IInv, NEW w \in Actief, NEW q, Zet(w, q), UNCHANGED <<Rest, pks>>,
         tx[w].op \notin Rolwerk, q.op = tx[w].op, q.zaak = tx[w].zaak,
         Vorm(q), Kent(q) \subseteq Kent(tx[w]) \cup rijen,
         q.bij = tx[w].bij, tx[w].weg \subseteq q.weg, q.weg \subseteq tx[w].weg \cup Pks(rijen),
         Schrijvend(tx[w]) \/ \A v \in Actief \ {w} : Slot(tx[v], q),
         Maakt(q, rijen, herhaald), Verwijdert(q, rijen, herhaald)
  PROVE  IInv'
<1>1. PICK X : X = {}
  OBVIOUS
<1>2. \A x \in X : x \notin X
  BY <1>1
<1>3. Sleutels(tx[w], rijen, pks)
  BY Voorheen DEF IInv
<1>4. Verder(tx[w], q, X)
  BY <1>3 DEF Verder, Sleutels, Pks
<1>5. Vers(X) /\ UNCHANGED Rest
  BY <1>1 DEF Vers
<1> QED
  BY <1>2, <1>4, <1>5, StapGoed

LEMMA EindeGoed ==
  ASSUME IInv, NEW w \in Werkers, Zet(w, Geen), UNCHANGED <<Rest, pks>>
  PROVE  IInv'
<1>1. /\ stand' = stand /\ rijen' = rijen /\ herhaald' = herhaald /\ pks' = pks
      /\ samen' = samen /\ verplaatst' = verplaatst
  BY DEF Rest, merken
<1> QED
  BY <1>1, Einde, EindeRelaties, EindeRollen DEF IInv

-----------------------------------------------------------------------------
(* The zaak is saved: no other request that writes it goes on. *)

LEMMA OpslaanGoed ==
  ASSUME IInv, NEW w \in Werkers, Opslaan(w)
  PROVE  IInv'
<1> USE DossierAssumption
<1>1. /\ w \in Actief /\ tx[w].op \in {"post", "patch", "registreren", "bijwerken"}
      /\ tx[w].fase = "gelezen" /\ UNCHANGED <<Rest, pks>>
  BY DEF Opslaan, Schrijft, Actief
<1>2. PICK p : p = tx[w]
  OBVIOUS
<1>3. Vorm(p) /\ p \in Verzoek
  BY <1>1, <1>2, Voorheen DEF IInv
<1>4. ASSUME NEW q, q.op = p.op, q.zaak = p.zaak, NEW v \in Actief \ {w} PROVE Slot(tx[v], q)
  <2>1. Schrijvend(tx[v]) => v \in Anderen(w)
    BY DEF Schrijvend, Anderen, Actief
  <2>2. \A u \in Anderen(w) : tx[u].zaak # p.zaak \/ tx[u].op = "delete"
    BY <1>2 DEF Opslaan
  <2> QED
    BY <1>4, <2>1, <2>2 DEF Slot
<1>5. CASE p.op \in {"post", "patch"}
  <2>1. PICK q : q = [p EXCEPT !.fase = "relaties"]
    OBVIOUS
  <2>2. Zet(w, q)
    BY <1>2, <1>5, <2>1 DEF Opslaan, Met, Zet
  <2>3. /\ q.op = p.op /\ q.zaak = p.zaak /\ q.fase = "relaties" /\ q.lijst = p.lijst /\ q.todo = p.todo
        /\ q.rollen = p.rollen /\ q.klus = p.klus /\ q.bij = p.bij /\ q.weg = p.weg
        /\ q \in Verzoek
    BY <1>3, <2>1 DEF Verzoek
  <2>4. VormZaak(p) /\ p.bij = {} /\ p.klus = {} /\ p.weg = {}
    BY <1>1, <1>2, <1>3, <1>5 DEF Vorm, VormZaak
  <2>5. Vorm(q)
    BY <1>5, <2>3, <2>4 DEF Vorm, VormZaak
  <2>6. Maakt(q, rijen, herhaald) /\ Verwijdert(q, rijen, herhaald)
    BY <2>3, <2>4 DEF Maakt, Verwijdert
  <2>7. Kent(q) = Kent(p)
    BY <2>3 DEF Kent, Genoemde
  <2>8. p.op \notin Rolwerk
    BY <1>5 DEF Rolwerk
  <2>9. \A v \in Actief \ {w} : Slot(tx[v], q)
    BY <1>4, <2>3
  <2> QED
    BY <1>1, <1>2, <2>2, <2>3, <2>5, <2>6, <2>7, <2>8, <2>9, ZaakStapGoed
<1>6. CASE p.op \in {"registreren", "bijwerken"}
  <2>1. PICK S : S = {r \in rijen : Rol(r) /\ r.zaak = p.zaak}
    OBVIOUS
  <2>2. PICK q : q = [p EXCEPT !.fase = "rollen", !.klus = S]
    OBVIOUS
  <2>3. Zet(w, q)
    BY <1>2, <1>6, <2>1, <2>2 DEF Opslaan, Met, Zet
  <2>4. S \subseteq rijen /\ S \in SUBSET Rij /\ \A r \in S : Rol(r) /\ r.zaak = p.zaak
    BY <2>1 DEF IInv, TypeInv, TypeOK
  <2>5. /\ q.op = p.op /\ q.zaak = p.zaak /\ q.fase = "rollen"
        /\ q.rollen = p.rollen /\ q.klus = S /\ q.bij = p.bij /\ q.weg = p.weg
        /\ q \in Verzoek
    BY <1>3, <2>2, <2>4 DEF Verzoek
  <2>6. VormRollen(p) /\ p.bij = {} /\ p.klus = {} /\ p.weg = {}
    BY <1>1, <1>2, <1>3, <1>6 DEF Vorm, VormRollen
  <2>7. Vorm(q)
    <3>1. VormRollen(q)
      BY <2>4, <2>5, <2>6 DEF VormRollen
    <3> QED
      BY <1>6, <2>5, <3>1 DEF Vorm
  <2>8. Genoemde(q) = Genoemde(p)
    BY <2>5 DEF Genoemde
  <2>9. /\ Kent(q) \subseteq Kent(p) \cup rijen
        /\ Las(q) \subseteq Las(p) /\ Raakt(q) \subseteq Raakt(p)
    BY <1>6, <2>4, <2>5, <2>6, <2>8 DEF Kent, Las, Raakt
  <2>10. q.op \in Rolwerk
    BY <1>6, <2>5 DEF Rolwerk
  <2>11. Maakt(q, rijen, herhaald) /\ Verwijdert(q, rijen, herhaald)
    BY <2>5, <2>6 DEF Maakt, Verwijdert
  <2>12. RolGoed(q, rijen, Uit)
    <3>1. ASSUME q.zaak \notin Uit PROVE Eenmalig(rijen, q.zaak)
      BY <1>3, <2>5, <3>1 DEF IInv, EenRolInv, Verzoek
    <3>2. ZichtVan(q, rijen) = rijen
      BY <2>5, <2>6 DEF ZichtVan
    <3> QED
      BY <1>6, <2>5, <3>1, <3>2 DEF RolGoed
  <2>13. PICK X : X = {}
    OBVIOUS
  <2>14. Vers(X) /\ \A x \in X : x \notin X
    BY <1>1, <2>13 DEF Vers
  <2>15. Verder(p, q, X)
    BY <2>5, <2>6, <2>9 DEF Verder
  <2>16. \A v \in Actief \ {w} : Slot(tx[v], q)
    BY <1>4, <2>5
  <2> QED
    BY <1>1, <1>2, <2>3, <2>5, <2>7, <2>9, <2>11, <2>12, <2>14, <2>15, <2>16, StapGoed
<1> QED
  BY <1>1, <1>2, <1>5, <1>6

-----------------------------------------------------------------------------
(* The ends of a request. *)

LEMMA CommitGoed ==
  ASSUME IInv, NEW w \in Werkers, Commit(w)
  PROVE  IInv'
<1>1. /\ w \in Actief /\ tx[w].fase = "klaar" /\ tx[w].op # "delete"
      /\ pks' = pks /\ samen' = samen /\ verplaatst' = verplaatst
  BY DEF Commit, Actief
<1>2. PICK p : p = tx[w]
  OBVIOUS
<1>3. Vorm(p) /\ p \in Verzoek
  BY <1>1, <1>2, Voorheen DEF IInv
<1>4. p.op # "rol"
  BY <1>1, <1>2, <1>3 DEF Vorm, VormRol
<1>5. PICK er : er = {z \in Zaken : stand[z] = "er"} \cup {p.zaak}
  OBVIOUS
<1>6. CASE Verwijst(w, er)
  <2>1. /\ LegVast(w, p.bij) /\ stand' = [stand EXCEPT ![p.zaak] = "er"]
        /\ herhaald' = herhaald \cup Opnieuw(w)
    BY <1>2, <1>5, <1>6 DEF Commit
  <2>2. PICK X : X = {}
    OBVIOUS
  <2>3. \A x \in X : x \notin X
    BY <2>2
  <2>4. Zet(w, Geen) /\ rijen' = {r \in rijen : r.pk \notin p.weg} \cup p.bij \cup X
    BY <1>2, <2>1, <2>2 DEF LegVast, Zet
  <2>5. p.zaak \in Zaken /\ stand \in [Zaken -> {"nieuw", "er", "weg"}]
    BY <1>3 DEF Verzoek, IInv, TypeInv, TypeOK
  <2>6. stand' \in [Zaken -> {"nieuw", "er", "weg"}] /\ \A z \in er : stand'[z] = "er"
    BY <1>5, <2>1, <2>5
  <2>7. ASSUME NEW r \in rijen', NEW z \in {r.zaak, r.naar} \cap Zaken PROVE stand'[z] = "er"
    <3>1. CASE r \in rijen
      BY <1>5, <2>6, <2>7, <3>1 DEF IInv, TypeInv, TypeOK
    <3>2. CASE r \in p.bij
      BY <1>2, <1>6, <2>6, <2>7, <3>2 DEF Verwijst
    <3> QED
      BY <2>3, <2>4, <3>1, <3>2
  <2>8. TypeInv'
    <3>1. Vers(X)
      BY <1>1, <2>2 DEF Vers
    <3> QED
      BY <1>1, <1>2, <2>4, <2>6, <2>7, <3>1, NaCommit DEF IInv
  <2>9. RelatieInv'
    <3>1. ASSUME NEW r \in p.bij, NEW v \in Actief \ {w}, Ongestoord(r, herhaald'), NEW k \in tx[v].klus,
                 {k.zaak, k.naar} = {r.zaak, r.naar}
          PROVE  FALSE
      <4>1. v \in Werkers \ {w} /\ tx[v] # Geen
        BY DEF Actief
      <4>2. {r.zaak, r.naar} \in Opnieuw(w)
        BY <1>2, <3>1, <4>1 DEF Opnieuw
      <4> QED
        BY <2>1, <3>1, <4>2 DEF Ongestoord
    <3>2. \A r \in tx[w].bij, v \in Actief \ {w} : Ongestoord(r, herhaald') =>
             \A k \in tx[v].klus : {k.zaak, k.naar} # {r.zaak, r.naar}
      BY <1>2, <3>1
    <3> QED
      BY <1>1, <1>2, <2>1, <2>3, <2>4, <3>2, CommitRelaties DEF IInv
  <2>10. EenRolInv'
    BY <1>1, <1>2, <1>4, <2>2, <2>3, <2>4, CommitRollen DEF IInv
  <2> QED
    BY <2>8, <2>9, <2>10 DEF IInv
<1>7. CASE ~Verwijst(w, er)
  <2>1. Zet(w, Geen) /\ UNCHANGED <<Rest, pks>>
    BY <1>1, <1>2, <1>5, <1>7 DEF Commit, Met, Zet, Rest, merken
  <2> QED
    BY <2>1, EindeGoed
<1> QED
  BY <1>6, <1>7

LEMMA CommitDeleteGoed ==
  ASSUME IInv, NEW w \in Werkers, CommitDelete(w)
  PROVE  IInv'
<1>1. /\ w \in Actief /\ tx[w].fase = "klaar" /\ tx[w].op = "delete"
      /\ pks' = pks /\ samen' = samen /\ verplaatst' = verplaatst /\ herhaald' = herhaald
  BY DEF CommitDelete, Schrijft, Actief, merken
<1>2. PICK p : p = tx[w]
  OBVIOUS
<1>3. Vorm(p) /\ p \in Verzoek
  BY <1>1, <1>2, Voorheen DEF IInv
<1>4. CASE \A r \in rijen : p.zaak \in {r.zaak, r.naar} => r.pk \in p.weg
  <2>1. LegVast(w, {}) /\ stand' = [stand EXCEPT ![p.zaak] = "weg"]
    BY <1>2, <1>4 DEF CommitDelete
  <2>2. PICK X : X = {}
    OBVIOUS
  <2>3. \A x \in X : x \notin X
    BY <2>2
  <2>4. p.bij = {}
    BY <1>1, <1>2, <1>3 DEF Vorm, VormDelete
  <2>5. Zet(w, Geen) /\ rijen' = {r \in rijen : r.pk \notin p.weg} \cup p.bij \cup X
    BY <1>2, <2>1, <2>2, <2>4 DEF LegVast, Zet
  <2>6. p.zaak \in Zaken /\ stand \in [Zaken -> {"nieuw", "er", "weg"}]
    BY <1>3 DEF Verzoek, IInv, TypeInv, TypeOK
  <2>7. stand' \in [Zaken -> {"nieuw", "er", "weg"}] /\ \A z \in Zaken \ {p.zaak} : stand'[z] = stand[z]
    BY <2>1, <2>6
  <2>8. ASSUME NEW r \in rijen', NEW z \in {r.zaak, r.naar} \cap Zaken PROVE stand'[z] = "er"
    <3>1. r \in rijen /\ r.pk \notin p.weg
      BY <2>3, <2>4, <2>5
    <3>2. z # p.zaak
      BY <1>4, <3>1
    <3> QED
      BY <2>7, <3>1, <3>2 DEF IInv, TypeInv, TypeOK
  <2>9. TypeInv'
    <3>1. Vers(X)
      BY <1>1, <2>2 DEF Vers
    <3> QED
      BY <1>1, <1>2, <2>5, <2>7, <2>8, <3>1, NaCommit DEF IInv
  <2>10. RelatieInv'
    BY <1>1, <1>2, <2>3, <2>4, <2>5, CommitRelaties DEF IInv
  <2>11. EenRolInv'
    BY <1>1, <1>2, <2>2, <2>3, <2>5, CommitRollen DEF IInv
  <2> QED
    BY <2>9, <2>10, <2>11 DEF IInv
<1>5. CASE ~(\A r \in rijen : p.zaak \in {r.zaak, r.naar} => r.pk \in p.weg)
  <2>1. Zet(w, Geen) /\ UNCHANGED <<Rest, pks>>
    BY <1>1, <1>2, <1>5 DEF CommitDelete, Met, Zet, Rest, merken
  <2> QED
    BY <2>1, EindeGoed
<1> QED
  BY <1>4, <1>5

LEMMA AfgebrokenGoed ==
  ASSUME IInv, NEW w \in Werkers, Afgebroken(w)
  PROVE  IInv'
BY EindeGoed DEF Afgebroken, Met, Zet

LEMMA RolSchrijfGoed ==
  ASSUME IInv, NEW w \in Werkers, RolSchrijf(w)
  PROVE  IInv'
<1> USE DossierAssumption
<1>1. /\ w \in Actief /\ tx[w].fase = "gelezen" /\ tx[w].op = "rol"
      /\ stand' = stand /\ samen' = samen /\ herhaald' = herhaald
  BY DEF RolSchrijf, Schrijft, Actief
<1>2. PICK p : p = tx[w]
  OBVIOUS
<1>3. Vorm(p) /\ p \in Verzoek /\ VormRol(p)
  BY <1>1, <1>2, Voorheen DEF IInv, Vorm
<1>4. PICK X : X = {Nieuw(p.zaak, p.rollen[i].soort, pks + 1) : i \in DOMAIN p.rollen}
  OBVIOUS
<1>5. CASE (\A r \in p.bij \cup X : stand[r.zaak] = "er") /\ (X # {} => pks < MaxPk)
  <2>1. /\ LegVast(w, p.bij \cup X)
        /\ pks' = IF X = {} THEN pks ELSE pks + 1
        /\ verplaatst' = verplaatst \cup {z \in {p.zaak} : \E r \in p.klus : r.zaak # z}
    BY <1>2, <1>4, <1>5 DEF RolSchrijf
  <2>2. Zet(w, Geen) /\ rijen' = {r \in rijen : r.pk \notin p.weg} \cup p.bij \cup X
    BY <1>2, <2>1 DEF LegVast, Zet
  <2>3. p.zaak \in Zaken /\ pks \in 0..MaxPk /\ stand \in [Zaken -> {"nieuw", "er", "weg"}]
    BY <1>3 DEF Verzoek, IInv, TypeInv, TypeOK
  <2>4. Vers(X) /\ (\A x, y \in X : x = y) /\ (X = {} \/ p.bij = {})
        /\ \A x \in X : /\ Rol(x) /\ x.pk \notin 1..pks /\ x.pk = pks + 1
                        /\ x.zaak = p.zaak /\ x.naar \in Geeft(p)
    <3>1. CASE p.rollen = <<>>
      <4>1. \A x \in X : x \notin X
        BY <1>4, <3>1
      <4>2. X = {}
        BY <4>1
      <4> QED
        BY <2>1, <4>1, <4>2 DEF Vers
    <3>2. CASE p.rollen # <<>>
      <4>1. PICK soort \in Soorten : p.rollen = <<[pk |-> 0, soort |-> soort]>>
        BY <1>3, <3>2 DEF VormRol
      <4>2. p.bij = {}
        BY <1>3, <3>2 DEF VormRol
      <4>3. DOMAIN p.rollen = {1} /\ p.rollen[1].soort = soort
        BY <4>1
      <4>4. X = {Nieuw(p.zaak, soort, pks + 1)}
        BY <1>4, <4>3
      <4>5. PICK f : f = Nieuw(p.zaak, soort, pks + 1)
        OBVIOUS
      <4>6. X = {f} /\ pks < MaxPk /\ pks' = pks + 1
        BY <1>5, <2>1, <4>4, <4>5
      <4>7. f \in Rij /\ f.pk = pks + 1 /\ f.zaak = p.zaak /\ f.naar = soort /\ Rol(f)
        BY <2>3, <4>5, <4>6 DEF Nieuw, Rij, Rol
      <4>8. soort \in Geeft(p)
        BY <4>3 DEF Geeft
      <4> QED
        BY <2>3, <4>2, <4>6, <4>7, <4>8 DEF Vers
    <3> QED
      BY <3>1, <3>2
  <2>5. \A r \in p.bij : Rol(r)
    BY <1>1, <1>2, <1>3, RolwerkMaakt DEF IInv, Rolwerk
  <2>6. ASSUME NEW r \in rijen', NEW z \in {r.zaak, r.naar} \cap Zaken PROVE stand'[z] = "er"
    <3>1. CASE r \in rijen
      BY <1>1, <2>6, <3>1 DEF IInv, TypeInv, TypeOK
    <3>2. CASE r \in p.bij \cup X
      BY <1>1, <1>5, <2>4, <2>5, <2>6, <3>2 DEF Rol
    <3> QED
      BY <2>2, <3>1, <3>2
  <2>7. TypeInv'
    BY <1>1, <1>2, <2>2, <2>3, <2>4, <2>6, NaCommit DEF IInv
  <2>8. RelatieInv'
    <3>1. \A r \in p.bij : ~Ongestoord(r, herhaald')
      BY <2>5 DEF Rol, Ongestoord
    <3> QED
      BY <1>1, <1>2, <2>2, <2>4, <3>1, CommitRelaties DEF IInv
  <2>9. EenRolInv'
    BY <1>1, <1>2, <2>1, <2>2, <2>4, CommitRollen DEF IInv
  <2> QED
    BY <2>7, <2>8, <2>9 DEF IInv
<1>6. CASE ~((\A r \in p.bij \cup X : stand[r.zaak] = "er") /\ (X # {} => pks < MaxPk))
  <2>1. Zet(w, Geen) /\ UNCHANGED <<Rest, pks>>
    BY <1>1, <1>2, <1>4, <1>6 DEF RolSchrijf, Met, Zet, Rest, merken
  <2> QED
    BY <2>1, EindeGoed
<1> QED
  BY <1>5, <1>6

-----------------------------------------------------------------------------
(* A combined request writes its roles. *)

\* What it has and may do
LEMMA RolFeiten ==
  ASSUME IInv, NEW w \in Actief, tx[w].op \in {"registreren", "bijwerken"}, tx[w].fase = "rollen"
  PROVE  /\ Vorm(tx[w]) /\ VormRollen(tx[w]) /\ tx[w] \in Verzoek /\ tx[w].op \in Rolwerk
         /\ Sleutels(tx[w], rijen, pks) /\ PlaatsVan(tx[w], rijen, Uit)
         /\ tx[w].zaak \notin Uit => Eenmalig(ZichtVan(tx[w], rijen), tx[w].zaak)
         /\ pks \in 0..MaxPk /\ rijen \subseteq Rij
<1>1. Vorm(tx[w]) /\ tx[w] \in Verzoek /\ Sleutels(tx[w], rijen, pks)
  BY Voorheen DEF IInv
<1>2. VormRollen(tx[w]) /\ tx[w].op \in Rolwerk
  BY <1>1 DEF Vorm, Rolwerk
<1>3. PlaatsVan(tx[w], rijen, Uit) /\ RolGoed(tx[w], rijen, Uit)
  BY DEF IInv, EenRolInv
<1>4. Schrijvend(tx[w])
  BY DEF Schrijvend
<1>5. tx[w].zaak \notin Uit => Eenmalig(ZichtVan(tx[w], rijen), tx[w].zaak)
  BY <1>3, <1>4 DEF RolGoed
<1>6. pks \in 0..MaxPk /\ rijen \subseteq Rij
  BY DEF IInv, TypeInv, TypeOK
<1> QED
  BY <1>1, <1>2, <1>3, <1>5, <1>6

\* A step in which a combined request stays with the roles of its zaak
LEMMA RolStapGoed ==
  ASSUME IInv, NEW w \in Actief, NEW q, NEW X, Zet(w, q), UNCHANGED Rest,
         tx[w].op \in {"registreren", "bijwerken"}, tx[w].fase = "rollen", q.op = tx[w].op,
         Vorm(q), Verder(tx[w], q, X), Vers(X), \A x \in X : Rol(x),
         Las(q) \subseteq Las(tx[w]),
         q.zaak \notin Uit => Eenmalig(ZichtVan(q, rijen), q.zaak)
  PROVE  IInv'
<1> USE DossierAssumption
<1>1. q.op \in Rolwerk /\ tx[w].op \in Rolwerk
  BY DEF Rolwerk
<1>2. Maakt(q, rijen, herhaald) /\ \A r \in q.bij : ~Relatie(r)
  BY <1>1, RolwerkMaakt DEF IInv
<1>3. w \in Werkers
  BY Voorheen DEF IInv
<1>4. Verwijdert(q, rijen, herhaald)
  <2>1. ASSUME NEW k \in q.weg
        PROVE  \/ \E b \in rijen : b.pk = k /\ Rol(b)
               \/ w \in Actief /\ k \in tx[w].weg /\ tx[w].op \in Rolwerk
    BY <1>1, <2>1 DEF Verder
  <2> QED
    BY <1>1, <1>3, <2>1, RolwerkVerwijdert DEF IInv
<1>5. Raakt(q) \subseteq Raakt(tx[w])
  <2>1. VormRollen(q) /\ q.zaak = tx[w].zaak
    BY DEF Vorm, Verder
  <2> QED
    BY <2>1 DEF VormRollen, Raakt
<1>6. RolGoed(q, rijen, Uit)
  BY DEF RolGoed
<1>7. \A x \in X : ~Relatie(x)
  BY DEF Rol, Relatie
<1>8. Schrijvend(tx[w])
  BY DEF Schrijvend
<1> QED
  BY <1>2, <1>4, <1>5, <1>6, <1>7, <1>8, StapGoed

\* The named roles that are left, after one was written
LEMMA OverigeRollen ==
  ASSUME NEW p \in Verzoek, VormRollen(p), p.rollen # <<>>, NEW g, g = Head(p.rollen),
         NEW q, q.zaak = p.zaak, q.rollen = Tail(p.rollen)
  PROVE  /\ q.rollen \in Seq(Gegeven) /\ g \in Gegeven
         /\ \A i, j \in DOMAIN q.rollen : q.rollen[i].pk # 0 /\ q.rollen[i].pk = q.rollen[j].pk => i = j
         /\ \A i \in DOMAIN q.rollen :
              /\ q.rollen[i].pk \notin Pks(p.bij)
              /\ q.rollen[i].pk # 0 => q.rollen[i].pk \in Pks(Genoemde(p)) /\ q.rollen[i].pk # g.pk
         /\ g.pk \notin Pks(p.bij)
         /\ Genoemde(q) \subseteq Genoemde(p)
         /\ g.pk # 0 => Nieuw(p.zaak, g.soort, g.pk) \in Genoemde(p)
<1>1. PICK rollen : rollen = p.rollen
  OBVIOUS
<1>2. rollen \in Seq(Gegeven) /\ rollen # <<>>
  BY <1>1 DEF Verzoek
<1>3. /\ Tail(rollen) \in Seq(Gegeven) /\ Head(rollen) \in Gegeven
      /\ Head(rollen) = rollen[1] /\ 1 \in DOMAIN rollen
      /\ \A i \in DOMAIN Tail(rollen) : i + 1 \in DOMAIN rollen /\ Tail(rollen)[i] = rollen[i + 1] /\ i \in Nat /\ i + 1 # 1
  BY <1>2
<1>4. \A i, j \in DOMAIN rollen : rollen[i].pk # 0 /\ rollen[i].pk = rollen[j].pk => i = j
  BY <1>1 DEF VormRollen
<1>5. \A i \in DOMAIN rollen : rollen[i].pk \notin Pks(p.bij)
  BY <1>1 DEF VormRollen
<1>6. \A i \in DOMAIN rollen : rollen[i].pk # 0 =>
         Nieuw(p.zaak, rollen[i].soort, rollen[i].pk) \in Genoemde(p) /\ rollen[i].pk \in Pks(Genoemde(p))
  <2>1. ASSUME NEW i \in DOMAIN rollen, rollen[i].pk # 0
        PROVE  Nieuw(p.zaak, rollen[i].soort, rollen[i].pk) \in Genoemde(p)
    BY <1>1, <2>1 DEF Genoemde
  <2>2. \A i : Nieuw(p.zaak, rollen[i].soort, rollen[i].pk).pk = rollen[i].pk
    BY DEF Nieuw
  <2> QED
    BY <2>1, <2>2 DEF Pks
<1>7. \A i, j \in DOMAIN Tail(rollen) :
         Tail(rollen)[i].pk # 0 /\ Tail(rollen)[i].pk = Tail(rollen)[j].pk => i = j
  <2> SUFFICES ASSUME NEW i \in DOMAIN Tail(rollen), NEW j \in DOMAIN Tail(rollen),
                      Tail(rollen)[i].pk # 0, Tail(rollen)[i].pk = Tail(rollen)[j].pk
               PROVE  i = j
    OBVIOUS
  <2>1. i + 1 = j + 1
    BY <1>3, <1>4
  <2> QED
    BY <1>3, <2>1
<1>8. ASSUME NEW i \in DOMAIN Tail(rollen)
      PROVE  /\ Tail(rollen)[i].pk \notin Pks(p.bij)
             /\ Tail(rollen)[i].pk # 0 => /\ Tail(rollen)[i].pk \in Pks(Genoemde(p))
                                          /\ Tail(rollen)[i].pk # Head(rollen).pk
  BY <1>3, <1>4, <1>5, <1>6
<1>9. Genoemde(q) \subseteq Genoemde(p)
  <2> SUFFICES ASSUME NEW r \in Genoemde(q) PROVE r \in Genoemde(p)
    OBVIOUS
  <2>1. PICK i \in DOMAIN Tail(rollen) :
          Tail(rollen)[i].pk # 0 /\ r = Nieuw(p.zaak, Tail(rollen)[i].soort, Tail(rollen)[i].pk)
    BY <1>1 DEF Genoemde
  <2> QED
    BY <1>3, <1>6, <2>1
<1> QED
  BY <1>1, <1>3, <1>5, <1>6, <1>7, <1>8, <1>9

LEMMA RijGelijk ==
  ASSUME NEW a \in Rij, NEW b \in Rij, a.pk = b.pk, a.zaak = b.zaak, a.naar = b.naar
  PROVE  a = b
BY DEF Rij

\* The roles that are left go last.
LEMMA RolResterendGoed ==
  ASSUME IInv, NEW w \in Actief, tx[w].op \in {"registreren", "bijwerken"}, tx[w].fase = "rollen",
         tx[w].rollen = <<>>, NEW D, D = tx[w].klus \cap Zicht(w),
         NEW q, q.op = tx[w].op, q.zaak = tx[w].zaak, q.fase = "klaar", q.rollen = <<>>, q.klus = {},
         q.bij = tx[w].bij \ D, q.weg = tx[w].weg \cup Pks(D \ tx[w].bij), q \in Verzoek,
         Zet(w, q), UNCHANGED <<Rest, pks>>
  PROVE  IInv'
<1> USE DossierAssumption
<1>1. PICK p : p = tx[w]
  OBVIOUS
<1>2. /\ Vorm(p) /\ VormRollen(p) /\ p \in Verzoek /\ p.op \in Rolwerk
      /\ Sleutels(p, rijen, pks) /\ PlaatsVan(p, rijen, Uit)
      /\ p.zaak \notin Uit => Eenmalig(ZichtVan(p, rijen), p.zaak)
      /\ pks \in 0..MaxPk /\ rijen \subseteq Rij
  BY <1>1, RolFeiten
<1>3. D = p.klus \cap ZichtVan(p, rijen)
  BY <1>1 DEF Zicht, ZichtVan
<1>4. PICK K : K = Pks(D \ p.bij)
  OBVIOUS
<1>5. D \ p.bij \subseteq rijen
  BY <1>3 DEF ZichtVan
<1>6. K \subseteq Pks(rijen)
  BY <1>4, <1>5 DEF Pks
<1>7. /\ q.op = p.op /\ q.zaak = p.zaak /\ q.fase = "klaar" /\ q.rollen = <<>>
      /\ q.klus = {} /\ q.bij = p.bij \ D /\ q.weg = p.weg \cup K
  BY <1>1, <1>4
<1>8. Vorm(q)
  <2>1. VormRollen(q)
    BY <1>2, <1>7 DEF VormRollen
  <2> QED
    BY <1>1, <1>7, <2>1 DEF Vorm
<1>9. Genoemde(q) = {}
  BY <1>7 DEF Genoemde
<1>10. \A r, s \in q.bij : r.pk = s.pk => r = s
  BY <1>2, <1>7 DEF Sleutels
<1>11. ASSUME NEW k \in K PROVE \E b \in rijen : b.pk = k /\ Rol(b)
  <2>1. PICK b \in D \ p.bij : b.pk = k
    BY <1>4, <1>11 DEF Pks
  <2> QED
    BY <1>2, <1>3, <1>5, <2>1 DEF VormRollen
<1>12. PICK X : X = {}
  OBVIOUS
<1>13. Vers(X) /\ \A x \in X : x \notin X
  BY <1>12 DEF Vers
<1>14. Verder(p, q, X)
  BY <1>7, <1>9, <1>10, <1>11 DEF Verder, Kent
<1>15. Las(q) \subseteq Las(p)
  <2>1. ASSUME NEW r \in p.bij, r.pk \in q.weg PROVE r.pk \in p.weg
    BY <1>2, <1>6, <1>7, <2>1 DEF Sleutels, Eigen, Pks
  <2> QED
    BY <1>1, <1>7, <1>9, <2>1 DEF Las
<1>16. ZichtVan(q, rijen) \subseteq ZichtVan(p, rijen)
  BY <1>7 DEF ZichtVan
<1>17. q.zaak \notin Uit => Eenmalig(ZichtVan(q, rijen), q.zaak)
  BY <1>2, <1>7, <1>16 DEF Eenmalig
<1> QED
  BY <1>1, <1>7, <1>8, <1>13, <1>14, <1>15, <1>17, RolStapGoed

\* A new rol is written, if the zaak may have it.
LEMMA RolNieuwGoed ==
  ASSUME IInv, NEW w \in Actief, tx[w].op \in {"registreren", "bijwerken"}, tx[w].fase = "rollen",
         tx[w].rollen # <<>>, NEW g, g = Head(tx[w].rollen), g.pk = 0,
         MagErbij(tx[w].zaak, g.soort, Zicht(w)), pks < MaxPk, pks' = pks + 1,
         NEW f \in Rij, f.pk = pks + 1, f.zaak = tx[w].zaak, f.naar = g.soort, Rol(f),
         NEW q, q.op = tx[w].op, q.zaak = tx[w].zaak, q.fase = "rollen", q.rollen = Tail(tx[w].rollen),
         q.klus = tx[w].klus, q.bij = tx[w].bij \cup {f}, q.weg = tx[w].weg, q \in Verzoek,
         Zet(w, q), UNCHANGED Rest
  PROVE  IInv'
<1> USE DossierAssumption
<1>1. PICK p : p = tx[w]
  OBVIOUS
<1>2. /\ Vorm(p) /\ VormRollen(p) /\ p \in Verzoek /\ p.op \in Rolwerk
      /\ Sleutels(p, rijen, pks) /\ PlaatsVan(p, rijen, Uit)
      /\ p.zaak \notin Uit => Eenmalig(ZichtVan(p, rijen), p.zaak)
      /\ pks \in 0..MaxPk /\ rijen \subseteq Rij
  BY <1>1, RolFeiten
<1>3. PICK T : T = Tail(p.rollen)
  OBVIOUS
<1>4. f \in Rij /\ f.pk = pks + 1 /\ f.zaak = p.zaak /\ f.naar = g.soort /\ Rol(f)
  BY <1>1
<1>5. /\ q.op = p.op /\ q.zaak = p.zaak /\ q.fase = p.fase /\ q.rollen = T
      /\ q.klus = p.klus /\ q.bij = p.bij \cup {f} /\ q.weg = p.weg
  BY <1>1, <1>3
<1>6. /\ \A i, j \in DOMAIN q.rollen : q.rollen[i].pk # 0 /\ q.rollen[i].pk = q.rollen[j].pk => i = j
      /\ \A i \in DOMAIN q.rollen :
           /\ q.rollen[i].pk \notin Pks(p.bij)
           /\ q.rollen[i].pk # 0 => q.rollen[i].pk \in Pks(Genoemde(p))
      /\ Genoemde(q) \subseteq Genoemde(p)
  <2>1. p.rollen # <<>> /\ g = Head(p.rollen) /\ q.rollen = Tail(p.rollen)
    BY <1>1
  <2>2. q.zaak = p.zaak
    BY <1>5
  <2> QED
    BY <1>2, <2>1, <2>2, OverigeRollen, Zenon
<1>7. /\ Gebruikt(p) \subseteq 1..pks /\ f.pk \notin 1..pks /\ f.pk # 0
      /\ Pks(Kent(p)) \subseteq 1..pks /\ p.weg \subseteq 1..pks /\ Pks(Genoemde(p)) \subseteq 1..pks
  <2>1. Gebruikt(p) \subseteq 1..pks /\ f.pk \notin 1..pks /\ f.pk # 0
    BY <1>2, <1>4 DEF Sleutels
  <2>2. Pks(Kent(p)) \subseteq Gebruikt(p) /\ p.weg \subseteq Gebruikt(p) /\ Pks(Genoemde(p)) \subseteq Pks(Kent(p))
    BY DEF Gebruikt, Kent, Pks
  <2> QED
    BY <2>1, <2>2
<1>8. Vorm(q)
  <2>1. ASSUME NEW i \in DOMAIN q.rollen PROVE q.rollen[i].pk \notin Pks(q.bij)
    <3>1. q.rollen[i].pk # f.pk
      BY <1>6, <1>7
    <3> QED
      BY <1>5, <1>6, <3>1 DEF Pks
  <2>2. \A r \in q.bij \cup q.klus : Rol(r) /\ r.zaak = q.zaak
    BY <1>2, <1>4, <1>5 DEF VormRollen
  <2>3. q.fase = "rollen"
    BY <1>1, <1>5
  <2>4. VormRollen(q)
    BY <1>6, <2>1, <2>2, <2>3 DEF VormRollen
  <2> QED
    BY <1>1, <1>5, <2>4 DEF Vorm
<1>9. PICK X : X = {f}
  OBVIOUS
<1>10. Vers(X) /\ \A x \in X : Rol(x)
  BY <1>4, <1>9 DEF Vers
<1>11. \A r \in p.bij : r.pk \in 1..pks
  BY <1>7 DEF Kent, Pks
<1>12. Verder(p, q, X)
  <2>1. Kent(q) \subseteq Kent(p) \cup X
    BY <1>5, <1>6, <1>9 DEF Kent
  <2>2. \A r, s \in q.bij : r.pk = s.pk => r = s
    BY <1>2, <1>5, <1>7, <1>11 DEF Sleutels
  <2> QED
    BY <1>5, <1>9, <2>1, <2>2 DEF Verder
<1>13. Las(q) \subseteq Las(p)
  <2>1. f.pk \notin p.weg
    BY <1>7
  <2> QED
    BY <1>1, <1>5, <1>6, <2>1 DEF Las
<1>14. ASSUME q.zaak \notin Uit PROVE Eenmalig(ZichtVan(q, rijen), q.zaak)
  <2>1. Eenmalig(ZichtVan(p, rijen), p.zaak)
    BY <1>2, <1>5, <1>14
  <2>2. ZichtVan(q, rijen) = ZichtVan(p, rijen) \cup {f}
    BY <1>5 DEF ZichtVan
  <2>3. f.naar \notin Beperkt \/ \A r \in ZichtVan(p, rijen) : ~(r.zaak = p.zaak /\ r.naar = f.naar)
    <3>1. Zicht(w) = ZichtVan(p, rijen)
      BY <1>1 DEF Zicht, ZichtVan
    <3> QED
      BY <1>1, <1>4, <3>1 DEF MagErbij
  <2> QED
    BY <1>5, <2>1, <2>2, <2>3 DEF Eenmalig
<1> QED
  BY <1>1, <1>5, <1>8, <1>10, <1>12, <1>13, <1>14, RolStapGoed

\* A rol that the request names is written again, as it was validated.
LEMMA RolOpnieuwGoed ==
  ASSUME IInv, NEW w \in Actief, tx[w].op \in {"registreren", "bijwerken"}, tx[w].fase = "rollen",
         tx[w].rollen # <<>>, NEW g, g = Head(tx[w].rollen), g.pk # 0,
         NEW o \in Zicht(w), o.pk = g.pk,
         NEW n \in Rij, n = Nieuw(tx[w].zaak, g.soort, g.pk), Rol(n),
         NEW q, q.op = tx[w].op, q.zaak = tx[w].zaak, q.fase = "rollen", q.rollen = Tail(tx[w].rollen),
         q.klus \subseteq tx[w].klus, q.bij = tx[w].bij \cup {n}, q.weg = tx[w].weg \cup {g.pk},
         q \in Verzoek, Zet(w, q), UNCHANGED <<Rest, pks>>
  PROVE  IInv'
<1> USE DossierAssumption
<1>1. PICK p : p = tx[w]
  OBVIOUS
<1>2. /\ Vorm(p) /\ VormRollen(p) /\ p \in Verzoek /\ p.op \in Rolwerk
      /\ Sleutels(p, rijen, pks) /\ PlaatsVan(p, rijen, Uit)
      /\ p.zaak \notin Uit => Eenmalig(ZichtVan(p, rijen), p.zaak)
      /\ pks \in 0..MaxPk /\ rijen \subseteq Rij
  BY <1>1, RolFeiten
<1>3. PICK T : T = Tail(p.rollen)
  OBVIOUS
<1>4. n \in Rij /\ n.pk = g.pk /\ n.zaak = p.zaak /\ n.naar = g.soort /\ Rol(n)
  BY <1>1 DEF Nieuw
<1>5. /\ q.op = p.op /\ q.zaak = p.zaak /\ q.fase = p.fase /\ q.rollen = T
      /\ q.klus \subseteq p.klus /\ q.bij = p.bij \cup {n} /\ q.weg = p.weg \cup {g.pk}
  BY <1>1, <1>3
<1>6. /\ \A i, j \in DOMAIN q.rollen : q.rollen[i].pk # 0 /\ q.rollen[i].pk = q.rollen[j].pk => i = j
      /\ \A i \in DOMAIN q.rollen :
           /\ q.rollen[i].pk \notin Pks(p.bij)
           /\ q.rollen[i].pk # 0 => q.rollen[i].pk # g.pk
      /\ Genoemde(q) \subseteq Genoemde(p) /\ n \in Genoemde(p) /\ g.pk \notin Pks(p.bij)
  <2>1. p.rollen # <<>> /\ g = Head(p.rollen) /\ q.rollen = Tail(p.rollen) /\ n = Nieuw(p.zaak, g.soort, g.pk)
    BY <1>1
  <2>2. q.zaak = p.zaak
    BY <1>5
  <2>3. Nieuw(p.zaak, g.soort, g.pk) \in Genoemde(p)
    BY <1>2, <2>1, <2>2, OverigeRollen, Zenon
  <2>4. n \in Genoemde(p)
    BY <2>1, <2>3, Zenon
  <2>5. /\ \A i, j \in DOMAIN q.rollen : q.rollen[i].pk # 0 /\ q.rollen[i].pk = q.rollen[j].pk => i = j
        /\ \A i \in DOMAIN q.rollen :
             /\ q.rollen[i].pk \notin Pks(p.bij)
             /\ q.rollen[i].pk # 0 => q.rollen[i].pk \in Pks(Genoemde(p)) /\ q.rollen[i].pk # g.pk
        /\ g.pk \notin Pks(p.bij)
        /\ Genoemde(q) \subseteq Genoemde(p)
    BY <1>2, <2>1, <2>2, OverigeRollen, Zenon
  <2> HIDE <1>1, <1>2, <1>3, <1>4, <1>5
  <2> QED
    BY <2>4, <2>5
<1>7. \A r \in p.bij : r.pk # g.pk
  BY <1>6 DEF Pks
<1>8. o \in rijen /\ o.pk \notin p.weg
  BY <1>1, <1>7 DEF Zicht
<1>9. o.naar = n.naar /\ Rol(o)
  <2>1. n \in Bekend /\ o \in Bekend
    BY <1>1, <1>6, <1>8, Voorheen DEF IInv, Bekend
  <2>2. EenSoort(o, n)
    BY <2>1 DEF IInv, TypeInv, BekendInv
  <2> QED
    BY <1>4, <2>2 DEF EenSoort, Rol
<1>10. Vorm(q)
  <2>1. ASSUME NEW i \in DOMAIN q.rollen PROVE q.rollen[i].pk \notin Pks(q.bij)
    <3>1. q.rollen[i].pk # n.pk
      BY <1>2, <1>4, <1>5, <1>6
    <3>2. ASSUME NEW r \in q.bij PROVE q.rollen[i].pk # r.pk
      <4>1. CASE r = n
        BY <3>1, <4>1
      <4>2. CASE r \in p.bij
        <5>1. r.pk \in Pks(p.bij)
          BY <4>2 DEF Pks
        <5> QED
          BY <1>6, <5>1
      <4> QED
        BY <1>5, <4>1, <4>2
    <3> QED
      BY <3>2 DEF Pks
  <2>2. \A r \in q.bij \cup q.klus : Rol(r) /\ r.zaak = q.zaak
    BY <1>2, <1>4, <1>5 DEF VormRollen
  <2>3. q.fase = "rollen"
    BY <1>1, <1>5
  <2>4. VormRollen(q)
    BY <1>6, <2>1, <2>2, <2>3 DEF VormRollen
  <2> QED
    BY <1>1, <1>5, <2>4 DEF Vorm
<1>11. PICK X : X = {}
  OBVIOUS
<1>12. Vers(X) /\ \A x \in X : x \notin X
  BY <1>11 DEF Vers
<1>13. Verder(p, q, X)
  <2>1. Kent(q) \subseteq Kent(p)
    BY <1>5, <1>6 DEF Kent
  <2>2. \A r, s \in q.bij : r.pk = s.pk => r = s
    BY <1>2, <1>4, <1>5, <1>7 DEF Sleutels
  <2>3. \A r \in q.bij : r \in p.bij \/ r.pk \in q.weg
    BY <1>4, <1>5
  <2>4. \A k \in q.weg \ p.weg : \E b \in rijen : b.pk = k /\ Rol(b)
    BY <1>5, <1>8, <1>9
  <2> QED
    BY <1>5, <2>1, <2>2, <2>3, <2>4 DEF Verder
<1>14. Las(q) \subseteq Las(p)
  BY <1>1, <1>5, <1>6, <1>7 DEF Las
<1>15. ASSUME q.zaak \notin Uit PROVE Eenmalig(ZichtVan(q, rijen), q.zaak)
  <2>1. Eenmalig(ZichtVan(p, rijen), p.zaak)
    BY <1>2, <1>5, <1>15
  <2>2. n \in Las(p)
    BY <1>1, <1>6 DEF Las
  <2>3. o.zaak = n.zaak
    BY <1>2, <1>4, <1>5, <1>8, <1>15, <2>2 DEF PlaatsVan, Elders
  <2>4. o = n
    <3>1. o \in Rij
      BY <1>2, <1>8
    <3> QED
      BY <1>4, <1>9, <2>3, <3>1, RijGelijk
  <2>5. ZichtVan(q, rijen) \subseteq ZichtVan(p, rijen)
    BY <1>5, <1>8, <2>4 DEF ZichtVan
  <2> QED
    BY <1>5, <2>1, <2>5 DEF Eenmalig
<1> QED
  BY <1>1, <1>5, <1>10, <1>12, <1>13, <1>14, <1>15, RolStapGoed

LEMMA RolOpslaanGoed ==
  ASSUME IInv, NEW w \in Werkers, RolOpslaan(w)
  PROVE  IInv'
<1>1. /\ w \in Actief /\ tx[w].op \in {"registreren", "bijwerken"} /\ tx[w].fase = "rollen"
      /\ UNCHANGED Rest
  BY DEF RolOpslaan, Schrijft, Actief
<1>2. tx[w] \in Verzoek /\ pks \in 0..MaxPk /\ rijen \subseteq Rij
  BY <1>1, RolFeiten
<1>3. CASE tx[w].rollen = <<>>
  <2>1. PICK D : D = tx[w].klus \cap Zicht(w)
    OBVIOUS
  <2>2. PICK q : q = [tx[w] EXCEPT !.bij = @ \ D, !.weg = @ \cup Pks(D \ tx[w].bij), !.fase = "klaar", !.klus = {}]
    OBVIOUS
  <2>3. Zet(w, q) /\ pks' = pks
    BY <1>3, <2>1, <2>2 DEF RolOpslaan, Met, Zet, Gewist
  <2>4. Pks(D \ tx[w].bij) \in SUBSET (1..MaxPk)
    <3>1. D \ tx[w].bij \subseteq rijen
      BY <2>1 DEF Zicht
    <3> QED
      BY <1>2, <3>1 DEF Pks, Rij
  <2>5. /\ q.op = tx[w].op /\ q.zaak = tx[w].zaak /\ q.fase = "klaar" /\ q.rollen = <<>> /\ q.klus = {}
        /\ q.bij = tx[w].bij \ D /\ q.weg = tx[w].weg \cup Pks(D \ tx[w].bij) /\ q \in Verzoek
    BY <1>3, <1>2, <2>2, <2>4 DEF Verzoek
  <2> QED
    BY <1>1, <1>3, <2>1, <2>3, <2>5, RolResterendGoed
<1>4. CASE tx[w].rollen # <<>>
  <2>1. PICK g : g = Head(tx[w].rollen)
    OBVIOUS
  <2>2. PICK z : z = tx[w].zaak
    OBVIOUS
  <2>3. PICK volgende : volgende = [tx[w] EXCEPT !.rollen = Tail(@)]
    OBVIOUS
  <2>4. \/ /\ g.pk = 0 /\ MagErbij(z, g.soort, Zicht(w)) /\ pks < MaxPk
           /\ pks' = pks + 1
           /\ Met(w, [volgende EXCEPT !.bij = @ \cup {Nieuw(z, g.soort, pks')}])
        \/ /\ g.pk # 0 /\ {r \in Zicht(w) : r.pk = g.pk} # {}
           /\ Met(w, [volgende EXCEPT !.bij = @ \cup {Nieuw(z, g.soort, g.pk)},
                                      !.weg = @ \cup {g.pk},
                                      !.klus = {r \in @ : r.pk # g.pk}])
           /\ UNCHANGED pks
        \/ Met(w, Geen) /\ UNCHANGED pks
    <3>1. \A pk \in Pks(tx[w].klus) : pk # 0
      BY <1>2 DEF Pks, Rij, Verzoek
    <3> QED
      BY <1>4, <2>1, <2>2, <2>3, <3>1 DEF RolOpslaan
  <2>5. g \in Gegeven /\ Tail(tx[w].rollen) \in Seq(Gegeven)
    BY <1>4, <1>2, <2>1 DEF Verzoek
  <2>6. /\ volgende.op = tx[w].op /\ volgende.zaak = tx[w].zaak /\ volgende.fase = tx[w].fase
        /\ volgende.rollen = Tail(tx[w].rollen)
        /\ volgende.klus = tx[w].klus /\ volgende.bij = tx[w].bij /\ volgende.weg = tx[w].weg /\ volgende \in Verzoek
    BY <1>2, <2>3, <2>5 DEF Verzoek
  <2>7. CASE /\ g.pk = 0 /\ MagErbij(z, g.soort, Zicht(w)) /\ pks < MaxPk
             /\ pks' = pks + 1
             /\ Met(w, [volgende EXCEPT !.bij = @ \cup {Nieuw(z, g.soort, pks')}])
    <3>1. PICK f : f = Nieuw(z, g.soort, pks + 1)
      OBVIOUS
    <3>2. PICK q : q = [volgende EXCEPT !.bij = @ \cup {f}]
      OBVIOUS
    <3>3. Zet(w, q)
      BY <2>7, <3>1, <3>2 DEF Met, Zet
    <3>4. f \in Rij /\ f.pk = pks + 1 /\ f.zaak = tx[w].zaak /\ f.naar = g.soort /\ Rol(f)
      BY <1>2, <2>2, <2>7, <2>5, <3>1, DossierAssumption DEF Nieuw, Rij, Rol, Gegeven, Verzoek
    <3>5. /\ q.op = tx[w].op /\ q.zaak = tx[w].zaak /\ q.fase = "rollen" /\ q.rollen = Tail(tx[w].rollen)
          /\ q.klus = tx[w].klus /\ q.bij = tx[w].bij \cup {f} /\ q.weg = tx[w].weg /\ q \in Verzoek
      BY <1>1, <2>6, <3>2, <3>4 DEF Verzoek
    <3> QED
      BY <1>1, <1>4, <2>1, <2>2, <2>7, <3>3, <3>4, <3>5, RolNieuwGoed
  <2>8. CASE /\ g.pk # 0 /\ {r \in Zicht(w) : r.pk = g.pk} # {}
             /\ Met(w, [volgende EXCEPT !.bij = @ \cup {Nieuw(z, g.soort, g.pk)},
                                        !.weg = @ \cup {g.pk},
                                        !.klus = {r \in @ : r.pk # g.pk}])
             /\ UNCHANGED pks
    <3>1. PICK n : n = Nieuw(z, g.soort, g.pk)
      OBVIOUS
    <3>2. PICK o \in Zicht(w) : o.pk = g.pk
      BY <2>8
    <3>3. PICK S : S = {r \in volgende.klus : r.pk # g.pk}
      OBVIOUS
    <3>4. PICK q : q = [volgende EXCEPT !.bij = @ \cup {n}, !.weg = @ \cup {g.pk}, !.klus = S]
      OBVIOUS
    <3>5. Zet(w, q)
      BY <2>8, <3>1, <3>3, <3>4 DEF Met, Zet
    <3>6. g.pk \in 1..MaxPk
      BY <2>8, <2>5, DossierAssumption DEF Gegeven
    <3>7. n \in Rij /\ Rol(n)
      BY <1>2, <2>2, <2>5, <3>1, <3>6 DEF Nieuw, Rij, Rol, Gegeven, Verzoek
    <3>8. S \subseteq tx[w].klus /\ S \in SUBSET Rij /\ {g.pk} \in SUBSET (1..MaxPk) /\ {n} \in SUBSET Rij
      BY <1>2, <2>6, <3>3, <3>6, <3>7 DEF Verzoek
    <3>9. /\ q.op = tx[w].op /\ q.zaak = tx[w].zaak /\ q.fase = "rollen" /\ q.rollen = Tail(tx[w].rollen)
          /\ q.klus = S /\ q.bij = tx[w].bij \cup {n} /\ q.weg = tx[w].weg \cup {g.pk} /\ q \in Verzoek
      BY <1>1, <2>6, <3>4, <3>8 DEF Verzoek
    <3> QED
      BY <1>1, <1>4, <2>1, <2>2, <2>8, <3>1, <3>2, <3>5, <3>7, <3>8, <3>9, RolOpnieuwGoed
  <2>9. CASE Met(w, Geen) /\ UNCHANGED pks
    BY <1>1, <2>9, EindeGoed DEF Met, Zet
  <2> QED
    BY <2>4, <2>7, <2>8, <2>9
<1> QED
  BY <1>3, <1>4

-----------------------------------------------------------------------------
(* A zaak and its relations are written. *)

LEMMA ZaakFeiten ==
  ASSUME IInv, NEW w \in Actief, tx[w].op \in {"post", "patch"}
  PROVE  /\ Vorm(tx[w]) /\ VormZaak(tx[w]) /\ tx[w] \in Verzoek /\ tx[w].op \notin Rolwerk
         /\ Sleutels(tx[w], rijen, pks)
         /\ Maakt(tx[w], rijen, herhaald) /\ Verwijdert(tx[w], rijen, herhaald)
         /\ pks \in 0..MaxPk /\ rijen \subseteq Rij /\ tx[w].bij \subseteq Rij
         /\ Uniek /\ rijen \subseteq Geschreven /\ tx[w].bij \subseteq Geschreven
         /\ Zicht(w) = ZichtVan(tx[w], rijen)
<1>1. Vorm(tx[w]) /\ tx[w] \in Verzoek /\ Sleutels(tx[w], rijen, pks)
  BY Voorheen DEF IInv
<1>2. VormZaak(tx[w]) /\ tx[w].op \notin Rolwerk
  BY <1>1 DEF Vorm, Rolwerk
<1>3. Maakt(tx[w], rijen, herhaald) /\ Verwijdert(tx[w], rijen, herhaald) /\ Uniek
  BY DEF IInv, RelatieInv
<1>4. pks \in 0..MaxPk /\ rijen \subseteq Rij /\ tx[w].bij \subseteq Rij
  BY <1>1 DEF IInv, TypeInv, TypeOK, Verzoek
<1> QED
  BY <1>1, <1>2, <1>3, <1>4 DEF Geschreven, Zicht, ZichtVan

\* What another request made of relations, it wrote for its zaak.
LEMMA AnderBij ==
  ASSUME IInv, NEW w \in Actief, NEW v \in Actief \ {w}, NEW a \in tx[v].bij, Relatie(a)
  PROVE  /\ v \in Anderen(w) /\ tx[v].op \in {"post", "patch"} /\ VormZaak(tx[v])
         /\ Slot(tx[v], tx[w]) /\ tx[v] \in Verzoek
<1>1. Vorm(tx[v]) /\ tx[v] \in Verzoek /\ v \in Werkers
  BY Voorheen DEF IInv
<1>2. tx[v].op \notin Rolwerk
  BY <1>1, RolwerkMaakt DEF IInv
<1>3. tx[v].op # "delete"
  BY <1>1 DEF Vorm, VormDelete
<1>4. tx[v].op \in {"post", "patch"}
  BY <1>1, <1>2, <1>3 DEF Verzoek, Rolwerk
<1>5. VormZaak(tx[v])
  BY <1>1, <1>4 DEF Vorm
<1>6. v \in Anderen(w)
  BY <1>1, <1>5 DEF VormZaak, Anderen, Actief
<1>7. Slot(tx[v], tx[w])
  BY DEF IInv, TypeInv, SlotInv
<1> QED
  BY <1>1, <1>4, <1>5, <1>6, <1>7

\* A relation that a request does not see is not written by another: of zaken of this
\* installation because of the unique key, of others because the zaak is locked.
LEMMA NogNiet ==
  ASSUME IInv, NEW w \in Actief, tx[w].op \in {"post", "patch"}, tx[w].weg = {}, Schrijvend(tx[w]),
         NEW f, Relatie(f), Paar(w, f.zaak, f.naar) = {}, f.zaak \in Zaken,
         (f.naar \in Zaken /\ VrijPaar(w, f.zaak, f.naar)) \/ (f.naar \in Extern /\ f.zaak = tx[w].zaak)
  PROVE  \A a \in Geschreven : ~Dezelfde(f, a)
<1> USE DossierAssumption
<1> SUFFICES ASSUME NEW a \in Geschreven, Dezelfde(f, a) PROVE FALSE
  OBVIOUS
<1>1. a.zaak = f.zaak /\ a.naar = f.naar /\ Relatie(a)
  BY DEF Dezelfde, Relatie
<1>2. a \notin rijen /\ a \notin tx[w].bij
  BY <1>1 DEF Paar, Zicht
<1>3. PICK v \in Actief \ {w} : a \in tx[v].bij
  BY <1>2 DEF Geschreven
<1>4. v \in Anderen(w) /\ tx[v].op \in {"post", "patch"} /\ VormZaak(tx[v]) /\ Slot(tx[v], tx[w]) /\ tx[v] \in Verzoek
  BY <1>1, <1>3, AnderBij
<1>5. f.naar \in Extern /\ f.zaak = tx[w].zaak
  BY <1>1, <1>3, <1>4 DEF VrijPaar
<1>6. tx[v].zaak \in Zaken /\ tx[v].zaak = a.zaak
  BY <1>1, <1>3, <1>4, <1>5 DEF VormZaak, Verzoek
<1>7. Schrijvend(tx[v])
  BY <1>4 DEF Anderen, Schrijvend
<1> QED
  BY <1>1, <1>4, <1>5, <1>6, <1>7 DEF Slot

\* The relation is there.
LEMMA GetGoed ==
  ASSUME IInv, NEW w \in Actief, tx[w].op \in {"post", "patch"}, tx[w].fase = "relaties",
         NEW q, q \in Verzoek, q.op = tx[w].op, q.zaak = tx[w].zaak, q.fase = "relaties",
         q.lijst = tx[w].lijst, q.todo \subseteq tx[w].todo, q.rollen = tx[w].rollen,
         q.klus = tx[w].klus, q.bij = tx[w].bij, q.weg = tx[w].weg,
         Zet(w, q), UNCHANGED <<Rest, pks>>
  PROVE  IInv'
<1>1. PICK p : p = tx[w]
  OBVIOUS
<1>2. /\ Vorm(p) /\ VormZaak(p) /\ p.op \notin Rolwerk
      /\ Maakt(p, rijen, herhaald) /\ Verwijdert(p, rijen, herhaald)
  BY <1>1, ZaakFeiten
<1>3. Vorm(q)
  BY <1>1, <1>2 DEF Vorm, VormZaak
<1>4. Maakt(q, rijen, herhaald) /\ Verwijdert(q, rijen, herhaald)
  BY <1>1, <1>2 DEF Maakt, Verwijdert
<1>5. Kent(q) = Kent(p)
  BY <1>1 DEF Kent, Genoemde
<1>6. Schrijvend(p)
  BY <1>1 DEF Schrijvend
<1> QED
  BY <1>1, <1>2, <1>3, <1>4, <1>5, <1>6, ZaakStapGoed

\* A relation is made, with a zaak of this installation or of another.
LEMMA CreateGoed ==
  ASSUME IInv, NEW w \in Actief, tx[w].op \in {"post", "patch"}, tx[w].fase = "relaties",
         NEW f \in Rij, f.pk = pks + 1, pks' = pks + 1, f.zaak = tx[w].zaak, f.naar \in tx[w].todo,
         Paar(w, f.zaak, f.naar) = {}, f.naar \in Zaken => VrijPaar(w, f.zaak, f.naar),
         NEW q, q \in Verzoek, q.op = tx[w].op, q.zaak = tx[w].zaak,
         q.lijst = tx[w].lijst, q.todo \subseteq tx[w].todo, q.rollen = tx[w].rollen,
         q.bij = tx[w].bij \cup {f}, q.weg = tx[w].weg,
         \/ f.naar \in Zaken /\ q.fase = "omgekeerd" /\ q.klus = {f}
         \/ f.naar \notin Zaken /\ q.fase = "relaties" /\ q.klus = tx[w].klus,
         Zet(w, q), UNCHANGED Rest
  PROVE  IInv'
<1> USE DossierAssumption
<1>1. PICK p : p = tx[w]
  OBVIOUS
<1>2. /\ Vorm(p) /\ VormZaak(p) /\ p \in Verzoek /\ p.op \notin Rolwerk /\ Sleutels(p, rijen, pks)
      /\ Maakt(p, rijen, herhaald) /\ Verwijdert(p, rijen, herhaald)
      /\ pks \in 0..MaxPk /\ rijen \subseteq Rij /\ p.bij \subseteq Rij
      /\ Zicht(w) = ZichtVan(p, rijen)
  BY <1>1, ZaakFeiten
<1>3. p.weg = {} /\ p.klus = {} /\ p.rollen = <<>> /\ p.todo \subseteq p.lijst
  BY <1>1, <1>2 DEF VormZaak
<1>4. f.naar \in p.lijst /\ Relatie(f) /\ f.zaak = p.zaak
      /\ f.naar \in Zaken \cup Extern
  BY <1>1, <1>2, <1>3 DEF Relatie, Verzoek
<1>5. \A r \in ZichtVan(p, rijen) : ~(r.zaak = f.zaak /\ r.naar = f.naar)
  BY <1>2 DEF Paar
<1>6. rijen \subseteq ZichtVan(p, rijen) /\ p.bij \subseteq ZichtVan(p, rijen)
  BY <1>3 DEF ZichtVan
\* The reverse is not one of those made before.
<1>7. ASSUME NEW s \in p.bij, Keert(f, s) PROVE FALSE
  <2>1. s.zaak = f.naar /\ s.naar = p.zaak
    BY <1>4, <1>7 DEF Keert
  <2>2. CASE s.zaak = p.zaak
    BY <1>4, <1>5, <1>6, <2>1, <2>2
  <2>3. CASE s.zaak # p.zaak
    <3>1. PICK t \in p.bij : Keert(s, t)
      BY <1>2, <2>3 DEF VormZaak
    <3>2. t.zaak = f.zaak /\ t.naar = f.naar
      BY <1>4, <2>1, <3>1 DEF Keert
    <3> QED
      BY <1>5, <1>6, <3>1, <3>2
  <2> QED
    BY <2>2, <2>3
<1>9. Vorm(q)
  <2>1. ASSUME NEW r \in q.bij
        PROVE  /\ Relatie(r) /\ r.pk \notin q.weg
               /\ \/ r.zaak = q.zaak /\ r.naar \in q.lijst
                  \/ r.naar = q.zaak /\ r.zaak \in q.lijst /\ \E s \in q.bij : Keert(r, s)
    <3>1. CASE r = f
      BY <1>1, <1>3, <1>4, <3>1
    <3>2. CASE r \in p.bij
      <4>1. /\ Relatie(r) /\ r.pk \notin p.weg
            /\ \/ r.zaak = p.zaak /\ r.naar \in p.lijst
               \/ r.naar = p.zaak /\ r.zaak \in p.lijst /\ \E s \in p.bij : Keert(r, s)
        BY <1>2, <3>2 DEF VormZaak
      <4> QED
        BY <1>1, <4>1
    <3> QED
      BY <1>1, <3>1, <3>2
  <2>2. \A s \in q.bij : Keert(f, s) => s = f
    BY <1>1, <1>7
  <2>3. q.todo \subseteq q.lijst /\ q.rollen = <<>> /\ q.weg = {}
    BY <1>1, <1>3
  <2>4. q.fase = "omgekeerd" => q.klus = {f} /\ f \in q.bij /\ f.zaak = q.zaak /\ f.naar \in Zaken
    BY <1>1, <1>4
  <2>5. q.fase \in {"relaties", "omgekeerd"} /\ (q.fase = "relaties" => q.klus = {})
    BY <1>1, <1>3
  <2>6. VormZaak(q)
    BY <2>1, <2>2, <2>3, <2>4, <2>5 DEF VormZaak
  <2> QED
    BY <1>1, <2>6 DEF Vorm
<1>10. PICK X : X = {f}
  OBVIOUS
<1>11. Vers(X)
  BY <1>10 DEF Vers
<1>12. Genoemde(q) = {}
  BY <1>1, <1>3 DEF Genoemde
<1>13. Verder(p, q, X)
  <2>1. Kent(q) \subseteq Kent(p) \cup X
    BY <1>1, <1>10, <1>12 DEF Kent
  <2>2. \A r \in p.bij : r.pk \in 1..pks /\ r.pk # f.pk
    BY <1>2 DEF Sleutels, Gebruikt, Kent, Pks
  <2>3. \A r, s \in q.bij : r.pk = s.pk => r = s
    BY <1>1, <1>2, <2>2 DEF Sleutels
  <2> QED
    BY <1>1, <1>10, <2>1, <2>3 DEF Verder
<1>14. \A x \in X : Relatie(x) => \A a \in Geschreven : ~Dezelfde(x, a)
  <2>1. Schrijvend(tx[w]) /\ tx[w].weg = {}
    BY <1>1, <1>3 DEF Schrijvend
  <2>2. f.zaak \in Zaken
    BY DEF Rij
  <2>3. (f.naar \in Zaken /\ VrijPaar(w, f.zaak, f.naar)) \/ (f.naar \in Extern /\ f.zaak = tx[w].zaak)
    BY <1>4
  <2>4. \A a \in Geschreven : ~Dezelfde(f, a)
    BY <1>4, <2>1, <2>2, <2>3, NogNiet
  <2> QED
    BY <1>10, <2>4
<1>15. Maakt(q, rijen, herhaald)
  <2> SUFFICES ASSUME NEW r \in q.bij, Ongestoord(r, herhaald)
               PROVE  /\ \/ \E s \in q.bij : Keert(r, s)
                         \/ q.fase \in {"omgekeerd", "omgekeerd_insert"} /\ q.klus = {r}
                      /\ \A s \in rijen : ~Keert(r, s)
    BY DEF Maakt
  <2>1. CASE r \in p.bij
    BY <1>1, <1>2, <2>1 DEF Maakt
  <2>2. CASE r = f
    <3>1. q.fase = "omgekeerd" /\ q.klus = {f}
      BY <2>2 DEF Ongestoord
    <3>2. ASSUME NEW s \in rijen, Keert(f, s) PROVE FALSE
      <4>1. s.zaak = f.naar /\ s.naar = f.zaak /\ f.zaak \in Zaken
        BY <3>2 DEF Keert, Rij
      <4>2. {s.zaak, s.naar} = {f.zaak, f.naar}
        BY <4>1
      <4>3. s.naar \in Zaken /\ {s.zaak, s.naar} \notin herhaald
        BY <2>2, <4>1, <4>2 DEF Ongestoord
      <4>4. PICK t \in rijen : t.zaak = s.naar /\ t.naar = s.zaak
        BY <3>2, <4>3 DEF IInv, RelatieInv, Wederkerig
      <4> QED
        BY <1>5, <1>6, <4>1, <4>4
    <3> QED
      BY <2>2, <3>1, <3>2
  <2> QED
    BY <1>1, <2>1, <2>2
<1>16. Verwijdert(q, rijen, herhaald)
  BY <1>1, <1>3 DEF Verwijdert
<1>17. Schrijvend(p) /\ q.op \notin Rolwerk
  BY <1>1, <1>2 DEF Schrijvend
<1>18. \A r \in q.bij : r \in p.bij \/ r \in X
  BY <1>1, <1>10
<1> QED
  BY <1>1, <1>9, <1>11, <1>13, <1>14, <1>15, <1>16, <1>17, <1>18, StapGoed

LEMMA GetOrCreateGoed ==
  ASSUME IInv, NEW w \in Werkers, NEW y \in Zaken \cup Extern, GetOrCreate(w, y)
  PROVE  IInv'
<1>1. /\ w \in Actief /\ tx[w].op \in {"post", "patch"} /\ tx[w].fase = "relaties"
      /\ y \in tx[w].todo /\ UNCHANGED Rest
  BY DEF GetOrCreate, Schrijft, Actief
<1>2. PICK p : p = tx[w]
  OBVIOUS
<1>3. p \in Verzoek /\ pks \in 0..MaxPk
  BY <1>1, <1>2, ZaakFeiten
<1>4. \/ Met(w, [p EXCEPT !.todo = @ \ {y}]) /\ UNCHANGED pks
      \/ /\ Paar(w, p.zaak, y) = {} /\ pks < MaxPk /\ (y \in Zaken => VrijPaar(w, p.zaak, y))
         /\ pks' = pks + 1
         /\ LET r == Nieuw(p.zaak, y, pks') IN
              Met(w, IF y \in Zaken
                     THEN [p EXCEPT !.bij = @ \cup {r}, !.fase = "omgekeerd", !.klus = {r}]
                     ELSE [p EXCEPT !.bij = @ \cup {r}, !.todo = @ \ {y}])
  BY <1>2 DEF GetOrCreate
<1>5. CASE Met(w, [p EXCEPT !.todo = @ \ {y}]) /\ UNCHANGED pks
  <2>1. PICK q : q = [p EXCEPT !.todo = @ \ {y}]
    OBVIOUS
  <2>2. Zet(w, q)
    BY <1>5, <2>1 DEF Met, Zet
  <2>3. /\ q \in Verzoek /\ q.op = p.op /\ q.zaak = p.zaak /\ q.fase = p.fase /\ q.lijst = p.lijst
        /\ q.todo \subseteq p.todo /\ q.rollen = p.rollen /\ q.klus = p.klus /\ q.bij = p.bij /\ q.weg = p.weg
    BY <1>3, <2>1 DEF Verzoek
  <2> QED
    BY <1>1, <1>2, <1>5, <2>2, <2>3, GetGoed
<1>6. CASE /\ Paar(w, p.zaak, y) = {} /\ pks < MaxPk /\ (y \in Zaken => VrijPaar(w, p.zaak, y))
           /\ pks' = pks + 1
           /\ LET r == Nieuw(p.zaak, y, pks') IN
                Met(w, IF y \in Zaken
                       THEN [p EXCEPT !.bij = @ \cup {r}, !.fase = "omgekeerd", !.klus = {r}]
                       ELSE [p EXCEPT !.bij = @ \cup {r}, !.todo = @ \ {y}])
  <2>1. PICK f : f = Nieuw(p.zaak, y, pks + 1)
    OBVIOUS
  <2>2. f \in Rij /\ f.pk = pks + 1 /\ f.zaak = p.zaak /\ f.naar = y
    BY <1>3, <1>6, <2>1, DossierAssumption DEF Nieuw, Rij, Verzoek
  <2>3. CASE y \in Zaken
    <3>1. PICK q : q = [p EXCEPT !.bij = @ \cup {f}, !.fase = "omgekeerd", !.klus = {f}]
      OBVIOUS
    <3>2. Zet(w, q)
      BY <1>6, <2>1, <2>3, <3>1 DEF Met, Zet
    <3>3. /\ q \in Verzoek /\ q.op = p.op /\ q.zaak = p.zaak /\ q.fase = "omgekeerd" /\ q.lijst = p.lijst
          /\ q.todo = p.todo /\ q.rollen = p.rollen /\ q.klus = {f} /\ q.bij = p.bij \cup {f} /\ q.weg = p.weg
      BY <1>3, <2>2, <3>1 DEF Verzoek
    <3> QED
      BY <1>1, <1>2, <1>6, <2>2, <2>3, <3>2, <3>3, CreateGoed
  <2>4. CASE y \notin Zaken
    <3>1. PICK q : q = [p EXCEPT !.bij = @ \cup {f}, !.todo = @ \ {y}]
      OBVIOUS
    <3>2. Zet(w, q)
      BY <1>6, <2>1, <2>4, <3>1 DEF Met, Zet
    <3>3. /\ q \in Verzoek /\ q.op = p.op /\ q.zaak = p.zaak /\ q.fase = p.fase /\ q.lijst = p.lijst
          /\ q.todo \subseteq p.todo /\ q.rollen = p.rollen /\ q.klus = p.klus /\ q.bij = p.bij \cup {f} /\ q.weg = p.weg
      BY <1>3, <2>2, <3>1 DEF Verzoek
    <3> QED
      BY <1>1, <1>2, <1>6, <2>2, <2>4, <3>2, <3>3, CreateGoed
  <2> QED
    BY <2>3, <2>4
<1> QED
  BY <1>4, <1>5, <1>6

\* The reverse of a relation with another zaak that is not excused is not there yet, and the
\* relation is there once.
LEMMA OmgekeerdFeiten ==
  ASSUME IInv, NEW w \in Actief, tx[w].op \in {"post", "patch"},
         tx[w].fase \in {"omgekeerd", "omgekeerd_insert"}, NEW r \in tx[w].klus
  PROVE  /\ tx[w].klus = {r} /\ r \in tx[w].bij /\ r \in Rij /\ tx[w].weg = {}
         /\ r.zaak = tx[w].zaak /\ r.naar \in Zaken /\ r.naar \in tx[w].lijst /\ r.zaak \in Zaken
         /\ Paar(w, r.naar, r.zaak) # {} => r.naar = r.zaak \/ ~Ongestoord(r, herhaald)
         /\ Paar(w, r.zaak, r.naar) = {r}
<1>1. PICK p : p = tx[w]
  OBVIOUS
<1>2. /\ VormZaak(p) /\ Maakt(p, rijen, herhaald) /\ p \in Verzoek /\ Sleutels(p, rijen, pks)
      /\ p.bij \subseteq Rij /\ Uniek /\ rijen \subseteq Geschreven /\ p.bij \subseteq Geschreven
      /\ Zicht(w) = ZichtVan(p, rijen)
  BY <1>1, ZaakFeiten
<1>3. /\ p.klus = {r} /\ r \in p.bij /\ p.weg = {} /\ r.zaak = p.zaak /\ r.naar \in Zaken
      /\ \A s \in p.bij : Keert(r, s) => s = r
  BY <1>1, <1>2 DEF VormZaak
<1>4. r \in Rij /\ r.zaak \in Zaken /\ r.naar \in p.lijst
  BY <1>2, <1>3 DEF VormZaak, Verzoek
<1>5. ASSUME Ongestoord(r, herhaald), Paar(w, r.naar, r.zaak) # {}, r.naar # r.zaak PROVE FALSE
  <2>1. PICK t \in ZichtVan(p, rijen) : t.zaak = r.naar /\ t.naar = r.zaak
    BY <1>2, <1>5 DEF Paar
  <2>2. Keert(r, t) /\ t # r /\ (t \in rijen \/ t \in p.bij)
    BY <1>5, <2>1 DEF Keert, ZichtVan
  <2> QED
    BY <1>2, <1>3, <1>5, <2>2 DEF Maakt
<1>6. Paar(w, r.zaak, r.naar) = {r}
  <2>1. r \in ZichtVan(p, rijen)
    BY <1>3 DEF ZichtVan
  <2>2. ASSUME NEW t \in ZichtVan(p, rijen), t.zaak = r.zaak, t.naar = r.naar PROVE t = r
    <3>1. t \in Geschreven /\ r \in Geschreven
      BY <1>2, <1>3 DEF ZichtVan
    <3>2. Relatie(t) /\ Dezelfde(t, r)
      BY <1>3, <2>2 DEF Relatie, Dezelfde
    <3> QED
      BY <1>2, <3>1, <3>2 DEF Uniek
  <2> QED
    BY <1>2, <2>1, <2>2 DEF Paar
<1> QED
  BY <1>1, <1>3, <1>4, <1>5, <1>6

LEMMA OmgekeerdGoed ==
  ASSUME IInv, NEW w \in Werkers, Omgekeerd(w)
  PROVE  IInv'
<1>1. /\ w \in Actief /\ tx[w].op \in {"post", "patch"} /\ tx[w].fase = "omgekeerd"
      /\ UNCHANGED <<Rest, pks>>
  BY DEF Omgekeerd, Schrijft, Actief
<1>2. PICK p : p = tx[w]
  OBVIOUS
<1>3. /\ Vorm(p) /\ VormZaak(p) /\ p \in Verzoek /\ p.op \notin Rolwerk
      /\ Maakt(p, rijen, herhaald) /\ Verwijdert(p, rijen, herhaald)
  BY <1>1, <1>2, ZaakFeiten
<1>4. PICK r \in p.klus :
        IF Paar(w, r.naar, r.zaak) # {}
        THEN Met(w, [p EXCEPT !.fase = "relaties", !.todo = @ \ {r.naar}, !.klus = {}])
        ELSE Met(w, [p EXCEPT !.fase = "omgekeerd_insert"])
  BY <1>2 DEF Omgekeerd, Fase
<1>5. /\ p.klus = {r} /\ r \in p.bij /\ p.weg = {}
      /\ Paar(w, r.naar, r.zaak) # {} => Keert(r, r) \/ ~Ongestoord(r, herhaald)
  BY <1>1, <1>2, OmgekeerdFeiten DEF Keert
<1>6. Schrijvend(p)
  BY <1>1, <1>2 DEF Schrijvend
<1>7. CASE Paar(w, r.naar, r.zaak) # {}
  <2>1. PICK q : q = [p EXCEPT !.fase = "relaties", !.todo = @ \ {r.naar}, !.klus = {}]
    OBVIOUS
  <2>2. Zet(w, q)
    BY <1>4, <1>7, <2>1 DEF Met, Zet
  <2>3. /\ q \in Verzoek /\ q.op = p.op /\ q.zaak = p.zaak /\ q.fase = "relaties" /\ q.lijst = p.lijst
        /\ q.todo \subseteq p.todo /\ q.rollen = p.rollen /\ q.klus = {} /\ q.bij = p.bij /\ q.weg = p.weg
    BY <1>3, <2>1 DEF Verzoek
  <2>4. Vorm(q)
    BY <1>1, <1>2, <1>3, <1>5, <2>3 DEF Vorm, VormZaak
  <2>5. Maakt(q, rijen, herhaald)
    BY <1>3, <1>5, <1>7, <2>3 DEF Maakt
  <2>6. Verwijdert(q, rijen, herhaald)
    BY <1>5, <2>3 DEF Verwijdert
  <2>7. Kent(q) \subseteq Kent(p)
    BY <2>3 DEF Kent, Genoemde
  <2> QED
    BY <1>1, <1>2, <1>3, <1>6, <2>2, <2>3, <2>4, <2>5, <2>6, <2>7, ZaakStapGoed
<1>8. CASE Paar(w, r.naar, r.zaak) = {}
  <2>1. PICK q : q = [p EXCEPT !.fase = "omgekeerd_insert"]
    OBVIOUS
  <2>2. Zet(w, q)
    BY <1>4, <1>8, <2>1 DEF Met, Zet
  <2>3. /\ q \in Verzoek /\ q.op = p.op /\ q.zaak = p.zaak /\ q.fase = "omgekeerd_insert" /\ q.lijst = p.lijst
        /\ q.todo = p.todo /\ q.rollen = p.rollen /\ q.klus = p.klus /\ q.bij = p.bij /\ q.weg = p.weg
    BY <1>3, <2>1 DEF Verzoek
  <2>4. Vorm(q)
    BY <1>1, <1>2, <1>3, <2>3 DEF Vorm, VormZaak
  <2>5. Maakt(q, rijen, herhaald)
    BY <1>3, <2>3 DEF Maakt
  <2>6. Verwijdert(q, rijen, herhaald)
    BY <1>5, <2>3 DEF Verwijdert
  <2>7. Kent(q) = Kent(p)
    BY <2>3 DEF Kent, Genoemde
  <2> QED
    BY <1>1, <1>2, <1>3, <1>6, <2>2, <2>3, <2>4, <2>5, <2>6, <2>7, ZaakStapGoed
<1> QED
  BY <1>7, <1>8

\* The reverse is inserted.
LEMMA InsertGoed ==
  ASSUME IInv, NEW w \in Actief, tx[w].op \in {"post", "patch"}, tx[w].fase = "omgekeerd_insert",
         NEW r \in tx[w].klus, Paar(w, r.naar, r.zaak) = {}, VrijPaar(w, r.naar, r.zaak),
         NEW f \in Rij, f.pk = pks + 1, pks' = pks + 1, f.zaak = r.naar, f.naar = r.zaak,
         NEW q, q \in Verzoek, q.op = tx[w].op, q.zaak = tx[w].zaak, q.fase = "relaties",
         q.lijst = tx[w].lijst, q.todo \subseteq tx[w].todo, q.rollen = tx[w].rollen,
         q.klus = {}, q.bij = tx[w].bij \cup {f}, q.weg = tx[w].weg,
         Zet(w, q), UNCHANGED Rest
  PROVE  IInv'
<1> USE DossierAssumption
<1>1. PICK p : p = tx[w]
  OBVIOUS
<1>2. /\ Vorm(p) /\ VormZaak(p) /\ p \in Verzoek /\ p.op \notin Rolwerk /\ Sleutels(p, rijen, pks)
      /\ Maakt(p, rijen, herhaald)
      /\ pks \in 0..MaxPk /\ rijen \subseteq Rij /\ p.bij \subseteq Rij /\ Uniek
      /\ rijen \subseteq Geschreven /\ p.bij \subseteq Geschreven
  BY <1>1, ZaakFeiten
<1>3. /\ p.klus = {r} /\ r \in p.bij /\ p.weg = {} /\ r.zaak = p.zaak
      /\ r.naar \in Zaken /\ r.naar \in p.lijst /\ r.zaak \in Zaken
  BY <1>1, OmgekeerdFeiten
<1>4. Relatie(f) /\ Keert(f, r) /\ Keert(r, f) /\ f.naar \in Zaken
  BY <1>3 DEF Relatie, Keert
<1>5. p.rollen = <<>> /\ p.todo \subseteq p.lijst
  BY <1>2 DEF VormZaak
<1>6. Vorm(q)
  <2>1. ASSUME NEW t \in q.bij
        PROVE  /\ Relatie(t) /\ t.pk \notin q.weg
               /\ \/ t.zaak = q.zaak /\ t.naar \in q.lijst
                  \/ t.naar = q.zaak /\ t.zaak \in q.lijst /\ \E s \in q.bij : Keert(t, s)
    <3>1. CASE t = f
      BY <1>1, <1>3, <1>4, <3>1
    <3>2. CASE t \in p.bij
      <4>1. /\ Relatie(t) /\ t.pk \notin p.weg
            /\ \/ t.zaak = p.zaak /\ t.naar \in p.lijst
               \/ t.naar = p.zaak /\ t.zaak \in p.lijst /\ \E s \in p.bij : Keert(t, s)
        BY <1>2, <3>2 DEF VormZaak
      <4> QED
        BY <1>1, <4>1
    <3> QED
      BY <1>1, <3>1, <3>2
  <2>2. q.todo \subseteq q.lijst /\ q.rollen = <<>> /\ q.weg = {}
    BY <1>1, <1>3, <1>5
  <2>3. VormZaak(q)
    BY <2>1, <2>2 DEF VormZaak
  <2> QED
    BY <1>1, <2>3 DEF Vorm
<1>7. PICK X : X = {f}
  OBVIOUS
<1>8. Vers(X)
  BY <1>7 DEF Vers
<1>9. Genoemde(q) = {}
  BY <1>1, <1>5 DEF Genoemde
<1>10. Verder(p, q, X)
  <2>1. Kent(q) \subseteq Kent(p) \cup X
    BY <1>1, <1>7, <1>9 DEF Kent
  <2>2. \A t \in p.bij : t.pk \in 1..pks /\ t.pk # f.pk
    BY <1>2 DEF Sleutels, Gebruikt, Kent, Pks
  <2>3. \A t, s \in q.bij : t.pk = s.pk => t = s
    BY <1>1, <1>2, <2>2 DEF Sleutels
  <2> QED
    BY <1>1, <1>7, <2>1, <2>3 DEF Verder
<1>11. \A x \in X : Relatie(x) => \A a \in Geschreven : ~Dezelfde(x, a)
  <2>1. Schrijvend(tx[w]) /\ tx[w].weg = {}
    BY <1>1, <1>3 DEF Schrijvend
  <2>2. f.zaak \in Zaken
    BY DEF Rij
  <2>3. Paar(w, f.zaak, f.naar) = {} /\ VrijPaar(w, f.zaak, f.naar)
    OBVIOUS
  <2>4. \A a \in Geschreven : ~Dezelfde(f, a)
    BY <1>4, <2>1, <2>2, <2>3, NogNiet
  <2> QED
    BY <1>7, <2>4
<1>12. Maakt(q, rijen, herhaald)
  <2> SUFFICES ASSUME NEW t \in q.bij, Ongestoord(t, herhaald)
               PROVE  (\E s \in q.bij : Keert(t, s)) /\ \A s \in rijen : ~Keert(t, s)
    BY DEF Maakt
  <2>1. CASE t \in p.bij /\ t # r
    BY <1>1, <1>2, <1>3, <2>1 DEF Maakt
  <2>2. CASE t = r
    BY <1>1, <1>2, <1>3, <1>4, <2>2 DEF Maakt
  <2>3. CASE t = f
    <3>1. ASSUME NEW s \in rijen, Keert(f, s) PROVE FALSE
      <4>1. Relatie(s) /\ Dezelfde(s, r)
        BY <1>3, <3>1 DEF Keert, Relatie, Dezelfde
      <4>2. s = r
        BY <1>2, <1>3, <3>1, <4>1 DEF Uniek
      <4>3. r.pk \in Eigen(p)
        BY <1>3 DEF Eigen, Pks
      <4> QED
        BY <1>2, <3>1, <4>2, <4>3 DEF Sleutels, Pks
    <3> QED
      BY <1>1, <1>3, <1>4, <2>3, <3>1
  <2> QED
    BY <1>1, <2>1, <2>2, <2>3
<1>13. Verwijdert(q, rijen, herhaald)
  BY <1>1, <1>3 DEF Verwijdert
<1>14. Schrijvend(p) /\ q.op \notin Rolwerk
  BY <1>1, <1>2 DEF Schrijvend
<1>15. \A t \in q.bij : t \in p.bij \/ t \in X
  BY <1>1, <1>7
<1> QED
  BY <1>1, <1>6, <1>8, <1>10, <1>11, <1>12, <1>13, <1>14, <1>15, StapGoed

LEMMA OmgekeerdInsertGoed ==
  ASSUME IInv, NEW w \in Werkers, OmgekeerdInsert(w)
  PROVE  IInv'
<1>1. /\ w \in Actief /\ tx[w].op \in {"post", "patch"} /\ tx[w].fase = "omgekeerd_insert"
      /\ UNCHANGED Rest
  BY DEF OmgekeerdInsert, Schrijft, Actief
<1>2. PICK p : p = tx[w]
  OBVIOUS
<1>3. p \in Verzoek /\ pks \in 0..MaxPk
  BY <1>1, <1>2, ZaakFeiten
<1>4. PICK r \in p.klus :
       LET klaar == [p EXCEPT !.fase = "relaties", !.todo = @ \ {r.naar}, !.klus = {}] IN
       /\ VrijPaar(w, r.naar, r.zaak)
       /\ \/ /\ Paar(w, r.naar, r.zaak) = {} /\ pks < MaxPk
             /\ pks' = pks + 1
             /\ Met(w, [klaar EXCEPT !.bij = @ \cup {Nieuw(r.naar, r.zaak, pks')}])
          \/ /\ Paar(w, r.naar, r.zaak) # {}
             /\ Met(w, IF Paar(w, r.zaak, r.naar) \ {r} # {}
                       THEN [klaar EXCEPT !.bij = @ \ {r}] ELSE Geen)
             /\ UNCHANGED pks
  BY <1>2 DEF OmgekeerdInsert
<1>5. PICK klaar : klaar = [p EXCEPT !.fase = "relaties", !.todo = @ \ {r.naar}, !.klus = {}]
  OBVIOUS
<1>6. r \in Rij /\ r.naar \in Zaken /\ r.zaak \in Zaken /\ Paar(w, r.zaak, r.naar) = {r}
  BY <1>1, <1>2, OmgekeerdFeiten
<1>7. /\ klaar \in Verzoek /\ klaar.op = p.op /\ klaar.zaak = p.zaak /\ klaar.fase = "relaties"
      /\ klaar.lijst = p.lijst /\ klaar.todo \subseteq p.todo /\ klaar.rollen = p.rollen
      /\ klaar.klus = {} /\ klaar.bij = p.bij /\ klaar.weg = p.weg
  BY <1>3, <1>5 DEF Verzoek
<1>8. CASE /\ Paar(w, r.naar, r.zaak) = {} /\ pks < MaxPk
           /\ pks' = pks + 1
           /\ Met(w, [klaar EXCEPT !.bij = @ \cup {Nieuw(r.naar, r.zaak, pks')}])
  <2>1. PICK f : f = Nieuw(r.naar, r.zaak, pks + 1)
    OBVIOUS
  <2>2. f \in Rij /\ f.pk = pks + 1 /\ f.zaak = r.naar /\ f.naar = r.zaak
    BY <1>3, <1>6, <1>8, <2>1, DossierAssumption DEF Nieuw, Rij
  <2>3. PICK q : q = [klaar EXCEPT !.bij = @ \cup {f}]
    OBVIOUS
  <2>4. Zet(w, q)
    BY <1>8, <2>1, <2>3 DEF Met, Zet
  <2>5. /\ q \in Verzoek /\ q.op = p.op /\ q.zaak = p.zaak /\ q.fase = "relaties"
        /\ q.lijst = p.lijst /\ q.todo \subseteq p.todo /\ q.rollen = p.rollen
        /\ q.klus = {} /\ q.bij = p.bij \cup {f} /\ q.weg = p.weg
    BY <1>7, <2>2, <2>3 DEF Verzoek
  <2> QED
    BY <1>1, <1>2, <1>4, <1>8, <2>2, <2>4, <2>5, InsertGoed
<1>9. CASE /\ Paar(w, r.naar, r.zaak) # {}
           /\ Met(w, IF Paar(w, r.zaak, r.naar) \ {r} # {}
                     THEN [klaar EXCEPT !.bij = @ \ {r}] ELSE Geen)
           /\ UNCHANGED pks
  <2>1. Zet(w, Geen)
    BY <1>6, <1>9 DEF Met, Zet
  <2> QED
    BY <1>1, <1>9, <2>1, EindeGoed
<1> QED
  BY <1>4, <1>5, <1>8, <1>9

-----------------------------------------------------------------------------
(* Relations and roles are deleted. *)

LEMMA OverigeGoed ==
  ASSUME IInv, NEW w \in Werkers, Overige(w)
  PROVE  IInv'
<1>1. /\ w \in Actief /\ tx[w].op \in {"post", "patch"} /\ tx[w].fase = "relaties"
      /\ UNCHANGED <<Rest, pks>>
  BY DEF Overige, Schrijft, Actief
<1>2. PICK p : p = tx[w]
  OBVIOUS
<1>3. /\ Vorm(p) /\ VormZaak(p) /\ p \in Verzoek /\ p.op \notin Rolwerk
      /\ Maakt(p, rijen, herhaald) /\ Verwijdert(p, rijen, herhaald)
      /\ rijen \subseteq Rij /\ p.bij \subseteq Rij /\ Zicht(w) = ZichtVan(p, rijen)
  BY <1>1, <1>2, ZaakFeiten
<1>4. PICK S : S = {r \in ZichtVan(p, rijen) : /\ p.op = "patch" /\ Relatie(r)
                                               /\ r.zaak = p.zaak /\ r.naar \notin p.lijst}
  OBVIOUS
<1>5. PICK q : q = [p EXCEPT !.fase = "wissen", !.klus = S]
  OBVIOUS
<1>6. Zet(w, q)
  BY <1>2, <1>3, <1>4, <1>5 DEF Overige, Met, Zet
<1>7. /\ S \subseteq rijen \cup p.bij /\ S \in SUBSET Rij
      /\ \A r \in S : r.zaak = p.zaak /\ r.naar \notin p.lijst
  BY <1>3, <1>4 DEF ZichtVan
<1>8. /\ q \in Verzoek /\ q.op = p.op /\ q.zaak = p.zaak /\ q.fase = "wissen" /\ q.lijst = p.lijst
      /\ q.todo = p.todo /\ q.rollen = p.rollen /\ q.klus = S /\ q.bij = p.bij /\ q.weg = p.weg
  BY <1>3, <1>5, <1>7 DEF Verzoek
<1>9. Vorm(q)
  BY <1>1, <1>2, <1>3, <1>7, <1>8 DEF Vorm, VormZaak
<1>10. Maakt(q, rijen, herhaald)
  BY <1>1, <1>2, <1>3, <1>8 DEF Maakt
<1>11. p.weg = {} /\ \A r \in p.bij : r \notin S
  BY <1>1, <1>2, <1>3, <1>7 DEF VormZaak
<1>12. Verwijdert(q, rijen, herhaald)
  BY <1>7, <1>8, <1>11 DEF Verwijdert
<1>13. Kent(q) \subseteq Kent(p) \cup rijen
  BY <1>7, <1>8 DEF Kent, Genoemde
<1>14. Schrijvend(p)
  BY <1>1, <1>2 DEF Schrijvend
<1> QED
  BY <1>1, <1>2, <1>3, <1>6, <1>8, <1>9, <1>10, <1>12, <1>13, <1>14, ZaakStapGoed

LEMMA VerzamelGoed ==
  ASSUME IInv, NEW w \in Werkers, Verzamel(w)
  PROVE  IInv'
<1>1. /\ w \in Actief /\ tx[w].op = "delete" /\ tx[w].fase = "gelezen"
      /\ UNCHANGED <<Rest, pks>>
  BY DEF Verzamel, Schrijft, Actief
<1>2. PICK p : p = tx[w]
  OBVIOUS
<1>3. Vorm(p) /\ VormDelete(p) /\ p \in Verzoek /\ p.bij = {} /\ p.weg = {}
  BY <1>1, <1>2, Voorheen DEF IInv, Vorm, VormDelete
<1>4. PICK S : S = {r \in rijen : p.zaak \in {r.zaak, r.naar}}
  OBVIOUS
<1>5. PICK q : q = [p EXCEPT !.fase = "wissen", !.klus = S]
  OBVIOUS
<1>6. Zet(w, q)
  BY <1>2, <1>4, <1>5 DEF Verzamel, Met, Zet
<1>7. S \subseteq rijen /\ S \in SUBSET Rij
  BY <1>4 DEF IInv, TypeInv, TypeOK
<1>8. /\ q \in Verzoek /\ q.op = p.op /\ q.zaak = p.zaak /\ q.fase = "wissen" /\ q.lijst = p.lijst
      /\ q.todo = p.todo /\ q.rollen = p.rollen /\ q.klus = S /\ q.bij = p.bij /\ q.weg = p.weg
  BY <1>3, <1>5, <1>7 DEF Verzoek
<1>9. Vorm(q)
  BY <1>1, <1>2, <1>3, <1>8 DEF Vorm, VormDelete
<1>10. Maakt(q, rijen, herhaald) /\ Verwijdert(q, rijen, herhaald)
  BY <1>3, <1>7, <1>8 DEF Maakt, Verwijdert
<1>11. Kent(q) \subseteq Kent(p) \cup rijen
  BY <1>7, <1>8 DEF Kent, Genoemde
<1>12. p.op \notin Rolwerk
  BY <1>1, <1>2 DEF Rolwerk
<1>13. \A v \in Actief \ {w} : Slot(tx[v], q)
  BY <1>1, <1>2, <1>8 DEF Slot
<1> QED
  BY <1>1, <1>2, <1>3, <1>6, <1>8, <1>9, <1>10, <1>11, <1>12, <1>13, ZaakStapGoed

\* What a request deletes, it did not make.
LEMMA WisFeiten ==
  ASSUME IInv, NEW w \in Actief, tx[w].fase \in {"wissen", "wis_omgekeerd"}
  PROVE  /\ Vorm(tx[w]) /\ tx[w] \in Verzoek /\ tx[w].op \in {"post", "patch", "delete"}
         /\ tx[w].op \notin Rolwerk /\ Sleutels(tx[w], rijen, pks)
         /\ Maakt(tx[w], rijen, herhaald) /\ Verwijdert(tx[w], rijen, herhaald)
         /\ \A r \in tx[w].klus : r \notin tx[w].bij /\ \A t \in tx[w].bij : ~Keert(r, t)
         /\ Zicht(w) = ZichtVan(tx[w], rijen) /\ tx[w].rollen = <<>>
         /\ rijen \subseteq Rij /\ Uniek /\ rijen \subseteq Geschreven
         /\ \A r, s \in rijen : r.pk = s.pk => r = s
<1>1. PICK p : p = tx[w]
  OBVIOUS
<1>2. Vorm(p) /\ p \in Verzoek /\ Sleutels(p, rijen, pks)
  BY <1>1, Voorheen DEF IInv
<1>3. p.op \in {"post", "patch", "delete"}
  <2>1. p.op \in {"post", "patch", "delete", "registreren", "bijwerken", "rol"}
    BY <1>2 DEF Verzoek
  <2>2. p.op \notin {"registreren", "bijwerken"}
    BY <1>1, <1>2 DEF Vorm, VormRollen
  <2>3. p.op # "rol"
    BY <1>1, <1>2 DEF Vorm, VormRol
  <2> QED
    BY <2>1, <2>2, <2>3
<1>4. (\A r \in p.klus : r \notin p.bij /\ \A t \in p.bij : ~Keert(r, t)) /\ p.rollen = <<>>
  <2>1. CASE p.op = "delete"
    BY <1>2, <2>1 DEF Vorm, VormDelete
  <2>2. CASE p.op # "delete"
    <3>1. VormZaak(p)
      BY <1>2, <1>3, <2>2 DEF Vorm
    <3>2. \A r \in p.klus : r.zaak = p.zaak /\ r.naar \notin p.lijst
      BY <1>1, <3>1 DEF VormZaak
    <3>3. \A t \in p.bij : (t.zaak = p.zaak /\ t.naar \in p.lijst) \/ (t.naar = p.zaak /\ t.zaak \in p.lijst)
      BY <3>1 DEF VormZaak
    <3> QED
      BY <3>1, <3>2, <3>3 DEF Keert, VormZaak
  <2> QED
    BY <2>1, <2>2
<1>5. Maakt(p, rijen, herhaald) /\ Verwijdert(p, rijen, herhaald) /\ Uniek
  BY <1>1 DEF IInv, RelatieInv
<1>6. rijen \subseteq Rij /\ \A r, s \in rijen : r.pk = s.pk => r = s
  BY DEF IInv, TypeInv, TypeOK
<1> QED
  BY <1>1, <1>2, <1>3, <1>4, <1>5, <1>6 DEF Zicht, ZichtVan, Geschreven, Rolwerk

\* Rows that a request sees are deleted, and none of those it made.
LEMMA GewistGoed ==
  ASSUME IInv, NEW w \in Actief, tx[w].fase \in {"wissen", "wis_omgekeerd"},
         NEW D, D \subseteq Zicht(w), D \cap tx[w].bij = {},
         NEW klus, klus \subseteq tx[w].klus,
         NEW q, q.op = tx[w].op, q.zaak = tx[w].zaak, q.fase = "wis_omgekeerd", q.lijst = tx[w].lijst,
         q.todo = tx[w].todo, q.rollen = tx[w].rollen, q.klus = klus, q.bij = tx[w].bij,
         q.weg = tx[w].weg \cup Pks(D), q \in Verzoek,
         \A s \in rijen, r \in rijen : Ongestoord(r, herhaald) /\ Keert(r, s) /\ r \in D =>
            s.pk \in tx[w].weg \cup Pks(D) \/ r \in klus,
         \A s \in rijen, r \in rijen : Ongestoord(r, herhaald) /\ Keert(r, s) /\ r.pk \in tx[w].weg =>
            s.pk \in tx[w].weg \cup Pks(D) \/ r \in klus,
         \A r \in klus : Ongestoord(r, herhaald) =>
           IF r \in rijen THEN r.pk \in tx[w].weg \cup Pks(D)
           ELSE \A s \in rijen : ~Dezelfde(r, s) /\ ~Keert(r, s),
         Zet(w, q), UNCHANGED <<Rest, pks>>
  PROVE  IInv'
<1>1. PICK p : p = tx[w]
  OBVIOUS
<1>2. /\ Vorm(p) /\ p \in Verzoek /\ p.op \in {"post", "patch", "delete"} /\ p.op \notin Rolwerk
      /\ Sleutels(p, rijen, pks) /\ Maakt(p, rijen, herhaald)
      /\ Zicht(w) = ZichtVan(p, rijen) /\ p.rollen = <<>> /\ rijen \subseteq Rij
      /\ \A r, s \in rijen : r.pk = s.pk => r = s
  BY <1>1, WisFeiten
<1>3. D \subseteq rijen
  BY <1>1, <1>2 DEF ZichtVan
<1>4. PICK weg : weg = p.weg \cup Pks(D)
  OBVIOUS
<1>5. /\ q.op = p.op /\ q.zaak = p.zaak /\ q.fase = "wis_omgekeerd" /\ q.lijst = p.lijst
      /\ q.todo = p.todo /\ q.rollen = p.rollen /\ q.klus = klus /\ q.bij = p.bij /\ q.weg = weg
  BY <1>1, <1>4
<1>6. \A r \in p.bij : r.pk \in weg => r.pk \in p.weg
  BY <1>2, <1>3, <1>4 DEF Sleutels, Eigen, Pks
<1>7. Vorm(q)
  <2>1. CASE p.op = "delete"
    BY <1>2, <1>5, <2>1 DEF Vorm, VormDelete
  <2>2. CASE p.op # "delete"
    <3>1. VormZaak(p)
      BY <1>2, <2>2 DEF Vorm
    <3>2. \A r \in klus : r.zaak = p.zaak /\ r.naar \notin p.lijst
      BY <1>1, <3>1 DEF VormZaak
    <3>3. VormZaak(q)
      BY <1>5, <1>6, <3>1, <3>2 DEF VormZaak
    <3> QED
      BY <1>2, <1>5, <2>2, <3>3 DEF Vorm
  <2> QED
    BY <2>1, <2>2
<1>8. Maakt(q, rijen, herhaald)
  BY <1>1, <1>2, <1>5 DEF Maakt
<1>9. Verwijdert(q, rijen, herhaald)
  <2>1. ASSUME NEW r \in rijen, NEW s \in rijen, Ongestoord(r, herhaald), Keert(r, s), r.pk \in weg
        PROVE  s.pk \in weg \/ r \in klus
    <3>1. CASE r.pk \in p.weg
      BY <1>1, <1>4, <2>1, <3>1
    <3>2. CASE r.pk \in Pks(D)
      <4>1. r \in D
        BY <1>2, <1>3, <3>2 DEF Pks
      <4> QED
        BY <1>1, <1>4, <2>1, <4>1
    <3> QED
      BY <1>4, <2>1, <3>1, <3>2
  <2>2. \A r \in klus : Ongestoord(r, herhaald) =>
          IF r \in rijen THEN r.pk \in weg ELSE \A s \in rijen : ~Dezelfde(r, s) /\ ~Keert(r, s)
    BY <1>1, <1>4
  <2> QED
    BY <1>5, <2>1, <2>2 DEF Verwijdert
<1>10. Kent(q) \subseteq Kent(p)
  BY <1>1, <1>5 DEF Kent, Genoemde
<1>11. Schrijvend(p) /\ q.weg \subseteq p.weg \cup Pks(rijen) /\ p.weg \subseteq q.weg
  BY <1>1, <1>3, <1>4, <1>5 DEF Schrijvend, Pks
<1> QED
  BY <1>1, <1>2, <1>5, <1>7, <1>8, <1>9, <1>10, <1>11, ZaakStapGoed

\* The transaction after it deleted rows D that it sees, and made none of
LEMMA GewistVelden ==
  ASSUME IInv, NEW w \in Actief, tx[w].fase \in {"wissen", "wis_omgekeerd"},
         NEW S, NEW D, D = S \cap Zicht(w), D \cap tx[w].bij = {}, NEW t, t = Gewist(w, S)
  PROVE  /\ t.op = tx[w].op /\ t.zaak = tx[w].zaak /\ t.fase = tx[w].fase /\ t.lijst = tx[w].lijst
         /\ t.todo = tx[w].todo /\ t.rollen = tx[w].rollen /\ t.klus = tx[w].klus /\ t.bij = tx[w].bij
         /\ t.weg = tx[w].weg \cup Pks(D) /\ t \in Verzoek
<1>1. PICK p : p = tx[w]
  OBVIOUS
<1>2. p \in Verzoek /\ rijen \subseteq Rij /\ Zicht(w) = ZichtVan(p, rijen)
  BY <1>1, WisFeiten
<1>3. PICK bij : bij = p.bij \ D
  OBVIOUS
<1>4. PICK weg : weg = p.weg \cup Pks(D \ p.bij)
  OBVIOUS
<1>5. t = [p EXCEPT !.bij = bij, !.weg = weg]
  BY <1>1, <1>3, <1>4 DEF Gewist
<1>6. bij = p.bij /\ D \ p.bij = D /\ D \subseteq rijen
  BY <1>1, <1>2, <1>3 DEF ZichtVan
<1>7. weg = p.weg \cup Pks(D) /\ weg \in SUBSET (1..MaxPk)
  <2>1. Pks(D) \subseteq 1..MaxPk
    BY <1>2, <1>6 DEF Pks, Rij
  <2> QED
    BY <1>2, <1>4, <1>6, <2>1 DEF Verzoek
<1>8. /\ t.op = p.op /\ t.zaak = p.zaak /\ t.fase = p.fase /\ t.lijst = p.lijst
      /\ t.todo = p.todo /\ t.rollen = p.rollen /\ t.klus = p.klus /\ t.bij = p.bij
      /\ t.weg = weg /\ t \in Verzoek
  <2> HIDE <1>1, <1>3, <1>4
  <2> QED
    BY <1>2, <1>5, <1>6, <1>7 DEF Verzoek
<1> QED
  BY <1>1, <1>7, <1>8

LEMMA WisGoed ==
  ASSUME IInv, NEW w \in Werkers, Wis(w)
  PROVE  IInv'
<1>1. w \in Actief /\ tx[w].fase = "wissen" /\ UNCHANGED <<Rest, pks>>
  BY DEF Wis, Actief
<1>2. PICK p : p = tx[w]
  OBVIOUS
<1>3. /\ Verwijdert(p, rijen, herhaald) /\ \A r \in p.klus : r \notin p.bij
      /\ p \in Verzoek /\ Zicht(w) = ZichtVan(p, rijen) /\ Uniek /\ rijen \subseteq Geschreven
  BY <1>1, <1>2, WisFeiten
<1>4. PICK D : D = p.klus \cap Zicht(w)
  OBVIOUS
<1>5. PICK t : t = Gewist(w, p.klus)
  OBVIOUS
<1>6. D \subseteq p.klus /\ D \subseteq Zicht(w) /\ D \cap p.bij = {}
  BY <1>3, <1>4
<1>7. /\ t.op = p.op /\ t.zaak = p.zaak /\ t.lijst = p.lijst
      /\ t.todo = p.todo /\ t.rollen = p.rollen /\ t.klus = p.klus /\ t.bij = p.bij
      /\ t.weg = p.weg \cup Pks(D) /\ t \in Verzoek
  BY <1>1, <1>2, <1>4, <1>5, <1>6, GewistVelden
<1>8. PICK q : q = [t EXCEPT !.fase = "wis_omgekeerd"]
  OBVIOUS
<1>9. Zet(w, q)
  BY <1>2, <1>5, <1>8 DEF Wis, Met, Zet
<1>10. /\ q.op = p.op /\ q.zaak = p.zaak /\ q.fase = "wis_omgekeerd" /\ q.lijst = p.lijst
      /\ q.todo = p.todo /\ q.rollen = p.rollen /\ q.klus = p.klus /\ q.bij = p.bij
      /\ q.weg = p.weg \cup Pks(D) /\ q \in Verzoek
  BY <1>7, <1>8 DEF Verzoek
<1>11. \A s \in rijen, r \in rijen : Ongestoord(r, herhaald) /\ Keert(r, s) /\ r.pk \in p.weg => s.pk \in p.weg
  BY <1>1, <1>2, <1>3 DEF Verwijdert
<1>12. ASSUME NEW r \in p.klus, r \in rijen PROVE r.pk \in p.weg \cup Pks(D)
  BY <1>3, <1>4, <1>12 DEF ZichtVan, Pks
<1>13. ASSUME NEW r \in p.klus, Ongestoord(r, herhaald), r \notin rijen
       PROVE  \A s \in rijen : ~Dezelfde(r, s) /\ ~Keert(r, s)
  BY <1>1, <1>2, <1>3, <1>13 DEF Verwijdert
<1> QED
  BY <1>1, <1>2, <1>9, <1>10, <1>6, <1>11, <1>12, <1>13, GewistGoed

LEMMA WisOmgekeerdGoed ==
  ASSUME IInv, NEW w \in Werkers, WisOmgekeerd(w)
  PROVE  IInv'
<1>1. w \in Actief /\ tx[w].fase = "wis_omgekeerd" /\ UNCHANGED <<Rest, pks>>
  BY DEF WisOmgekeerd, Actief
<1>2. PICK p : p = tx[w]
  OBVIOUS
<1>3. /\ Vorm(p) /\ p \in Verzoek /\ p.op \in {"post", "patch", "delete"} /\ p.op \notin Rolwerk
      /\ Maakt(p, rijen, herhaald) /\ Verwijdert(p, rijen, herhaald)
      /\ \A r \in p.klus : r \notin p.bij /\ \A t \in p.bij : ~Keert(r, t)
      /\ Zicht(w) = ZichtVan(p, rijen) /\ Uniek /\ rijen \subseteq Geschreven
      /\ rijen \subseteq Rij
  BY <1>1, <1>2, WisFeiten
<1>4. CASE p.klus = {}
  <2>1. PICK q : q = [p EXCEPT !.fase = "klaar"]
    OBVIOUS
  <2>2. Zet(w, q)
    BY <1>2, <1>4, <2>1 DEF WisOmgekeerd, Fase, Met, Zet
  <2>3. /\ q \in Verzoek /\ q.op = p.op /\ q.zaak = p.zaak /\ q.fase = "klaar" /\ q.lijst = p.lijst
        /\ q.todo = p.todo /\ q.rollen = p.rollen /\ q.klus = p.klus /\ q.bij = p.bij /\ q.weg = p.weg
    BY <1>3, <2>1 DEF Verzoek
  <2>4. Vorm(q)
    <3>1. CASE p.op = "delete"
      BY <1>3, <1>4, <2>3, <3>1 DEF Vorm, VormDelete
    <3>2. CASE p.op # "delete"
      BY <1>3, <1>4, <2>3, <3>2 DEF Vorm, VormZaak
    <3> QED
      BY <3>1, <3>2
  <2>5. Maakt(q, rijen, herhaald)
    BY <1>1, <1>2, <1>3, <2>3 DEF Maakt
  <2>6. Verwijdert(q, rijen, herhaald)
    BY <1>3, <1>4, <2>3 DEF Verwijdert
  <2>7. Kent(q) = Kent(p) /\ Schrijvend(p)
    BY <1>1, <1>2, <2>3 DEF Kent, Genoemde, Schrijvend
  <2> QED
    BY <1>1, <1>2, <1>3, <2>2, <2>3, <2>4, <2>5, <2>6, <2>7, ZaakStapGoed
<1>5. CASE p.klus # {}
  <2>1. PICK r \in p.klus : Met(w, [Gewist(w, Tegenkant(w, r)) EXCEPT !.klus = @ \ {r}])
    BY <1>2, <1>5 DEF WisOmgekeerd
  <2>2. PICK D : D = Tegenkant(w, r) \cap Zicht(w)
    OBVIOUS
  <2>3. \A d \in Zicht(w) : d \in D <=> Keert(r, d)
    BY <2>2 DEF Tegenkant, Paar, Keert
  <2>4. D \cap p.bij = {} /\ D \subseteq Zicht(w) /\ D \subseteq rijen
    BY <1>3, <2>2, <2>3 DEF ZichtVan
  <2>5. PICK t : t = Gewist(w, Tegenkant(w, r))
    OBVIOUS
  <2>6. /\ t.op = p.op /\ t.zaak = p.zaak /\ t.fase = p.fase /\ t.lijst = p.lijst
        /\ t.todo = p.todo /\ t.rollen = p.rollen /\ t.klus = p.klus /\ t.bij = p.bij
        /\ t.weg = p.weg \cup Pks(D) /\ t \in Verzoek
    BY <1>1, <1>2, <2>2, <2>4, <2>5, GewistVelden
  <2>7. PICK klus : klus = p.klus \ {r}
    OBVIOUS
  <2>8. PICK q : q = [t EXCEPT !.klus = klus]
    OBVIOUS
  <2>9. Zet(w, q)
    BY <2>1, <2>5, <2>6, <2>7, <2>8 DEF Met, Zet
  <2>10. klus \in SUBSET Rij /\ klus \subseteq p.klus
    BY <1>3, <2>7 DEF Verzoek
  <2>11. /\ q.op = p.op /\ q.zaak = p.zaak /\ q.fase = "wis_omgekeerd" /\ q.lijst = p.lijst
         /\ q.todo = p.todo /\ q.rollen = p.rollen /\ q.klus = klus /\ q.bij = p.bij
         /\ q.weg = p.weg \cup Pks(D) /\ q \in Verzoek
    BY <1>1, <1>2, <2>6, <2>8, <2>10 DEF Verzoek
\* What was the reverse of the row is gone, as the row is.
  <2>12. ASSUME NEW a \in rijen, NEW s \in rijen, Ongestoord(a, herhaald), Keert(a, s), a \in D
         PROVE  s.pk \in p.weg \cup Pks(D) \/ a \in klus
    <3>1. Keert(r, a) /\ Dezelfde(r, s) /\ a \in Rij
      BY <1>3, <2>3, <2>4, <2>12 DEF Keert, Dezelfde
    <3>2. r.naar \in Zaken /\ {r.zaak, r.naar} = {a.zaak, a.naar} /\ Relatie(r)
      BY <3>1 DEF Keert, Rij, Relatie
    <3>3. Ongestoord(r, herhaald)
      BY <2>12, <3>2 DEF Ongestoord
    <3>4. r \in rijen /\ r.pk \in p.weg
      BY <1>1, <1>2, <1>3, <2>12, <3>1, <3>3 DEF Verwijdert
    <3>5. r = s
      BY <1>3, <2>12, <3>1, <3>2, <3>4 DEF Uniek
    <3> QED
      BY <3>4, <3>5
  <2>13. ASSUME NEW a \in rijen, NEW s \in rijen, Ongestoord(a, herhaald), Keert(a, s), a.pk \in p.weg
         PROVE  s.pk \in p.weg \cup Pks(D) \/ a \in klus
    <3>1. s.pk \in p.weg \/ a \in p.klus
      BY <1>3, <2>13 DEF Verwijdert
    <3>2. ASSUME a = r, s.pk \notin p.weg PROVE s.pk \in Pks(D)
      <4>1. s \in Zicht(w)
        BY <1>3, <3>2 DEF ZichtVan
      <4> QED
        BY <2>3, <2>13, <3>2, <4>1 DEF Pks
    <3> QED
      BY <2>7, <3>1, <3>2
  <2>14. ASSUME NEW a \in klus, Ongestoord(a, herhaald)
         PROVE  IF a \in rijen THEN a.pk \in p.weg \cup Pks(D)
                ELSE \A s \in rijen : ~Dezelfde(a, s) /\ ~Keert(a, s)
    BY <1>1, <1>2, <1>3, <2>10, <2>14 DEF Verwijdert
  <2> QED
    BY <1>1, <1>2, <2>4, <2>9, <2>10, <2>11, <2>12, <2>13, <2>14, GewistGoed
<1> QED
  BY <1>4, <1>5

-----------------------------------------------------------------------------
LEMMA InitGoed == Init => IInv
<1> USE DossierAssumption
<1> SUFFICES ASSUME Init PROVE IInv
  OBVIOUS
<1>1. \A r \in rijen : r \notin rijen
  BY DEF Init
<1>2. DOMAIN tx = Werkers /\ \A w \in Werkers : tx[w] = Geen
  BY DEF Init
<1>3. \A w \in Actief : w \notin Actief
  BY <1>2 DEF Actief
<1>4. Pks(rijen) = {} /\ \A b \in Bekend : b \notin Bekend
  BY <1>1, <1>3 DEF Pks, Bekend
<1>5. TypeOK
  BY <1>1, <1>2 DEF Init, TypeOK
<1>6. TypeInv
  BY <1>3, <1>4, <1>5 DEF TypeInv, VormInv, SleutelInv, BekendInv, SlotInv
<1>7. \A a \in Geschreven : a \notin Geschreven
  BY <1>1, <1>3 DEF Geschreven
<1>8. RelatieInv
  BY <1>1, <1>3, <1>7 DEF RelatieInv, Uniek, Wederkerig
<1>9. EenRolInv
  BY <1>1, <1>3 DEF EenRolInv, Eenmalig
<1> QED
  BY <1>6, <1>8, <1>9 DEF IInv

LEMMA NextGoed == IInv /\ [Next]_vars => IInv'
<1> SUFFICES ASSUME IInv, [Next]_vars PROVE IInv'
  OBVIOUS
<1>1. CASE UNCHANGED vars
  <2>1. /\ stand' = stand /\ rijen' = rijen /\ tx' = tx /\ pks' = pks
        /\ herhaald' = herhaald /\ samen' = samen /\ verplaatst' = verplaatst
    BY <1>1 DEF vars
  <2>2. Actief' = Actief /\ Bekend' = Bekend /\ Geschreven' = Geschreven /\ Uit' = Uit
    BY <2>1 DEF Actief, Bekend, Kent, Genoemde, Nieuw, Geschreven, Uit
  <2>3. TypeOK'
    BY <2>1 DEF IInv, TypeInv, TypeOK
  <2>4. VormInv'
    <3>1. \A v \in Actief' : Vorm(tx'[v])
      BY <2>1, <2>2 DEF IInv, TypeInv, VormInv
    <3> QED
      BY <3>1 DEF VormInv, Vorm, VormZaak, VormDelete, VormRollen, VormRol, Relatie, Rol, Keert, Pks, Verzoek
  <2>5. SleutelInv'
    BY <2>1, <2>2 DEF IInv, TypeInv, SleutelInv, Sleutels, Apart, Gebruikt, Eigen, Kent, Genoemde, Nieuw, Pks
  <2>6. BekendInv' /\ SlotInv'
    BY <2>1, <2>2 DEF IInv, TypeInv, BekendInv, EenSoort, SlotInv, Slot, Schrijvend, Relatie, Rol
  <2>7. RelatieInv'
    BY <2>1, <2>2 DEF IInv, RelatieInv, Uniek, Dezelfde, Relatie, Wederkerig, Maakt, Verwijdert, Ongestoord, Keert
  <2>8. EenRolInv'
    BY <2>1, <2>2 DEF IInv, EenRolInv, Raakt, Las, Geeft, Elders, RaaktApart, PlaatsApart, PlaatsVan, Eenmalig,
       ZichtVan, RolGoed, Genoemde, Nieuw, Pks, Schrijvend, Rolwerk
  <2> QED
    BY <2>3, <2>4, <2>5, <2>6, <2>7, <2>8 DEF IInv, TypeInv
<1>2. CASE Next
  <2>1. PICK w \in Werkers :
          \/ RelatieNext(w) \/ RolNext(w)
          \/ Opslaan(w) \/ Verzamel(w) \/ Wis(w) \/ WisOmgekeerd(w)
          \/ Commit(w) \/ CommitDelete(w) \/ Afgebroken(w)
    BY <1>2 DEF Next
  <2>2. CASE RelatieNext(w)
    <3>1. \/ \E z \in Zaken :
               \/ \E lijst \in SUBSET (Zaken \cup Extern) : PostZaak(w, z, lijst) \/ PatchZaak(w, z, lijst)
               \/ DeleteZaak(w, z)
          \/ \E y \in Zaken \cup Extern : GetOrCreate(w, y)
          \/ Omgekeerd(w) \/ OmgekeerdInsert(w) \/ Overige(w)
      BY <2>2 DEF RelatieNext
    <3> QED
      BY <3>1, ZaakGoed, DeleteGoed, GetOrCreateGoed, OmgekeerdGoed, OmgekeerdInsertGoed, OverigeGoed
  <2>3. CASE RolNext(w)
    <3>1. \/ \E z \in Zaken :
               \/ \E rollen \in Rijtjes : Registreren(w, z, rollen) \/ Bijwerken(w, z, rollen)
               \/ \E soort \in Soorten : RolPost(w, z, soort)
               \/ \E r \in rijen : RolPut(w, r, z)
          \/ \E r \in rijen : RolDelete(w, r)
          \/ RolOpslaan(w) \/ RolSchrijf(w)
      BY <2>3 DEF RolNext
    <3> QED
      BY <3>1, RollenGoed, RolPostGoed, RolPutGoed, RolDeleteGoed, RolOpslaanGoed, RolSchrijfGoed
  <2> QED
    BY <2>1, <2>2, <2>3, OpslaanGoed, VerzamelGoed, WisGoed, WisOmgekeerdGoed, CommitGoed, CommitDeleteGoed,
       AfgebrokenGoed
<1> QED
  BY <1>1, <1>2

\* The rows of a zaak, and what each request has read and is about to write, have
\* their types in every interleaving of creating, updating and deleting zaken.
THEOREM TypeCorrect == Spec => []TypeOK
<1>1. IInv => TypeOK
  BY DEF IInv, TypeInv
<1> QED
  BY <1>1, InitGoed, NextGoed, PTL DEF Spec

\* Relations between zaken are mutual and there is one of each: the signal handlers
\* make and delete the reverse with the relation, and the lock on the zaak keeps
\* get_or_create from making two; except the pairs that were made while they were removed.
THEOREM RelatiesEnKeerzijde == Spec => []RelatiesHeel
<1>1. IInv => RelatiesHeel
  <2> SUFFICES ASSUME IInv PROVE RelatiesHeel
    OBVIOUS
  <2>1. Wederkerig /\ Uniek /\ rijen \subseteq Geschreven
    BY DEF IInv, RelatieInv, Geschreven
  <2>2. RelatieEenmaal
    BY <2>1 DEF RelatieEenmaal, Uniek, Dezelfde
  <2> QED
    BY <2>1, <2>2 DEF RelatiesHeel
<1> QED
  BY <1>1, InitGoed, NextGoed, PTL DEF Spec

\* A zaak has one initiator and one zaakcoordinator: RolOccurenceValidator and the
\* combined endpoints count under the lock of the zaak; except where requests for single
\* roles met each other there or moved a rol.
THEOREM RollenEenmaal == Spec => []EenRol
<1>1. IInv => EenRol
  <2> SUFFICES ASSUME IInv PROVE EenRol
    OBVIOUS
  <2>1. \A z \in Zaken \ Uit : Eenmalig(rijen, z)
    BY DEF IInv, EenRolInv
  <2>2. \A r \in rijen : r.zaak \in Zaken
    BY DEF IInv, TypeInv, TypeOK, Rij
  <2> QED
    BY <2>1, <2>2 DEF EenRol, Eenmalig, Uit
<1> QED
  BY <1>1, InitGoed, NextGoed, PTL DEF Spec

=============================================================================
