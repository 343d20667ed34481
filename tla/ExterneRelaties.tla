---------------------------- MODULE ExterneRelaties ----------------------------
(***************************************************************************)
(* Relations that two installations both keep.  One, here called A, has    *)
(* the relations: zaken and besluiten with their documents, contactmomenten*)
(* and verzoeken, and besluiten with their zaak.  When the other end is in *)
(* installation B, the API of B keeps a mirror, which A makes and deletes  *)
(* with calls while it serves the request of its own client.  B looks back *)
(* at A before it answers.  A zaak of A itself has its mirror in A.        *)
(*                                                                         *)
(* Consumers do not call the endpoints of the mirrors themselves.          *)
(***************************************************************************)
EXTENDS Integers, FiniteSets

CONSTANTS
  Koppelingen,   \* relations of A with a document of B
  Besluiten,     \* besluiten of A
  Extern,        \* zaken of B
  Lokaal,        \* zaken of A
  Document,      \* what a relation of Koppelingen refers to
  Geen,          \* no row, no zaak, no request, no call
  Werkers,       \* requests that A serves at the same time
  MaxRij,        \* bound: rows of A
  MaxUrl,        \* bound: mirrors that B makes
  MaxFouten      \* bound: crashes of A, timeouts of calls and refusals by B

ASSUME ExterneRelatiesAssumption ==
  /\ {MaxRij, MaxUrl, MaxFouten} \subseteq Nat /\ MaxUrl > 0
  /\ IsFiniteSet(Werkers)
  /\ Koppelingen \cap Besluiten = {} /\ Extern \cap Lokaal = {}
  /\ Document \notin Extern \cup Lokaal /\ Geen \notin Extern \cup Lokaal \cup {Document}

VARIABLES
  rij,        \* the rows of A
  spiegel,    \* the mirrors, in B or (for a zaak of A) in A: their urls, 0 for none
  req,        \* the requests that A serves
  aanroep,    \* the call of each request, as far as B is with it
  rijen,      \* primary keys handed out by A
  urls,       \* urls handed out by B
  fouten,     \* failures so far
  geraakt,    \* relations of which a failure may have left one end without the other
  samen       \* relations about which two requests were served at the same time

vars == <<rij, spiegel, req, aanroep, rijen, urls, fouten, geraakt, samen>>
tellers == <<rijen, urls, fouten, geraakt, samen>>

-----------------------------------------------------------------------------
Relaties == Koppelingen \cup Besluiten
Buiten == Extern \cup {Document}     \* what B has

Rij == [pk : 1..MaxRij, naar : Extern \cup Lokaal \cup {Document, Geen}, url : 0..MaxUrl]
Paren == (Koppelingen \X {Document}) \cup (Besluiten \X (Extern \cup Lokaal))

Init ==
  /\ rij = [r \in Relaties |-> Geen]
  /\ spiegel = [p \in Paren |-> 0]
  /\ req = [w \in Werkers |-> Geen]
  /\ aanroep = [w \in Werkers |-> Geen]
  /\ rijen = 0 /\ urls = 0 /\ fouten = 0
  /\ geraakt = {} /\ samen = {}

Bezig(w, r) == req[w] # Geen /\ req[w].r = r

\* The transaction of another request has written the row of r and is not committed.
Vergrendeld(w, r) ==
  \E v \in Werkers \ {w} : Bezig(v, r) /\ req[v].fase \in {"post_in_transactie", "delete_in_transactie"}

\* Bounds: a request uses at most one more key and one more url.
Ruimte ==
  LET bezig == Cardinality({v \in Werkers : req[v] # Geen \/ aanroep[v] # Geen}) IN
    rijen + bezig < MaxRij /\ urls + bezig < MaxUrl

\* Request w starts, about relation r: a row as it was read, or a new one, and what it
\* is going to refer to.
Start(w, op, r, instantie, naar, fase) ==
  /\ req[w] = Geen /\ aanroep[w] = Geen
  /\ req' = [req EXCEPT ![w] = [op |-> op, r |-> r, rij |-> instantie, naar |-> naar, fase |-> fase]]
  /\ samen' = samen \cup {x \in {r} : \E v \in Werkers : Bezig(v, r)}

Einde(w) == req' = [req EXCEPT ![w] = Geen]
Fase(w, fase) == req' = [req EXCEPT ![w].fase = fase]

Aanroep(w, soort, r, naar, url) ==
  aanroep' = [aanroep EXCEPT ![w] =
                [soort |-> soort, r |-> r, naar |-> naar, url |-> url, stap |-> "uit"]]

\* The row of an instance in memory is still there.
Zelfde(r, instantie) == rij[r] # Geen /\ rij[r].pk = instantie.pk

-----------------------------------------------------------------------------
(* B answers.  It looks back at A first, and only sees what A committed. *)

\* CreateRemoteRelationValidator, InformatieObjectUniqueValidator; for a zaakbesluit the
\* validator that fetches the besluit
MagMaken(c) == spiegel[<<c.r, c.naar>>] = 0 /\ rij[c.r] # Geen

\* RemoteRelationValidator: the relation is gone in A.  A zaakbesluit is just deleted.
MagWissen(c) ==
  /\ spiegel[<<c.r, c.naar>>] = c.url
  /\ c.r \in Koppelingen => rij[c.r] = Geen

Stap(w, stap) == aanroep' = [aanroep EXCEPT ![w].stap = stap]

Controle(w) ==
  /\ aanroep[w] # Geen /\ aanroep[w].stap = "uit"
  /\ LET c == aanroep[w] IN
       Stap(w, IF (IF c.soort = "post" THEN MagMaken(c) ELSE MagWissen(c))
               THEN "nagegaan" ELSE "nee")
  /\ UNCHANGED <<rij, spiegel, req, tellers>>

\* B cannot be reached, or refuses for a reason of its own: the zaak is closed.
Weiger(w) ==
  /\ aanroep[w] # Geen /\ aanroep[w].stap = "uit" /\ fouten < MaxFouten
  /\ Stap(w, "nee")
  /\ fouten' = fouten + 1
  /\ UNCHANGED <<rij, spiegel, req, rijen, urls, geraakt, samen>>

\* The unique constraint of B
Maak(w) ==
  /\ aanroep[w] # Geen /\ aanroep[w].stap = "nagegaan" /\ aanroep[w].soort = "post"
  /\ LET p == <<aanroep[w].r, aanroep[w].naar>> IN
       \/ spiegel[p] # 0 /\ Stap(w, "nee") /\ UNCHANGED <<spiegel, urls>>
       \/ /\ spiegel[p] = 0
          /\ urls' = urls + 1
          /\ spiegel' = [spiegel EXCEPT ![p] = urls']
          /\ aanroep' = [aanroep EXCEPT ![w].stap = "ja", ![w].url = urls']
  /\ UNCHANGED <<rij, req, rijen, fouten, geraakt, samen>>

Wis(w) ==
  /\ aanroep[w] # Geen /\ aanroep[w].stap = "nagegaan" /\ aanroep[w].soort = "delete"
  /\ LET p == <<aanroep[w].r, aanroep[w].naar>> IN
       spiegel' = [spiegel EXCEPT ![p] = IF @ = aanroep[w].url THEN 0 ELSE @]
  /\ Stap(w, "ja")
  /\ UNCHANGED <<rij, req, tellers>>

\* A no longer waits for this call.
Vervalt(w) ==
  /\ aanroep[w] # Geen /\ aanroep[w].stap \in {"ja", "nee"} /\ req[w] = Geen
  /\ aanroep' = [aanroep EXCEPT ![w] = Geen]
  /\ UNCHANGED <<rij, spiegel, req, tellers>>

-----------------------------------------------------------------------------
(* Relations of zaken and besluiten with documents, contactmomenten and      *)
(* verzoeken.  Each statement is committed at once.                          *)

\* POST: the row is there before the call.
Koppel(w, r) ==
  /\ rij[r] = Geen /\ Ruimte
  /\ rijen' = rijen + 1
  /\ LET nieuw == [pk |-> rijen', naar |-> Document, url |-> 0] IN
       /\ Start(w, "koppel", r, nieuw, Document, "post")
       /\ rij' = [rij EXCEPT ![r] = nieuw]
  /\ Aanroep(w, "post", r, Document, 0)
  /\ UNCHANGED <<spiegel, urls, fouten, geraakt>>

\* The insert of a row that is gone fails when there is another.
Opgeslagen(r, instantie) == rij[r] = Geen \/ Zelfde(r, instantie)

\* Mutant: the answer has no url.
GekoppeldLeeg(r, instantie, url) ==
  IF Opgeslagen(r, instantie)
  THEN [rij EXCEPT ![r] = [instantie EXCEPT !.url = Geen]]
  ELSE rij

\* The row is saved with the url of the mirror.
Gekoppeld(r, instantie, url) ==
  IF Opgeslagen(r, instantie)
  THEN [rij EXCEPT ![r] = [instantie EXCEPT !.url = url]]
  ELSE rij

\* Mutant: the relation stays when the call fails.
Blijft(r, instantie) == rij

\* zio.delete() in the except clause
Teruggenomen(r, instantie) ==
  IF Zelfde(r, instantie) THEN [rij EXCEPT ![r] = Geen] ELSE rij

\* DELETE: the row is read, removed, and only then the mirror is.
OntkoppelLees(w, r) ==
  /\ rij[r] # Geen /\ Ruimte
  /\ Start(w, "ontkoppel", r, rij[r], Document, "gelezen")
  /\ UNCHANGED <<rij, spiegel, aanroep, rijen, urls, fouten, geraakt>>

Ontkoppel(w, r) ==
  /\ req[w].op = "ontkoppel" /\ req[w].fase = "gelezen"
  /\ rij' = Teruggenomen(r, req[w].rij)
  /\ IF req[w].rij.url = 0
     THEN Einde(w) /\ UNCHANGED aanroep
     ELSE Fase(w, "delete") /\ Aanroep(w, "delete", r, Document, req[w].rij.url)
  /\ UNCHANGED <<spiegel, tellers>>

\* instance.save(): the deleted instance has no primary key, so a row is inserted.
Hersteld(r, instantie) ==
  IF rij[r] = Geen THEN [rij EXCEPT ![r] = [instantie EXCEPT !.pk = rijen + 1]] ELSE rij

-----------------------------------------------------------------------------
(* Besluiten.  A request is one transaction, and waits for B inside it.      *)

\* Mutant: the signal handler does nothing for an update.
NietGelijkgetrokken(b, oud, naar) == spiegel

\* sync_zaakbesluit: the mirrors in A after besluit b went from a zaak to another.  The
\* mirror of the zaak it leaves stays when the other one is in B.
Gelijkgetrokken(b, oud, naar) ==
  [p \in Paren |->
     IF p = <<b, oud>> /\ oud \in Lokaal /\ naar \notin Extern THEN 0
     ELSE IF p = <<b, naar>> /\ naar \in Lokaal THEN 1 ELSE spiegel[p]]

\* The signal handler raises: it looks up the zaakbesluit of a zaak of B, or of none, or
\* makes one that is there.
SignaalFaalt(b, oud, naar) ==
  /\ naar \notin Extern
  /\ \/ oud \in Extern
     \/ oud \in Lokaal /\ spiegel[<<b, oud>>] = 0
     \/ naar \in Lokaal /\ spiegel[<<b, naar>>] # 0

\* The transaction of w is committed.
LegVast(b, instantie, naar, url) ==
  /\ rij' = [rij EXCEPT ![b] = [instantie EXCEPT !.naar = naar, !.url = url]]
  /\ spiegel' = IF naar = instantie.naar THEN spiegel ELSE Gelijkgetrokken(b, instantie.naar, naar)

BesluitMaak(w, b, naar) ==
  /\ rij[b] = Geen /\ ~Vergrendeld(w, b) /\ Ruimte
  /\ rijen' = rijen + 1
  /\ LET nieuw == [pk |-> rijen', naar |-> Geen, url |-> 0] IN
     IF naar \in Extern
     THEN /\ Start(w, "besluit", b, nieuw, naar, "post_in_transactie")
          /\ Aanroep(w, "post", b, naar, 0)
          /\ UNCHANGED <<rij, spiegel>>
     ELSE /\ req[w] = Geen /\ aanroep[w] = Geen
          /\ LegVast(b, nieuw, naar, 0)
          /\ UNCHANGED <<req, aanroep, samen>>
  /\ UNCHANGED <<urls, fouten, geraakt>>

BesluitLees(w, op, b, naar) ==
  /\ rij[b] # Geen /\ Ruimte
  /\ Start(w, op, b, rij[b], naar, "gelezen")
  /\ UNCHANGED <<rij, spiegel, aanroep, rijen, urls, fouten, geraakt>>

\* Besluit.save() looks for the row before it is written: it may then wait for another
\* transaction.
Wacht(w, b) ==
  /\ req[w].op = "verplaats" /\ req[w].fase = "gelezen"
  /\ Zelfde(b, req[w].rij) /\ Vergrendeld(w, b)
  /\ Fase(w, "wacht")
  /\ UNCHANGED <<rij, spiegel, aanroep, tellers>>

KanOpslaan(w, b) ==
  \/ Zelfde(b, req[w].rij)
  \/ req[w].fase = "wacht" /\ rij[b] = Geen

\* PUT, PATCH: the zaak changes, or it does not.
Verplaats(w, b) ==
  /\ req[w].op = "verplaats" /\ req[w].fase \in {"gelezen", "wacht"}
  /\ ~Vergrendeld(w, b)
  /\ LET i == req[w].rij
         naar == req[w].naar
         faalt == ~KanOpslaan(w, b) \/ (naar # i.naar /\ SignaalFaalt(b, i.naar, naar))
         aanB == naar # i.naar /\ naar \in Extern
         wis == i.naar \in Extern /\ i.url # 0
     IN \/ /\ faalt
           /\ Einde(w) /\ UNCHANGED <<rij, spiegel, aanroep>>
        \/ /\ ~faalt /\ ~aanB
           /\ LegVast(b, i, naar, i.url) /\ Einde(w) /\ UNCHANGED aanroep
        \/ /\ ~faalt /\ aanB /\ wis
           /\ Fase(w, "delete_in_transactie") /\ Aanroep(w, "delete", b, i.naar, i.url)
           /\ UNCHANGED <<rij, spiegel>>
        \/ /\ ~faalt /\ aanB /\ ~wis
           /\ Fase(w, "post_in_transactie") /\ Aanroep(w, "post", b, naar, 0)
           /\ UNCHANGED <<rij, spiegel>>
  /\ UNCHANGED tellers

\* The besluit goes, and with it all its mirrors in A.
Verwijderd(b, instantie) ==
  /\ rij' = Teruggenomen(b, instantie)
  /\ spiegel' = [p \in Paren |->
       IF Zelfde(b, instantie) /\ p[1] = b /\ p[2] \in Lokaal THEN 0 ELSE spiegel[p]]

\* DELETE: the mirror in B goes last, in the same transaction.
Verwijder(w, b) ==
  /\ req[w].op = "verwijder" /\ req[w].fase = "gelezen"
  /\ ~Vergrendeld(w, b)
  /\ LET i == req[w].rij
         faalt == i.naar \in Lokaal /\ spiegel[<<b, i.naar>>] = 0
         aanB == i.naar \in Extern /\ i.url # 0
     IN \/ /\ faalt
           /\ Einde(w) /\ UNCHANGED <<rij, spiegel, aanroep>>
        \/ /\ ~faalt /\ ~aanB
           /\ Verwijderd(b, i) /\ Einde(w) /\ UNCHANGED aanroep
        \/ /\ aanB
           /\ Fase(w, "delete_in_transactie") /\ Aanroep(w, "delete", b, i.naar, i.url)
           /\ UNCHANGED <<rij, spiegel>>
  /\ UNCHANGED tellers

\* DELETE of a zaakbesluit in A, allowed when the besluit refers to something else
ZaakbesluitWis(b, z) ==
  /\ spiegel[<<b, z>>] # 0 /\ rij[b] # Geen /\ rij[b].naar # z
  /\ spiegel' = [spiegel EXCEPT ![<<b, z>>] = 0]
  /\ UNCHANGED <<rij, req, aanroep, tellers>>

-----------------------------------------------------------------------------
(* A goes on with the answer. *)

Ja(w) ==
  /\ req[w] # Geen /\ aanroep[w] # Geen /\ aanroep[w].stap = "ja"
  /\ UNCHANGED tellers

Klaar(w) == Einde(w) /\ aanroep' = [aanroep EXCEPT ![w] = Geen]

KoppelJa(w) ==
  /\ Ja(w) /\ req[w].op = "koppel"
  /\ rij' = Gekoppeld(req[w].r, req[w].rij, aanroep[w].url)
  /\ Klaar(w) /\ UNCHANGED spiegel

OntkoppelJa(w) ==
  /\ Ja(w) /\ req[w].op = "ontkoppel"
  /\ Klaar(w) /\ UNCHANGED <<rij, spiegel>>

BesluitJa(w) ==
  /\ Ja(w) /\ req[w].fase = "post_in_transactie"
  /\ LegVast(req[w].r, req[w].rij, req[w].naar, aanroep[w].url)
  /\ Klaar(w)

\* The mirror at the zaak that the besluit leaves is gone; the next one is made.
VerplaatsVerder(w) ==
  /\ Ja(w) /\ req[w].op = "verplaats" /\ req[w].fase = "delete_in_transactie"
  /\ Fase(w, "post_in_transactie")
  /\ Aanroep(w, "post", req[w].r, req[w].naar, 0)
  /\ UNCHANGED <<rij, spiegel>>

VerwijderJa(w) ==
  /\ Ja(w) /\ req[w].op = "verwijder"
  /\ Verwijderd(req[w].r, req[w].rij)
  /\ Klaar(w)

\* The call fails, or A stops waiting for it while B goes on.
Nee(w) ==
  /\ req[w] # Geen /\ aanroep[w] # Geen
  /\ Einde(w)
  /\ \/ /\ aanroep[w].stap = "nee"
        /\ aanroep' = [aanroep EXCEPT ![w] = Geen]
        /\ geraakt' = geraakt \cup {r \in {req[w].r} :
             /\ req[w].fase = "post_in_transactie"
             /\ req[w].rij.naar \in Extern /\ req[w].rij.url # 0}
        /\ UNCHANGED fouten
     \/ /\ aanroep[w].stap # "nee" /\ fouten < MaxFouten
        /\ fouten' = fouten + 1
        /\ geraakt' = geraakt \cup {req[w].r}
        /\ UNCHANGED aanroep
  /\ UNCHANGED <<urls, samen>>

KoppelNee(w) ==
  /\ Nee(w) /\ req[w].op = "koppel"
  /\ rij' = Teruggenomen(req[w].r, req[w].rij)
  /\ UNCHANGED <<spiegel, rijen>>

OntkoppelNee(w) ==
  /\ Nee(w) /\ req[w].op = "ontkoppel"
  /\ rij' = Hersteld(req[w].r, req[w].rij)
  /\ rijen' = rijen + 1
  /\ UNCHANGED spiegel

\* The transaction is rolled back.
BesluitNee(w) ==
  /\ Nee(w) /\ req[w].r \in Besluiten
  /\ UNCHANGED <<rij, spiegel, rijen>>

\* The process of A that serves the request dies.
Crash(w) ==
  /\ req[w] # Geen /\ fouten < MaxFouten
  /\ Einde(w)
  /\ fouten' = fouten + 1
  /\ geraakt' = geraakt \cup {r \in {req[w].r} : aanroep[w] # Geen}
  /\ UNCHANGED <<rij, spiegel, aanroep, rijen, urls, samen>>

-----------------------------------------------------------------------------
KoppelNext(w) ==
  \/ \E r \in Koppelingen : Koppel(w, r) \/ OntkoppelLees(w, r)
  \/ req[w] # Geen /\ (Ontkoppel(w, req[w].r) \/ KoppelJa(w) \/ OntkoppelJa(w)
                         \/ KoppelNee(w) \/ OntkoppelNee(w))

BesluitNext(w) ==
  \/ \E b \in Besluiten, naar \in Extern \cup Lokaal \cup {Geen} :
       \/ BesluitMaak(w, b, naar)
       \/ BesluitLees(w, "verplaats", b, naar)
  \/ \E b \in Besluiten : BesluitLees(w, "verwijder", b, Geen)
  \/ req[w] # Geen /\ (Wacht(w, req[w].r) \/ Verplaats(w, req[w].r) \/ Verwijder(w, req[w].r)
                         \/ BesluitJa(w) \/ VerplaatsVerder(w) \/ VerwijderJa(w) \/ BesluitNee(w))

BNext(w) == Controle(w) \/ Weiger(w) \/ Maak(w) \/ Wis(w) \/ Vervalt(w)

Next ==
  \/ \E w \in Werkers : KoppelNext(w) \/ BesluitNext(w) \/ BNext(w) \/ Crash(w)
  \/ \E b \in Besluiten, z \in Lokaal : ZaakbesluitWis(b, z)

Spec == Init /\ [][Next]_vars

-----------------------------------------------------------------------------
Verzoek ==
  [op : {"koppel", "ontkoppel", "besluit", "verplaats", "verwijder"}, r : Relaties, rij : Rij,
   naar : Buiten \cup Lokaal \cup {Geen},
   fase : {"post", "gelezen", "wacht", "delete", "post_in_transactie", "delete_in_transactie"}]

Oproep ==
  [soort : {"post", "delete"}, r : Relaties, naar : Buiten, url : 0..MaxUrl,
   stap : {"uit", "nagegaan", "ja", "nee"}]

\* What is not there is no row, request or call.
ASSUME GeenAssumption == Geen \notin Rij \cup Verzoek \cup Oproep

\* Types, and the bounds of the counters.
TypeOK ==
  /\ rij \in [Relaties -> Rij \cup {Geen}]
  /\ spiegel \in [Paren -> 0..MaxUrl]
  /\ req \in [Werkers -> Verzoek \cup {Geen}]
  /\ aanroep \in [Werkers -> Oproep \cup {Geen}]
  /\ rijen \in 0..MaxRij /\ urls \in 0..MaxUrl /\ fouten \in 0..MaxFouten
  /\ geraakt \subseteq Relaties /\ samen \subseteq Relaties

\* Nobody is busy with r.
Rustig(r) ==
  \A w \in Werkers : ~Bezig(w, r) /\ (aanroep[w] # Geen => aanroep[w].r # r)

\* The row of r and the mirrors of r in B say the same.
Gelijk(r) ==
  \A x \in Buiten : <<r, x>> \in Paren =>
    spiegel[<<r, x>>] = IF rij[r] # Geen /\ rij[r].naar = x THEN rij[r].url ELSE 0

\* When no request is busy with a relation, it is there in both installations or in
\* neither, unless a call about it was lost, the second call of a move was refused, or two
\* requests about it ran at the same time.
Gespiegeld == \A r \in Relaties \ (geraakt \cup samen) : Rustig(r) => Gelijk(r)

\* A besluit about a zaak of A has its zaakbesluit there, unless requests about it ran at
\* the same time.
BesluitHeeftZaakbesluit ==
  \A b \in Besluiten \ samen : rij[b] # Geen /\ rij[b].naar \in Lokaal => spiegel[<<b, rij[b].naar>>] # 0

\* Both sides of what A knows about B, and of besluiten and zaken of A, agree.
RelatiesKloppen == Gespiegeld /\ BesluitHeeftZaakbesluit

\* And a zaakbesluit has its besluit.
ZaakbesluitHeeftBesluit ==
  \A b \in Besluiten, z \in Lokaal :
    spiegel[<<b, z>>] # 0 => rij[b] # Geen /\ rij[b].naar = z

=============================================================================
