---------------------------- MODULE Gebeurtenissen ----------------------------
(***************************************************************************)
(* Cloud events about zaken.                                               *)
(*                                                                         *)
(* Outgoing: signal handlers schedule "gemuteerd" when a zaak or a related *)
(* resource is saved and "verwijderd" when a zaak is deleted: once per     *)
(* zaak and transaction, by way of a registry that belongs to the context  *)
(* of the worker, and sent by callbacks of the commit                      *)
(* (zaken/signals.py, utils/cloudevents.py).  A web worker starts and ends *)
(* every request with an empty registry; a Celery worker, which relates    *)
(* documents to zaken in the batches of an import, keeps it.               *)
(*                                                                         *)
(* Incoming: the webhook makes a zaakobject for "zaak-gekoppeld" and       *)
(* removes zaakobjecten for "zaak-ontkoppeld", in autocommit               *)
(* (zaken/api/cloudevents.py, notifications/viewsets.py).  The provider    *)
(* sends the messages about one zaak and object in order and sends one     *)
(* again until it is accepted.                                             *)
(***************************************************************************)
EXTENDS Naturals, Integers, Sequences, SequencesExt, FiniteSets, Functions

CONSTANTS
  Zaken,         \* zaken
  HoofdVan,      \* the zaak that each zaak is a deelzaak of, or Geen
  Objecten,      \* objects that the provider links with zaken
  Webs,          \* web workers
  Taken,         \* Celery workers
  Geen,          \* no value
  Overlap,       \* whether the provider sends a message again while it is being handled
  MaxBerichten,  \* bound: messages about one zaak and object
  MaxFouten      \* bound: workers that die, callbacks that fail and messages that are refused

ASSUME GebeurtenissenAssumption ==
  /\ Geen \notin Zaken \cup Objecten \cup Webs \cup Taken \cup (Zaken \X Objecten)
  /\ IsFiniteSet(Zaken) /\ IsFiniteSet(Webs \cup Taken)
  /\ Webs \cap Taken = {}
  /\ HoofdVan \in [Zaken -> Zaken \cup {Geen}]
  /\ \A z \in Zaken : HoofdVan[z] # Geen => HoofdVan[HoofdVan[z]] = Geen
  /\ Overlap \in BOOLEAN
  /\ MaxBerichten \in Nat /\ MaxFouten \in Nat

VARIABLES
  zaken,        \* the zaken that exist
  koppelingen,  \* how many zaakobjecten a zaak has for an object of the provider
  req,          \* what each worker does
  register,     \* the registry of each worker: the events that are scheduled
  wacht,        \* the callbacks of the transaction, in the order they were registered
  log,          \* the messages of the provider about a zaak and an object
  aanvaard,     \* how many of those were accepted
  afgeweken,    \* zaken and objects of which a message was not carried out, or that were deleted
  achterstand,  \* committed changes that are not announced yet, of those that can be
  fouten        \* faults so far

vars == <<zaken, koppelingen, req, register, wacht, log, aanvaard, afgeweken, achterstand, fouten>>
inVars == <<log, aanvaard, afgeweken>>

Werkers == Webs \cup Taken
Paren == Zaken \X Objecten

\* An event that the registry knows: its type and its zaak.
Sleutels == {"gemuteerd", "verwijderd"} \X Zaken
\* A callback: an event, or the removal of relations in another installation.
Callbacks == (Sleutels \cup ({"melding"} \X Zaken)) \cup {<<"oio", Geen>>}

\* moet: the events that the transaction asks for; nieuw and weg: the zaken that it
\* inserted and deleted; stil: what a Celery worker had in its registry when the batch began;
\* over: the zaak and object of a message, nr: which message it is; aantal: the zaakobjecten
\* that are being deleted.
Rust == [fase |-> "rust", moet |-> {}, nieuw |-> {}, weg |-> {}, stil |-> {},
         over |-> Geen, nr |-> 0, aantal |-> 0]

Init ==
  /\ zaken \in SUBSET Zaken
  /\ \A z \in zaken : HoofdVan[z] # Geen => HoofdVan[z] \in zaken
  /\ koppelingen = [p \in Paren |-> 0]
  /\ req = [w \in Werkers |-> Rust]
  /\ register = [w \in Werkers |-> {}]
  /\ wacht = [w \in Werkers |-> <<>>]
  /\ log = [p \in Paren |-> <<>>]
  /\ aanvaard = [p \in Paren |-> 0]
  /\ afgeweken = {}
  /\ achterstand = [k \in Sleutels |-> 0]
  /\ fouten = 0

-----------------------------------------------------------------------------
\* Outgoing events

\* UPDATE and DELETE of the row of a zaak wait for the transaction that changed it.
Geraakt(w) == {k[2] : k \in req[w].moet} \cup req[w].nieuw \cup req[w].weg
Vrij(w, z) == \A v \in Werkers \ {w} : req[v].fase = "transactie" => z \notin Geraakt(v)

\* The zaken that the transaction of w sees.
Zicht(w) == (zaken \cup req[w].nieuw) \ req[w].weg

\* Mutant: nobody looks whether the event is scheduled.
Alles(w, ks) == ks

\* The events of ks that the registry does not have: the rest is scheduled already.
Ongepland(w, ks) == ks \ register[w]

\* schedule_zaak_gemuteerd() and schedule_zaak_verwijderd() for one zaak after another: a
\* callback that sends the event, and its type and zaak in the registry.
Plan(w, eerst, ks, dan) ==
  /\ register' = [register EXCEPT ![w] = @ \cup ks \cup dan]
  /\ \E g \in SetToSeqs(Ongepland(w, ks)), v \in SetToSeqs(Ongepland(w, dan)) :
       wacht' = [wacht EXCEPT ![w] = @ \o eerst \o g \o v]

\* Mutant: the registry stays as it is.
NietReset(w) == register[w]

\* CloudEventSchedulingMiddleware: around each request.
Reset(w) == IF w \in Webs THEN {} ELSE register[w]

\* A request, or a batch of an import: the first transaction.
Begin(w) ==
  /\ req[w].fase = "rust"
  /\ register' = [register EXCEPT ![w] = Reset(w)]
  /\ req' = [req EXCEPT ![w] = [Rust EXCEPT !.fase = "transactie",
                                         !.stil = IF w \in Taken THEN register[w] ELSE {}]]
  /\ UNCHANGED <<zaken, koppelingen, wacht, inVars, achterstand, fouten>>

\* A zaak is saved, or a status, substatus, result, zaakobject, besluit or relation with a
\* document is saved or deleted, which saves laatst_gemuteerd of its zaak.  A batch only
\* relates documents.
Wijzig(w, z) ==
  /\ req[w].fase = "transactie"
  /\ z \in Zicht(w) /\ Vrij(w, z)
  /\ Plan(w, <<>>, {<<"gemuteerd", z>>}, {})
  /\ req' = [req EXCEPT ![w].moet = @ \cup {<<"gemuteerd", z>>}]
  /\ UNCHANGED <<zaken, koppelingen, inVars, achterstand, fouten>>

\* A zaak is inserted: by a creation, or by a PATCH of a zaak that is gone.  No event.
Maak(w, z) ==
  /\ w \in Webs
  /\ req[w].fase = "transactie"
  /\ z \notin zaken /\ Vrij(w, z) /\ req[w].weg = {}
  /\ HoofdVan[z] # Geen => HoofdVan[z] \in zaken /\ \A v \in Werkers : HoofdVan[z] \notin req[v].weg
  /\ req' = [req EXCEPT ![w].nieuw = @ \cup {z}]
  /\ UNCHANGED <<zaken, koppelingen, register, wacht, inVars, achterstand, fouten>>

\* The events that have no signal: zaak-geopend, and those of the combined endpoints.
Meld(w, z) ==
  /\ w \in Webs
  /\ req[w].fase = "transactie"
  /\ z \in Zicht(w) /\ Vrij(w, z)
  /\ ~\E i \in DOMAIN wacht[w] : wacht[w][i][1] = "melding"
  /\ wacht' = [wacht EXCEPT ![w] = Append(@, <<"melding", z>>)]
  /\ UNCHANGED <<zaken, koppelingen, req, register, inVars, achterstand, fouten>>

\* perform_destroy(): the removal of remote relations is registered first; then the
\* collector sends pre_delete for what belongs to the zaak and its deelzaken (met: those that
\* have a result, document or zaakobject), and for the zaken themselves.
Verwijder(w, z, met) ==
  LET weg == {x \in Zicht(w) : x = z \/ HoofdVan[x] = z}
      gemuteerd == {"gemuteerd"} \X met
      verwijderd == {"verwijderd"} \X weg
  IN /\ w \in Webs
     /\ req[w].fase = "transactie" /\ req[w].moet = {} /\ req[w].nieuw = {}
     /\ z \in weg /\ \A x \in Zaken : x = z \/ HoofdVan[x] = z => Vrij(w, x)
     /\ met \subseteq weg
     /\ \A p \in Paren : p[1] \in weg /\ koppelingen[p] > 0 => p[1] \in met
     /\ Plan(w, <<<<"oio", Geen>>>>, gemuteerd, verwijderd)
     /\ req' = [req EXCEPT ![w].weg = weg, ![w].moet = gemuteerd \cup verwijderd]
     /\ UNCHANGED <<zaken, koppelingen, inVars, achterstand, fouten>>

\* COMMIT.  What a Celery worker had registered before is not sent, and counts as lost.
Commit(w) ==
  /\ req[w].fase = "transactie"
  /\ zaken' = (zaken \cup req[w].nieuw) \ req[w].weg
  /\ koppelingen' = [p \in Paren |-> IF p[1] \in req[w].weg THEN 0
                                     ELSE IF p = req[w].over THEN koppelingen[p] - req[w].aantal
                                     ELSE koppelingen[p]]
  /\ afgeweken' = afgeweken \cup {p \in Paren : p[1] \in req[w].weg}
  /\ achterstand' = [k \in Sleutels |->
                       IF k \in req[w].moet \ req[w].stil THEN achterstand[k] + 1 ELSE achterstand[k]]
  /\ req' = [req EXCEPT ![w].fase = "na"]
  /\ UNCHANGED <<register, wacht, log, aanvaard, fouten>>

\* The transaction is rolled back, by a validation, a broken constraint or a failing save,
\* and its callbacks are dropped; a handler of the webhook logs a database error.
Rollback(w) ==
  /\ req[w].fase = "transactie"
  /\ req' = [req EXCEPT ![w] = [Rust EXCEPT !.fase = "klaar", !.over = req[w].over, !.nr = req[w].nr]]
  /\ wacht' = [wacht EXCEPT ![w] = <<>>]
  /\ afgeweken' = afgeweken \cup ({req[w].over} \ {Geen})
  /\ UNCHANGED <<zaken, koppelingen, register, log, aanvaard, achterstand, fouten>>

\* The key that send() discards.  A deleted instance has lost its pk.
Discard(w, k) == IF k[1] = "verwijderd" THEN register[w] ELSE register[w] \ {k}

\* One callback after another, once the transaction is committed.
Roep(w) ==
  /\ req[w].fase = "na" /\ wacht[w] # <<>>
  /\ LET k == Head(wacht[w])
     IN /\ achterstand' = IF k \in Sleutels THEN [achterstand EXCEPT ![k] = @ - 1] ELSE achterstand
        /\ register' = [register EXCEPT ![w] = Discard(w, k)]
  /\ wacht' = [wacht EXCEPT ![w] = Tail(@)]
  /\ UNCHANGED <<zaken, koppelingen, req, inVars, fouten>>

\* The committed changes that w still has to announce.
Open(w) ==
  CASE req[w].fase = "na" -> Range(wacht[w])
    [] req[w].fase = "gekoppeld" -> {<<"gemuteerd", req[w].over[1]>>}
    [] OTHER -> {}

\* They are lost.
Gemist(w) ==
  achterstand' = [k \in Sleutels |-> IF k \in Open(w) THEN achterstand[k] - 1 ELSE achterstand[k]]

\* A callback raises: the message broker or the other installation does not answer.  Those
\* after it are skipped; the request fails, and the provider sends its message again.
RoepFaalt(w) ==
  /\ fouten < MaxFouten
  /\ req[w].fase = "na" /\ wacht[w] # <<>>
  /\ Gemist(w)
  /\ register' = [register EXCEPT ![w] = Reset(w) \cap Discard(w, Head(wacht[w]))]
  /\ wacht' = [wacht EXCEPT ![w] = <<>>]
  /\ req' = [req EXCEPT ![w] = Rust]
  /\ fouten' = fouten + 1
  /\ UNCHANGED <<zaken, koppelingen, inVars>>

\* The request begins another transaction: it puts back, or removes, a row after a call to
\* another installation.
Verder(w) ==
  /\ w \in Webs
  /\ req[w].fase = "na" /\ wacht[w] = <<>> /\ req[w].over = Geen /\ req[w].weg = {}
  /\ req' = [req EXCEPT ![w] = [Rust EXCEPT !.fase = "transactie"]]
  /\ UNCHANGED <<zaken, koppelingen, register, wacht, inVars, achterstand, fouten>>

\* The request or batch ends; a message is accepted.
Klaar(w) ==
  /\ req[w].fase \in {"na", "klaar"} /\ wacht[w] = <<>>
  /\ register' = [register EXCEPT ![w] = Reset(w)]
  /\ LET p == req[w].over
     IN aanvaard' = IF p # Geen /\ aanvaard[p] < req[w].nr THEN [aanvaard EXCEPT ![p] = req[w].nr] ELSE aanvaard
  /\ req' = [req EXCEPT ![w] = Rust]
  /\ UNCHANGED <<zaken, koppelingen, wacht, log, afgeweken, achterstand, fouten>>

\* The process dies: an open transaction is rolled back, callbacks are lost.
Crash(w) ==
  /\ fouten < MaxFouten
  /\ req[w].fase # "rust"
  /\ Gemist(w)
  /\ register' = [register EXCEPT ![w] = {}]
  /\ wacht' = [wacht EXCEPT ![w] = <<>>]
  /\ req' = [req EXCEPT ![w] = Rust]
  /\ fouten' = fouten + 1
  /\ UNCHANGED <<zaken, koppelingen, inVars>>

-----------------------------------------------------------------------------
\* Incoming events

\* The provider links a zaak and an object, or removes the link.
Stuur(p, soort) ==
  /\ Len(log[p]) < MaxBerichten
  /\ log' = [log EXCEPT ![p] = Append(@, soort)]
  /\ UNCHANGED <<zaken, koppelingen, req, register, wacht, aanvaard, afgeweken, achterstand, fouten>>

\* CloudEventWebhook.post(): the next message about p is delivered.
Ontvang(w, p) ==
  /\ w \in Webs
  /\ req[w].fase = "rust"
  /\ aanvaard[p] < Len(log[p])
  /\ ~Overlap => \A v \in Werkers : req[v].over # p
  /\ req' = [req EXCEPT ![w] = [Rust EXCEPT !.fase = "ontvangen", !.over = p, !.nr = aanvaard[p] + 1]]
  /\ register' = [register EXCEPT ![w] = Reset(w)]
  /\ UNCHANGED <<zaken, koppelingen, wacht, inVars, achterstand, fouten>>

\* w handles a message of this kind about p.
Behandelt(w, p, soort) == req[w].fase = "ontvangen" /\ req[w].over = p /\ log[p][req[w].nr] = soort

\* The message is logged and accepted without effect: the zaak is not known, or the object of
\* a link is not valid or cannot be fetched.
Geweigerd(w, p) ==
  /\ req[w].fase = "ontvangen" /\ req[w].over = p
  /\ IF p[1] \in zaken
       THEN Behandelt(w, p, "gekoppeld") /\ fouten < MaxFouten /\ fouten' = fouten + 1
       ELSE UNCHANGED fouten
  /\ afgeweken' = afgeweken \cup {p}
  /\ req' = [req EXCEPT ![w].fase = "klaar"]
  /\ UNCHANGED <<zaken, koppelingen, register, wacht, log, aanvaard, achterstand>>

\* handle_zaak_gekoppeld(): the zaakobject is committed.  Nothing looks for one that exists.
Gekoppeld(w, p) ==
  /\ Behandelt(w, p, "gekoppeld")
  /\ p[1] \in zaken /\ \A v \in Werkers : p[1] \notin req[v].weg
  /\ koppelingen' = [koppelingen EXCEPT ![p] = @ + 1]
  /\ req' = [req EXCEPT ![w].fase = "gekoppeld"]
  /\ achterstand' = [achterstand EXCEPT ![<<"gemuteerd", p[1]>>] = @ + 1]
  /\ UNCHANGED <<zaken, register, wacht, inVars, fouten>>

\* Its signal handler saves laatst_gemuteerd, which is committed too, and schedules the event,
\* which is sent at once.  When the zaak is gone the save raises, and the message is accepted.
GekoppeldGemuteerd(w) ==
  LET z == req[w].over[1]
      k == <<"gemuteerd", z>>
  IN /\ req[w].fase = "gekoppeld"
     /\ Vrij(w, z)
     /\ IF z \in zaken
          THEN Plan(w, <<>>, {k}, {}) /\ UNCHANGED achterstand
          ELSE achterstand' = [achterstand EXCEPT ![k] = @ - 1] /\ UNCHANGED <<register, wacht>>
     /\ req' = [req EXCEPT ![w].fase = IF z \in zaken THEN "na" ELSE "klaar"]
     /\ UNCHANGED <<zaken, koppelingen, inVars, fouten>>

\* Mutant: the first zaakobject that matches.
Eerste(p) == IF koppelingen[p] > 0 THEN 1 ELSE 0

\* The zaakobjecten of the zaak with the object.
Gevonden(p) == koppelingen[p]

\* handle_zaak_ontkoppeld(): no zaakobject, or a transaction that deletes all there are, with
\* their signals.
Ontkoppeld(w, p) ==
  LET k == <<"gemuteerd", p[1]>>
  IN /\ Behandelt(w, p, "ontkoppeld")
     /\ p[1] \in zaken
     /\ IF Gevonden(p) = 0
          THEN /\ req' = [req EXCEPT ![w].fase = "klaar"]
               /\ UNCHANGED <<register, wacht>>
          ELSE /\ Vrij(w, p[1])
               /\ Plan(w, <<>>, {k}, {})
               /\ req' = [req EXCEPT ![w] = [@ EXCEPT !.fase = "transactie", !.moet = {k},
                                                      !.aantal = Gevonden(p)]]
     /\ UNCHANGED <<zaken, koppelingen, inVars, achterstand, fouten>>

-----------------------------------------------------------------------------
Next ==
  \/ \E w \in Werkers :
       \/ Begin(w) \/ Commit(w) \/ Rollback(w) \/ Roep(w) \/ RoepFaalt(w) \/ Verder(w) \/ Klaar(w)
       \/ Crash(w) \/ GekoppeldGemuteerd(w)
       \/ \E z \in Zaken : Wijzig(w, z) \/ Maak(w, z) \/ Meld(w, z)
       \/ \E z \in Zaken, met \in SUBSET Zaken : Verwijder(w, z, met)
       \/ \E p \in Paren : Ontvang(w, p) \/ Geweigerd(w, p) \/ Gekoppeld(w, p) \/ Ontkoppeld(w, p)
  \/ \E p \in Paren, soort \in {"gekoppeld", "ontkoppeld"} : Stuur(p, soort)

Spec == Init /\ [][Next]_vars

-----------------------------------------------------------------------------
\* Properties

TypeOK ==
  /\ zaken \subseteq Zaken
  /\ koppelingen \in [Paren -> Nat]
  /\ req \in [Werkers -> [fase : {"rust", "transactie", "na", "klaar", "ontvangen", "gekoppeld"}, moet : SUBSET Sleutels,
                          nieuw : SUBSET Zaken, weg : SUBSET Zaken, stil : SUBSET Sleutels,
                          over : Paren \cup {Geen}, nr : 0..MaxBerichten, aantal : Nat]]
  /\ register \in [Werkers -> SUBSET Sleutels]
  /\ wacht \in [Werkers -> Seq(Callbacks)]
  /\ \A w \in Werkers : req[w].fase = "rust" =>
       /\ wacht[w] = <<>>
       /\ w \in Webs => register[w] = {}
  /\ log \in [Paren -> Seq({"gekoppeld", "ontkoppeld"})]
  /\ aanvaard \in [Paren -> Nat]
  /\ \A p \in Paren : aanvaard[p] \in 0..Len(log[p]) /\ Len(log[p]) <= MaxBerichten
  /\ afgeweken \subseteq Paren
  /\ achterstand \in [Sleutels -> Int]
  /\ fouten \in 0..MaxFouten

\* Every transaction that changes or deletes a zaak is announced exactly once, however many
\* signals it sets off, and a transaction that is rolled back is not: the changes that are
\* not announced yet are those that a worker is about to announce.  Lost are only events
\* after a callback that failed, of a worker that died, and of a Celery worker that had the
\* zaak in its registry already.
EenBerichtPerWijziging == \A k \in Sleutels : achterstand[k] = Cardinality({w \in Werkers : k \in Open(w)})

\* Once all messages about a zaak and an object are accepted, there are zaakobjecten exactly
\* when the last message linked them, however often each was delivered, unless a message was
\* not carried out or the zaak was deleted.
KoppelingVolgtBericht ==
  \A p \in Paren \ afgeweken :
    /\ log[p] # <<>> /\ aanvaard[p] = Len(log[p])
    /\ \A w \in Werkers : req[w].over # p
    => (koppelingen[p] > 0 <=> Last(log[p]) = "gekoppeld")

\* A batch of an import announces what it changes.
TaakMeldt ==
  [][\A w \in Taken : req[w].fase = "transactie" /\ req'[w].fase = "na" =>
       \A k \in req'[w].moet : \E i \in DOMAIN wacht'[w] : wacht'[w][i] = k]_vars

=============================================================================
