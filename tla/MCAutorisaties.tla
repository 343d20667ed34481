----------------------------- MODULE MCAutorisaties -----------------------------
(* Autorisaties for TLC. *)
EXTENDS Autorisaties, TLC

MCCatalogusVan == (1 :> "k1") @@ (2 :> "k2")

Een(nr, t, max, leest) == [nr |-> nr, type |-> t, max |-> max, leest |-> leest]

\* None; one type; two types; a type that is named twice; a type of another installation
\* and autorisaties without the scope.
MCLijsten ==
  {{}, {Een(1, 1, 1, TRUE)},
   {Een(1, 1, 1, TRUE), Een(2, 2, 2, TRUE)},
   {Een(1, 1, 2, TRUE), Een(2, 1, 1, TRUE), Een(3, 2, 1, TRUE)},
   {Een(1, 2, 2, TRUE), Een(2, 3, 1, TRUE), Een(3, 1, 2, FALSE)}}

\* Of one behaviour: client ids, autorisaties, those with forms when type 1 is there from the
\* start, or who is told of a new type
VARIABLE onderwerp

A1 == CHOOSE a \in Apps : TRUE
C1 == CHOOSE c \in Clients : TRUE

DeelInit ==
  /\ Init
  /\ onderwerp \in {"ids", "api", "formulier", "melden"}
  /\ onderwerp = "ids" => typen = [t \in Typen |-> "er"]
  /\ onderwerp = "melden" => typen = [t \in Typen |-> "nieuw"]
  /\ onderwerp = "formulier" => typen[1] = "er"

\* Bounds of a request.  The behaviours about client ids are of superusers, those about new types
\* of applicaties without client ids that have autorisaties for one catalogus or none, the others
\* of one applicatie with one client id; with forms for its autorisaties, its own form is left out.
Grens(t) ==
  CASE onderwerp = "ids" -> t.op \in {"api", "beheer"} /\ (t.op = "api" => t.alle /\ ~t.geeft)
    [] onderwerp = "api" -> /\ t.op \in {"api", "type_weg"} /\ t.apps \subseteq {A1}
                            /\ t.op = "api" => t.ids = {C1}
    [] onderwerp = "melden" -> /\ t.op \in {"invoer", "formulier", "sync", "meldt"} /\ t.lijst = {}
                               /\ \A k \in t.cats : k.catalogus = "k1" /\ k.max = 1
    [] OTHER -> /\ t.apps \subseteq {A1} /\ t.op # "beheer"
                /\ t.op = "api" => /\ t.ids = {C1}
                                   /\ t.lijst \in {{}, {Een(1, 1, 1, TRUE)}}
                /\ \A r \in t.lijst : Lokaal(r)
                /\ \A k \in t.cats : k.catalogus = "k2" /\ k.max = 1

DeelNext ==
  /\ Next
  /\ \A w \in Werkers : tx'[w] # Geen => Grens(tx'[w])
  /\ onderwerp = "ids" =>
       /\ typen' = typen
       /\ \A a \in Apps : apps'[a].stand = "er" => apps'[a].alle
  /\ onderwerp = "melden" =>
       \A a \in Apps : apps'[a].stand = "er" => apps'[a].ids = {} /\ ~apps'[a].alle
  /\ onderwerp \in {"api", "formulier"} => \A a \in Apps :
       apps'[a].stand = "er" => a = A1 /\ apps'[a].ids = {C1} /\ (onderwerp = "api" => a \notin beheerd')
  /\ UNCHANGED onderwerp

Symmetrie == Permutations(Werkers)

DeelSpec == DeelInit /\ [][DeelNext]_<<vars, onderwerp>>

=============================================================================
