------------------------ MODULE MCDocumentRegistratie ------------------------
(* DocumentRegistratie for TLC. *)
EXTENDS DocumentRegistratie, TLC

Symmetrie == Permutations(Docs) \cup Permutations(Orgs) \cup Permutations(Werkers)

VARIABLE onderwerp    \* what one behaviour is about

\* The numbers that play a part
InHetSpel == Gebruikt \cup gereserveerd \cup UNION {Neemt(w, {}) : w \in {v \in Werkers : tx[v] # Niets}}

\* Numbers, one request after the other until a number is shared or a reservation taken, or two
\* at a time of one organisation; or dispatches of documents whose numbers do not matter.
Grens(o) ==
  CASE o = "achtereen" ->
         /\ Cardinality({w \in Werkers : tx[w] # Niets}) <= 1
         /\ Cardinality(gereserveerd) <= 2
    [] o = "tegelijk" ->
         /\ Cardinality({k.org : k \in InHetSpel}) <= 1
         /\ Cardinality(ingehaald) <= 2 /\ dubbel \cup overgenomen \cup voorbij = {}
         /\ \A d \in Docs : Len(rijen[d]) <= 1
         /\ \A w \in Werkers : tx[w] # Niets =>
              tx[w].versie = 0 /\ Len(tx[w].nieuw) <= 1 /\ Cardinality(tx[w].sleutels) <= 1
    [] o = "verzendingen" -> \A w \in Werkers : tx[w] # Niets =>
         /\ tx[w].op \in {"maak", "verzending"}
         /\ \A i \in DOMAIN tx[w].nieuw : ~tx[w].nieuw[i].genoemd

DeelInit == RegistratieInit /\ onderwerp \in {"achtereen", "tegelijk", "verzendingen"}

DeelNext ==
  /\ onderwerp = "achtereen" => dubbel \cup overgenomen \cup voorbij = {}
  /\ RegistratieNext
  /\ UNCHANGED onderwerp
  /\ onderwerp # "verzendingen" => UNCHANGED verzending
  /\ Grens(onderwerp)'
  /\ \A w \in Werkers : tx'[w] # Niets /\ onderwerp # "verzendingen" => tx'[w].op # "verzending"

DeelSpec == DeelInit /\ [][DeelNext]_<<registratieVars, onderwerp>>

=============================================================================
