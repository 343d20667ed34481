--------------------------- MODULE MCGebeurtenissen ---------------------------
(* Gebeurtenissen for TLC. *)
EXTENDS Gebeurtenissen, TLC

CONSTANTS Hoofdzaak, Deelzaak   \* of the one relation between zaken

MCHoofdVan == [z \in Zaken |-> IF z = Deelzaak THEN Hoofdzaak ELSE Geen]

VARIABLE onderwerp    \* of one behaviour: outgoing events, or the webhook

\* A behaviour is about a hoofdzaak and a deelzaak, which a web worker and a Celery worker
\* change; or about one zaak, which web workers link, change and delete.
DeelInit ==
  /\ Init
  /\ onderwerp \in {"uit", "in"}
  /\ onderwerp = "in" => zaken = {Hoofdzaak}

DeelNext ==
  /\ Next
  /\ UNCHANGED onderwerp
  /\ onderwerp = "uit" =>
       /\ UNCHANGED log
       /\ \E w \in Webs : \A v \in Webs \ {w} : req'[v] = Rust
  /\ onderwerp = "in" =>
       /\ \A t \in Taken : req'[t] = Rust
       /\ \A w \in Webs : Deelzaak \notin req'[w].nieuw
       /\ \A p \in Paren : p[1] # Hoofdzaak => log'[p] = <<>>

DeelSpec == DeelInit /\ [][DeelNext]_<<vars, onderwerp>>

Symmetrie == Permutations(Webs)

=============================================================================
