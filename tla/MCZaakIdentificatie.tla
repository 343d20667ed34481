------------------------- MODULE MCZaakIdentificatie -------------------------
(* ZaakIdentificatie for TLC. *)
EXTENDS ZaakIdentificatie, TLC

Symmetry == Permutations(Requests) \cup Permutations(Orgs)

VARIABLE klanten    \* of one behaviour: clients that name numbers, or that delete zaken

GemengdInit == Init /\ klanten \in {"noemen", "verwijderen"}

GemengdNext ==
  /\ Next
  /\ klanten = "noemen" =>
       /\ zaken \subseteq zaken'
       /\ \A r \in Requests : req'[r].aantal = 1
  /\ klanten = "verwijderen" => \A r \in Requests : req'[r].doel # "expliciet"
  /\ UNCHANGED klanten

GemengdSpec == GemengdInit /\ [][GemengdNext]_<<vars, klanten>> /\ Fairness

=============================================================================
