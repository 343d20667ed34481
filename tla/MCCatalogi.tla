------------------------------ MODULE MCCatalogi ------------------------------
(* Catalogi for TLC. *)
EXTENDS Catalogi, TLC

Symmetrie == Permutations(Zaaktypen) \cup Permutations(Informatieobjecttypen)
               \cup Permutations(Statustypen)

=============================================================================
