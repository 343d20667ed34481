--------------------------- MODULE MCExterneRelaties ---------------------------
(* ExterneRelaties for TLC. *)
EXTENDS ExterneRelaties, TLC

Symmetrie == Permutations(Werkers) \cup Permutations(Extern)

=============================================================================
