------------------------------ MODULE Publicatie ------------------------------
(***************************************************************************)
(* What the catalogi promise of a type: as a concept it may be changed and *)
(* deleted, publishing it leaves its contents as they are, and from then   *)
(* on the type stays, with those contents.                                 *)
(***************************************************************************)
CONSTANT Typen

VARIABLES
  stand,     \* "geen", "concept" or "gepubliceerd", by type
  inhoud     \* what is frozen when a type is published, by type

Init == stand = [t \in Typen |-> "geen"]

Publiceer(t) ==
  /\ stand[t] = "concept"
  /\ stand' = [stand EXCEPT ![t] = "gepubliceerd"]
  /\ UNCHANGED inhoud

\* Types are created, changed and deleted as long as they are concepts.
Bewerk ==
  \A t \in Typen :
    IF stand[t] = "gepubliceerd" THEN stand'[t] = stand[t] /\ inhoud'[t] = inhoud[t]
    ELSE stand'[t] \in {"geen", "concept"}

Next == Bewerk \/ \E t \in Typen : Publiceer(t)

Spec == Init /\ [][Next]_<<stand, inhoud>>

=============================================================================
