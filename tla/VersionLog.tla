----------------------------- MODULE VersionLog -----------------------------
(***************************************************************************)
(* What the version history of one document promises its readers however   *)
(* many clients race: versions are appended one at a time under the next   *)
(* number, none is ever taken out or numbered again, and the document with *)
(* all of them is destroyed at most once.                                  *)
(***************************************************************************)
EXTENDS Naturals

VARIABLES
  versies,   \* the numbers of the versions that exist
  weg        \* the document was destroyed

Init == versies = {} /\ weg = FALSE

Append ==
  /\ ~weg
  /\ \E n \in versies \cup {0} : versies = 1..n /\ versies' = 1..(n + 1)
  /\ UNCHANGED weg

Destroy == ~weg /\ versies' = {} /\ weg' = TRUE

Next == Append \/ Destroy

Spec == Init /\ [][Next]_<<versies, weg>>

=============================================================================
