------------------------------ MODULE Checkout ------------------------------
(***************************************************************************)
(* What check-out of a document promises: a lock is given to one client at *)
(* a time and never given twice, versions are only added while the         *)
(* document is locked, and a locked document is not destroyed.             *)
(***************************************************************************)
EXTENDS Naturals

VARIABLES
  stand,     \* "nieuw", "bestaat" or "vernietigd"
  lock,      \* the lock that is out, 0 for none
  given,     \* the number of locks given so far
  versies    \* the numbers of the versions that exist

vars == <<stand, lock, given, versies>>

Init == stand = "nieuw" /\ lock = 0 /\ given = 0 /\ versies = {}

\* A large document is given to its creator.
Create ==
  /\ stand = "nieuw"
  /\ stand' = "bestaat"
  /\ versies' = {1}
  /\ given' \in {0, 1}
  /\ lock' = given'

Lock ==
  /\ stand = "bestaat" /\ lock = 0
  /\ given' = given + 1
  /\ lock' = given'
  /\ UNCHANGED <<stand, versies>>

Unlock ==
  /\ stand = "bestaat"
  /\ lock' = 0
  /\ UNCHANGED <<stand, given, versies>>

AddVersion ==
  /\ stand = "bestaat" /\ lock # 0
  /\ \E n \in versies : versies = 1..n /\ versies' = 1..(n + 1)
  /\ UNCHANGED <<stand, lock, given>>

Destroy ==
  /\ stand = "bestaat" /\ lock = 0
  /\ stand' = "vernietigd"
  /\ versies' = {}
  /\ UNCHANGED <<lock, given>>

Next == Create \/ Lock \/ Unlock \/ AddVersion \/ Destroy

Spec == Init /\ [][Next]_vars

=============================================================================
