-------------------------- MODULE ZaakIdentificatie --------------------------
(***************************************************************************)
(* How zaken of one year get their number.  Numbers live in a table of     *)
(* their own, so that they can be generated or reserved before the zaak    *)
(* exists; a zaak shares the primary key of its number.                    *)
(*                                                                         *)
(* The generator takes the highest number of the table, whatever the       *)
(* organisation, under an advisory lock that PostgreSQL gives back when    *)
(* the transaction ends.  POST of a zaak generates in a transaction of its *)
(* own before the one that stores the zaak; the registration endpoint does *)
(* everything in one transaction and so holds the lock until its end.      *)
(* Clients may also name a number themselves, which takes no lock.         *)
(***************************************************************************)
EXTENDS Integers, FiniteSets

CONSTANTS
  Requests,     \* requests being served at the same time
  None,         \* the holder of a lock that is free, the organisation of no request
  Orgs,         \* values of bronorganisatie
  Suffixes,     \* what a client may append to a number: "ZAAK-2026-0000000001-7"
  Ops,          \* the operations clients call in this instance
  MaxNr,        \* bound: numbers of the year, and suffixes
  MaxPk,        \* bound: rows inserted
  MaxAantal     \* bound: numbers reserved at once

AllOps == {"zaak", "registreer", "reserveer", "expliciet", "verwijder"}

ASSUME IdentificatieAssumption ==
  /\ None \notin Requests \cup Orgs
  /\ MaxNr \in Nat /\ MaxPk \in Nat /\ MaxAantal \in Nat \ {0}
  /\ Suffixes \subseteq 1..MaxNr
  /\ Ops \subseteq AllOps

VARIABLES
  ids,      \* committed rows of ZaakIdentificatie
  zaken,    \* the rows that a zaak was created for
  lock,     \* who holds the advisory lock
  req,      \* what each request has read and has still to do
  pks,      \* primary keys given out
  fouten    \* history: who chose the numbers that generated ones broke a constraint with

vars == <<ids, zaken, lock, req, pks, fouten>>

-----------------------------------------------------------------------------
Nummer == 1..MaxNr

\* An identification of the year: the number, and 0 or what a client put behind.
Sleutel == [org : Orgs, nr : Nummer, suffix : Suffixes \cup {0}]

\* A row; bron tells who chose the number.
Rij == [pk : 1..MaxPk, sleutel : Sleutel, bron : {"generator", "client"}]

Idle == [fase |-> "vrij", doel |-> "zaak", org |-> None, aantal |-> 1, gelezen |-> 0,
         rijen |-> {}, sleutels |-> {}]

MaxOf(S) == CHOOSE x \in S : \A y \in S : y <= x

\* Mutant: the number of rows instead of the greatest number.
CountRows(table) == Cardinality(table)

\* YearIdentification.current(): the greatest identification as text, of any
\* organisation, and its last part as a number.
Current(table) ==
  IF table = {} THEN 0
  ELSE LET top    == MaxOf({x.sleutel.nr : x \in table})
           suffix == MaxOf({x.sleutel.suffix : x \in {y \in table : y.sleutel.nr = top}})
       IN IF suffix = 0 THEN top ELSE suffix

\* Mutant: no unique constraint.
NeverClashes(row, table) == FALSE

\* unique_bronorganisation_identification: another row has the same number.
Clashes(row, table) == \E x \in table : x.sleutel = row.sleutel /\ x.pk # row.pk

\* Who chose the numbers that are in the way of these rows.
InTheWay(rows) == {x.bron : x \in {y \in ids : \E row \in rows : Clashes(row, {y})}}

\* The rows that generate and generate_bulk make.
NewRows(org, current, n) ==
  {[pk |-> pks + i, sleutel |-> [org |-> org, nr |-> current + i, suffix |-> 0],
    bron |-> "generator"] : i \in 1..n}

\* The rows of registrations that are not committed yet.
Uncommitted == UNION {req[r].rijen : r \in {x \in Requests : req[x].doel = "registreer"}}

Finish(r) == req' = [req EXCEPT ![r] = Idle]

\* Mutant: a lock of the session, which outlives the transaction.
SessionLock(r) == lock' = lock

\* The advisory lock goes with the transaction.
Release(r) == lock' = IF lock = r THEN None ELSE lock

Ready(r, op) == op \in Ops /\ req[r].fase = "vrij"

-----------------------------------------------------------------------------
Init ==
  /\ ids = {}
  /\ zaken = {}
  /\ lock = None
  /\ req = [r \in Requests |-> Idle]
  /\ pks = 0
  /\ fouten = {}

\* A zaak without identificatie, a registration of one, or a reservation.
Request(r, doel, org, n) ==
  /\ Ready(r, doel)
  /\ doel # "reserveer" => n = 1
  /\ req' = [req EXCEPT ![r] = [Idle EXCEPT !.fase = "wacht", !.doel = doel, !.org = org,
                                            !.aantal = n]]
  /\ UNCHANGED <<ids, zaken, lock, pks, fouten>>

\* Mutant: nobody waits.
NoLock(r) ==
  /\ req[r].fase = "wacht"
  /\ lock' = r
  /\ req' = [req EXCEPT ![r].fase = "lees"]
  /\ UNCHANGED <<ids, zaken, pks, fouten>>

\* pg_advisory_xact_lock
Acquire(r) ==
  /\ req[r].fase = "wacht"
  /\ lock = None
  /\ lock' = r
  /\ req' = [req EXCEPT ![r].fase = "lees"]
  /\ UNCHANGED <<ids, zaken, pks, fouten>>

ReadCurrent(r) ==
  /\ req[r].fase = "lees"
  /\ req' = [req EXCEPT ![r].fase = "insert", ![r].gelezen = Current(ids)]
  /\ UNCHANGED <<ids, zaken, lock, pks, fouten>>

\* Insert the numbers after the one that was read.  A number that exists breaks
\* the constraint, and beyond the bounds the generator gives up.
Insert(r) ==
  LET q    == req[r]
      new  == NewRows(q.org, q.gelezen, q.aantal)
      full == q.gelezen + q.aantal > MaxNr \/ pks + q.aantal > MaxPk
      bad  == \E x \in new : Clashes(x, ids)
  IN /\ q.fase = "insert"
     /\ IF full \/ bad
          THEN /\ fouten' = IF full THEN fouten ELSE fouten \cup InTheWay(new)
               /\ Finish(r) /\ Release(r)
               /\ UNCHANGED <<ids, pks>>
          ELSE /\ pks' = pks + q.aantal
               /\ ids' = IF q.doel = "registreer" THEN ids ELSE ids \cup new
               /\ IF q.doel = "reserveer"
                    THEN Finish(r)
                    ELSE req' = [req EXCEPT ![r].fase = "zaak", ![r].rijen = new]
               /\ IF q.doel = "registreer" THEN UNCHANGED lock ELSE Release(r)
               /\ UNCHANGED fouten
     /\ UNCHANGED zaken

\* A zaak whose client names the number: no other zaak may have it.
RequestExplicit(r, sleutel) ==
  /\ Ready(r, "expliciet")
  /\ \A x \in zaken : x.sleutel # sleutel
  /\ req' = [req EXCEPT ![r] = [Idle EXCEPT !.fase = "zaak", !.doel = "expliciet",
                                            !.sleutels = {sleutel}]]
  /\ UNCHANGED <<ids, zaken, lock, pks, fouten>>

\* Zaak.save() with a number that the client named: the row reserved for it, or
\* a new one.
RowsFor(sleutels) ==
  LET reserved == {x \in ids : x.sleutel \in sleutels}
  IN IF reserved # {} THEN reserved
     ELSE {[pk |-> pks + 1, sleutel |-> s, bron |-> "client"] : s \in sleutels}

\* Store the zaak, with the number as its parent row (inserted again if it is
\* gone).  The primary key of a zaak and the number are unique; an insert waits
\* for a registration that is storing the same number.
ZaakSave(r) ==
  LET q    == req[r]
      rows == IF q.doel = "expliciet" THEN RowsFor(q.sleutels) ELSE q.rijen
  IN /\ q.fase = "zaak"
     /\ \A row \in rows : row.pk <= MaxPk
     /\ q.doel = "expliciet" => \A x \in Uncommitted : x.sleutel \notin q.sleutels
     /\ IF \E row \in rows : row \in zaken \/ Clashes(row, ids)
          THEN UNCHANGED <<ids, zaken, pks>>
          ELSE /\ ids' = ids \cup rows
               /\ zaken' = zaken \cup rows
               /\ pks' = IF \E row \in rows : row.pk > pks THEN pks + 1 ELSE pks
     /\ Finish(r)
     /\ Release(r)
     /\ UNCHANGED fouten

\* A validation error or a killed worker: the transaction is rolled back; a
\* number that was committed before stays, without a zaak.
Abort(r) ==
  /\ req[r].fase # "vrij"
  /\ Finish(r)
  /\ Release(r)
  /\ UNCHANGED <<ids, zaken, pks, fouten>>

\* Mutant: only the number goes.
DeleteNumber(row) ==
  /\ "verwijder" \in Ops
  /\ row \in zaken
  /\ ids' = ids \ {row}
  /\ UNCHANGED <<zaken, lock, req, pks, fouten>>

\* Deleting a zaak deletes the row of its number.
Delete(row) ==
  /\ "verwijder" \in Ops
  /\ row \in zaken
  /\ zaken' = zaken \ {row}
  /\ ids' = ids \ {row}
  /\ UNCHANGED <<lock, req, pks, fouten>>

Next ==
  \/ \E r \in Requests :
       \/ \E doel \in {"zaak", "registreer", "reserveer"}, org \in Orgs, n \in 1..MaxAantal :
            Request(r, doel, org, n)
       \/ Acquire(r) \/ ReadCurrent(r) \/ Insert(r)
       \/ \E sleutel \in Sleutel : RequestExplicit(r, sleutel)
       \/ ZaakSave(r) \/ Abort(r)
  \/ \E row \in zaken : Delete(row)

Spec == Init /\ [][Next]_vars

\* A worker runs on, and PostgreSQL grants an advisory lock in the order in which
\* it was asked for.
Fairness ==
  \A r \in Requests : /\ WF_vars(ReadCurrent(r)) /\ WF_vars(Insert(r)) /\ WF_vars(ZaakSave(r))
                      /\ SF_vars(Acquire(r))

FairSpec == Spec /\ Fairness

-----------------------------------------------------------------------------
(* Properties *)

ReqType == [fase : {"vrij", "wacht", "lees", "insert", "zaak"},
            doel : {"zaak", "registreer", "reserveer", "expliciet"},
            org : Orgs \cup {None}, aantal : 1..MaxAantal, gelezen : Nat,
            rijen : SUBSET Rij, sleutels : SUBSET Sleutel]

\* The variables have their types, zaken have a number, and the lock is held by
\* a request that is in its critical section.
TypeOK ==
  /\ ids \subseteq Rij
  /\ zaken \subseteq ids
  /\ lock \in Requests \cup {None}
  /\ req \in [Requests -> ReqType]
  /\ pks \in 0..MaxPk
  /\ fouten \subseteq {"generator", "client"}

\* No number is generated twice, not even for different organisations, whoever
\* generates, reserves and registers at the same time.
GeneratedDistinct ==
  \A a, b \in ids : a.bron = "generator" /\ b.bron = "generator"
                      /\ a.sleutel.nr = b.sleutel.nr => a = b

\* Two zaken of an organisation never have the same number, also when one
\* client names the number that another reserved or was given.
ZakenDistinct == \A a, b \in zaken : a.sleutel = b.sleutel => a = b

\* Generating a number never fails on a number that was generated before: what is in its way
\* can only be a number that a client named meanwhile.
NoClash == "generator" \notin fouten

\* A request that needs a number is not left waiting for one.
GenerationEnds ==
  \A r \in Requests : req[r].fase = "wacht" ~> req[r].fase \in {"vrij", "zaak"}

=============================================================================
