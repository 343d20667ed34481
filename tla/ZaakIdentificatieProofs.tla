----------------------- MODULE ZaakIdentificatieProofs -----------------------
(***************************************************************************)
(* Proofs about ZaakIdentificatie for any number of requests,              *)
(* organisations and numbers.                                              *)
(***************************************************************************)
EXTENDS ZaakIdentificatie, WellFoundedInduction, TLAPS

-----------------------------------------------------------------------------
(* The greatest element of a bounded set of numbers. *)

LEMMA MaxExists ==
  ASSUME NEW n \in Nat, NEW S \in SUBSET (0..n), S # {}
  PROVE  MaxOf(S) \in S /\ \A y \in S : y <= MaxOf(S)
<1>. DEFINE T == {n - x : x \in S}
<1>1. T \subseteq Nat /\ T # {}
  <2>1. PICK x \in S : TRUE
    OBVIOUS
  <2>2. n - x \in T
    BY <2>1
  <2>3. ASSUME NEW u \in T PROVE u \in Nat
    OBVIOUS
  <2>. QED BY <2>2, <2>3
<1>. DEFINE R == {ss \in Nat \X Nat : ss[1] < ss[2]}
<1>0. IsWellFoundedOn(R, Nat)
  BY NatLessThanWellFounded DEF OpToRel
<1>. HIDE DEF T
<1>2. PICK t \in T : \A u \in T : t <= u
  <2>1. PICK t \in T : \A u \in T : ~ (<<u, t>> \in R)
    <3>. HIDE DEF R
    <3>. QED BY <1>0, <1>1, WFMin
  <2>2. ASSUME NEW u \in T PROVE t <= u
    <3>1. u \in Nat /\ t \in Nat
      BY <1>1
    <3>2. <<u, t>> \notin R
      BY <2>1
    <3>3. <<u, t>>[1] = u /\ <<u, t>>[2] = t /\ <<u, t>> \in Nat \X Nat
      BY <3>1
    <3>4. ~ (u < t)
      BY <3>2, <3>3
    <3>. QED BY <3>1, <3>4
  <2>. QED BY <2>2
<1>. USE DEF T
<1>4. PICK x \in S : t = n - x
  OBVIOUS
<1>5. \A y \in S : y <= x
  <2> TAKE y \in S
  <2>1. n - y \in T
    OBVIOUS
  <2>2. t <= n - y
    BY <1>2, <2>1
  <2>. QED BY <1>4, <2>2
<1>. QED BY <1>4, <1>5 DEF MaxOf

-----------------------------------------------------------------------------
(* What current() returns. *)

LEMMA CurrentIsNat ==
  ASSUME NEW table \in SUBSET Rij
  PROVE  Current(table) \in Nat
<1>1. CASE table = {}
  BY <1>1 DEF Current
<1>2. CASE table # {}
  <2>. DEFINE nrs == {x.sleutel.nr : x \in table}
              top == MaxOf(nrs)
              sufs == {x.sleutel.suffix : x \in {y \in table : y.sleutel.nr = top}}
  <2>1. nrs \in SUBSET (0..MaxNr) /\ nrs # {}
    BY <1>2, IdentificatieAssumption DEF Rij, Sleutel, Nummer
  <2>2. top \in nrs
    <3>. HIDE DEF nrs
    <3>. QED BY <2>1, IdentificatieAssumption, MaxExists
  <2>4. sufs \in SUBSET (0..MaxNr) /\ sufs # {}
    <3>. HIDE DEF top
    <3>1. PICK z \in table : z.sleutel.nr = top
      BY <2>2
    <3>2. z.sleutel.suffix \in sufs
      BY <3>1
    <3>3. \A y \in table : y.sleutel.suffix \in Suffixes \cup {0}
      BY DEF Rij, Sleutel
    <3>4. Suffixes \cup {0} \subseteq 0..MaxNr
      BY IdentificatieAssumption
    <3>. QED BY <3>2, <3>3, <3>4
  <2>5. MaxOf(sufs) \in sufs
    <3>. HIDE DEF sufs
    <3>. QED BY <2>4, IdentificatieAssumption, MaxExists
  <2>6. top \in Nat /\ MaxOf(sufs) \in Nat
    <3>. HIDE DEF sufs, nrs
    <3>1. top \in 0..MaxNr
      BY <2>1, <2>2
    <3>2. MaxOf(sufs) \in 0..MaxNr
      BY <2>4, <2>5
    <3>. QED BY <3>1, <3>2, IdentificatieAssumption
  <2>7. Current(table) = IF MaxOf(sufs) = 0 THEN top ELSE MaxOf(sufs)
    BY <1>2 DEF Current
  <2>. HIDE DEF top, sufs, nrs
  <2>. QED BY <2>6, <2>7
<1>. QED BY <1>1, <1>2

\* Without suffixes nothing is above it.
LEMMA CurrentIsGreatest ==
  ASSUME Suffixes = {}, NEW table \in SUBSET Rij, NEW row \in table
  PROVE  row.sleutel.nr <= Current(table)
<1>. DEFINE nrs == {x.sleutel.nr : x \in table}
            top == MaxOf(nrs)
            sufs == {x.sleutel.suffix : x \in {y \in table : y.sleutel.nr = top}}
<1>1. nrs \in SUBSET (0..MaxNr) /\ nrs # {} /\ row.sleutel.nr \in nrs
  BY IdentificatieAssumption DEF Rij, Sleutel, Nummer
<1>2. top \in nrs /\ \A y \in nrs : y <= top
  <2>. HIDE DEF nrs
  <2>. QED BY <1>1, IdentificatieAssumption, MaxExists
<1>3. sufs = {0}
  <2>. HIDE DEF top
  <2>1. PICK z \in table : z.sleutel.nr = top
    BY <1>2
  <2>2. \A y \in table : y.sleutel.suffix = 0
    BY DEF Rij, Sleutel
  <2>. QED BY <2>1, <2>2
<1>4. MaxOf(sufs) = 0
  <2>1. MaxOf({0}) \in {0}
    BY MaxExists
  <2>. HIDE DEF sufs
  <2>. QED BY <1>3, <2>1
<1>5. Current(table) = IF MaxOf(sufs) = 0 THEN top ELSE MaxOf(sufs)
  BY DEF Current
<1>. HIDE DEF top, sufs, nrs
<1>. QED BY <1>1, <1>2, <1>4, <1>5

-----------------------------------------------------------------------------
(* The inductive invariants. *)

\* Rows that exist or that a request is about to store.
Rows == ids \cup UNION {req[r].rijen : r \in Requests}

\* A primary key belongs to one row.
PkInv == /\ \A a \in Rows : a.pk <= pks
         /\ \A a, b \in Rows : a.pk = b.pk => a = b

\* The unique constraint.
KeyInv == \A a, b \in ids : a.sleutel = b.sleutel => a = b

\* A request for a zaak is about one number; a request for a number names an
\* organisation.
SingleInv ==
  \A r \in Requests :
    /\ req[r].fase \in {"wacht", "lees", "insert"} => req[r].org \in Orgs
    /\ req[r].doel # "reserveer" => req[r].aantal = 1
    /\ \A x, y \in req[r].rijen : x = y
    /\ \A s, t \in req[r].sleutels : s = t

IInv == TypeOK /\ PkInv /\ KeyInv /\ SingleInv

\* Who reads, inserts or registers holds the lock.
Locked(r) ==
  \/ req[r].fase \in {"lees", "insert"}
  \/ req[r].fase = "zaak" /\ req[r].doel = "registreer"

LockInv == \A r \in Requests : Locked(r) => lock = r

Generated(rows) == {x \in rows : x.bron = "generator"}

\* What the holder of the lock has read is still the greatest generated number.
ReadInv ==
  \A r \in Requests : req[r].fase = "insert" =>
    \A x \in Generated(ids) : x.sleutel.nr <= req[r].gelezen

\* A registration that is not committed has a number of its own.
RegisterInv ==
  \A r \in Requests : req[r].fase = "zaak" /\ req[r].doel = "registreer" =>
    \A x \in req[r].rijen, y \in Generated(ids) : x.sleutel.nr # y.sleutel.nr

\* The number generated for a zaak stays until the zaak is stored.
PendingInv ==
  \A r \in Requests :
    /\ req[r].fase = "zaak" => req[r].doel # "reserveer"
    /\ req[r].doel = "zaak" => req[r].rijen \subseteq ids
    /\ "expliciet" \notin Ops =>
         /\ req[r].rijen \cap zaken = {}
         /\ \A s \in Requests \ {r} : req[r].rijen \cap req[s].rijen = {}
         /\ req[r].doel # "expliciet"

GInv == LockInv /\ ReadInv /\ RegisterInv /\ PendingInv /\ GeneratedDistinct

-----------------------------------------------------------------------------
(* Steps that only change what a request is doing, and the lock. *)

LEMMA IdleTyped == Idle \in ReqType /\ Idle.rijen = {}
BY IdentificatieAssumption DEF Idle, ReqType

\* A request that ends, or that goes on with the same rows or none.
LEMMA OneRequest ==
  ASSUME IInv, NEW r \in Requests, NEW q \in ReqType,
         req' = [req EXCEPT ![r] = q],
         q.rijen \subseteq req[r].rijen,
         q.doel # "reserveer" => q.aantal = 1,
         q.fase \in {"wacht", "lees", "insert"} => q.org \in Orgs,
         \A s, t \in q.sleutels : s = t,
         lock' \in Requests \cup {None},
         UNCHANGED <<ids, zaken, pks>>,
         fouten' \subseteq {"generator", "client"}
  PROVE  IInv'
<1>. USE DEF IInv
<1>1. TypeOK'
  BY DEF TypeOK
<1>2. \A s \in Requests : req'[s].rijen \subseteq req[s].rijen
  BY DEF TypeOK
<1>3. Rows' \subseteq Rows
  BY <1>2 DEF Rows
<1>4. PkInv'
  BY <1>3 DEF PkInv
<1>5. KeyInv'
  BY DEF KeyInv
<1>6. SingleInv'
  BY <1>2 DEF SingleInv, TypeOK
<1>. QED BY <1>1, <1>4, <1>5, <1>6

LEMMA InitInv == Init => IInv
<1>. SUFFICES ASSUME Init PROVE IInv
  OBVIOUS
<1>1. \A r \in Requests : req[r] = Idle
  BY DEF Init
<1>2. TypeOK
  BY IdleTyped, IdentificatieAssumption DEF Init, TypeOK
<1>3. Rows = {}
  BY <1>1, IdleTyped DEF Init, Rows
<1>. QED BY <1>1, <1>2, <1>3 DEF IInv, PkInv, KeyInv, SingleInv, Idle, Init

LEMMA RequestInv ==
  ASSUME IInv, NEW r \in Requests, NEW doel \in {"zaak", "registreer", "reserveer"},
         NEW org \in Orgs, NEW n \in 1..MaxAantal, Request(r, doel, org, n)
  PROVE  IInv'
<1>. DEFINE q == [Idle EXCEPT !.fase = "wacht", !.doel = doel, !.org = org, !.aantal = n]
<1>1. q \in ReqType /\ q.rijen = {} /\ q.sleutels = {} /\ (q.doel # "reserveer" => q.aantal = 1)
        /\ q.org \in Orgs
  BY IdentificatieAssumption DEF Request, Idle, ReqType
<1>2. req' = [req EXCEPT ![r] = q]
  BY DEF Request
<1>. HIDE DEF q
<1>3. UNCHANGED <<ids, zaken, lock, pks, fouten>>
  BY DEF Request
<1>. QED BY <1>1, <1>2, <1>3, OneRequest DEF IInv, TypeOK

LEMMA RequestExplicitInv ==
  ASSUME IInv, NEW r \in Requests, NEW sleutel \in Sleutel, RequestExplicit(r, sleutel)
  PROVE  IInv'
<1>. DEFINE q == [Idle EXCEPT !.fase = "zaak", !.doel = "expliciet", !.sleutels = {sleutel}]
<1>0. {sleutel} \in SUBSET Sleutel
  OBVIOUS
<1>1. q \in ReqType /\ q.rijen = {} /\ q.sleutels = {sleutel} /\ q.aantal = 1 /\ q.fase = "zaak"
  <2>1. q \in ReqType
    BY <1>0, IdleTyped DEF ReqType
  <2>. QED BY <2>1 DEF Idle
<1>2. req' = [req EXCEPT ![r] = q]
  BY DEF RequestExplicit
<1>. HIDE DEF q
<1>3. UNCHANGED <<ids, zaken, lock, pks, fouten>>
  BY DEF RequestExplicit
<1>. QED BY <1>1, <1>2, <1>3, OneRequest DEF IInv, TypeOK

LEMMA AcquireInv ==
  ASSUME IInv, NEW r \in Requests, Acquire(r)
  PROVE  IInv'
<1>. DEFINE q == [req[r] EXCEPT !.fase = "lees"]
<1>1. q \in ReqType /\ q.rijen = req[r].rijen /\ q.sleutels = req[r].sleutels
        /\ q.doel = req[r].doel /\ q.aantal = req[r].aantal /\ q.org = req[r].org
  BY DEF IInv, TypeOK, ReqType
<1>2. req' = [req EXCEPT ![r] = q]
  BY DEF Acquire
<1>. HIDE DEF q
<1>3. lock' = r /\ UNCHANGED <<ids, zaken, pks, fouten>>
  BY DEF Acquire
<1>4. /\ q.doel # "reserveer" => q.aantal = 1
      /\ \A s, t \in q.sleutels : s = t
      /\ q.org \in Orgs
  BY <1>1 DEF IInv, SingleInv, Acquire
<1>5. lock' \in Requests \cup {None} /\ fouten' \subseteq {"generator", "client"}
  BY <1>3 DEF IInv, TypeOK
<1>. QED BY <1>1, <1>2, <1>3, <1>4, <1>5, OneRequest

LEMMA ReadCurrentInv ==
  ASSUME IInv, NEW r \in Requests, ReadCurrent(r)
  PROVE  IInv'
<1>. DEFINE q == [req[r] EXCEPT !.fase = "insert", !.gelezen = Current(ids)]
<1>0. Current(ids) \in Nat
  BY CurrentIsNat DEF IInv, TypeOK
<1>1. q \in ReqType /\ q.rijen = req[r].rijen /\ q.sleutels = req[r].sleutels
        /\ q.doel = req[r].doel /\ q.aantal = req[r].aantal /\ q.org = req[r].org
  BY <1>0 DEF IInv, TypeOK, ReqType
<1>2. req' = [req EXCEPT ![r] = q]
  BY DEF ReadCurrent
<1>. HIDE DEF q
<1>3. UNCHANGED <<ids, zaken, lock, pks, fouten>>
  BY DEF ReadCurrent
<1>4. /\ q.doel # "reserveer" => q.aantal = 1
      /\ \A s, t \in q.sleutels : s = t
      /\ q.org \in Orgs
  BY <1>1 DEF IInv, SingleInv, ReadCurrent
<1>5. lock' \in Requests \cup {None} /\ fouten' \subseteq {"generator", "client"}
  BY <1>3 DEF IInv, TypeOK
<1>. QED BY <1>1, <1>2, <1>3, <1>4, <1>5, OneRequest

LEMMA AbortInv ==
  ASSUME IInv, NEW r \in Requests, Abort(r)
  PROVE  IInv'
<1>1. req' = [req EXCEPT ![r] = Idle]
  BY DEF Abort, Finish
<1>2. lock' \in Requests \cup {None} /\ UNCHANGED <<ids, zaken, pks, fouten>>
  BY DEF Abort, Release, IInv, TypeOK
<1>3. Idle.sleutels = {} /\ Idle.aantal = 1 /\ Idle.fase = "vrij"
  BY DEF Idle
<1>. QED BY <1>1, <1>2, <1>3, IdleTyped, OneRequest DEF IInv, TypeOK

LEMMA DeleteInv ==
  ASSUME IInv, NEW row \in zaken, Delete(row)
  PROVE  IInv'
<1>1. ids' = ids \ {row} /\ zaken' = zaken \ {row} /\ UNCHANGED <<lock, req, pks, fouten>>
  BY DEF Delete
<1>2. Rows' \subseteq Rows
  BY <1>1 DEF Rows
<1>. QED BY <1>1, <1>2 DEF IInv, TypeOK, PkInv, KeyInv, SingleInv

-----------------------------------------------------------------------------
(* The two steps that store rows. *)

LEMMA NewRowsFacts ==
  ASSUME TypeOK, NEW org \in Orgs, NEW current \in Nat, NEW n \in Nat,
         current + n <= MaxNr, pks + n <= MaxPk
  PROVE  /\ NewRows(org, current, n) \in SUBSET Rij
         /\ \A x \in NewRows(org, current, n) :
              /\ x.pk > pks /\ x.pk <= pks + n
              /\ x.bron = "generator"
              /\ x.sleutel.nr = current + (x.pk - pks)
         /\ \A x, y \in NewRows(org, current, n) : x.pk = y.pk \/ x.sleutel = y.sleutel => x = y
         /\ n = 1 => \A x, y \in NewRows(org, current, n) : x = y
<1>. DEFINE Row(i) == [pk |-> pks + i, sleutel |-> [org |-> org, nr |-> current + i, suffix |-> 0],
                       bron |-> "generator"]
<1>0. pks \in Nat
  BY IdentificatieAssumption DEF TypeOK
<1>1. ASSUME NEW x \in NewRows(org, current, n)
      PROVE  \E i \in 1..n : x = Row(i)
  BY DEF NewRows
<1>2. ASSUME NEW i \in 1..n
      PROVE  /\ Row(i) \in Rij /\ Row(i).pk = pks + i /\ Row(i).bron = "generator"
             /\ Row(i).sleutel.nr = current + i
  <2>1. pks + i \in 1..MaxPk /\ current + i \in 1..MaxNr
    BY <1>0, IdentificatieAssumption
  <2>2. [org |-> org, nr |-> current + i, suffix |-> 0] \in Sleutel
    BY <2>1 DEF Sleutel, Nummer
  <2>. QED BY <2>1, <2>2 DEF Rij
<1>. HIDE DEF Row
<1>3. ASSUME NEW x \in NewRows(org, current, n)
      PROVE  \E i \in 1..n : x = Row(i) /\ x.pk = pks + i /\ x.sleutel.nr = current + i
                               /\ x \in Rij /\ x.bron = "generator"
  BY <1>1, <1>2
<1>4. NewRows(org, current, n) \in SUBSET Rij
  BY <1>3
<1>5. ASSUME NEW x \in NewRows(org, current, n)
      PROVE  /\ x.pk > pks /\ x.pk <= pks + n
             /\ x.bron = "generator"
             /\ x.sleutel.nr = current + (x.pk - pks)
  BY <1>0, <1>3
<1>6. ASSUME NEW x \in NewRows(org, current, n), NEW y \in NewRows(org, current, n),
             x.pk = y.pk \/ x.sleutel = y.sleutel
      PROVE  x = y
  <2>1. PICK i \in 1..n : x = Row(i) /\ x.pk = pks + i /\ x.sleutel.nr = current + i
    BY <1>3
  <2>2. PICK j \in 1..n : y = Row(j) /\ y.pk = pks + j /\ y.sleutel.nr = current + j
    BY <1>3
  <2>3. i = j
    BY <1>0, <1>6, <2>1, <2>2
  <2>. QED BY <2>1, <2>2, <2>3
<1>7. ASSUME n = 1, NEW x \in NewRows(org, current, n), NEW y \in NewRows(org, current, n)
      PROVE  x = y
  BY <1>3, <1>7
<1>. QED BY <1>4, <1>5, <1>6, <1>7

LEMMA InsertInv ==
  ASSUME IInv, NEW r \in Requests, Insert(r)
  PROVE  IInv'
<1>. DEFINE q    == req[r]
            new  == NewRows(q.org, q.gelezen, q.aantal)
            full == q.gelezen + q.aantal > MaxNr \/ pks + q.aantal > MaxPk
            bad  == \E x \in new : Clashes(x, ids)
<1>0. /\ q \in ReqType /\ q.gelezen \in Nat /\ q.aantal \in Nat
      /\ q.fase = "insert" /\ q.org \in Orgs /\ zaken' = zaken
  BY IdentificatieAssumption DEF Insert, IInv, TypeOK, ReqType, SingleInv
<1>1. CASE full \/ bad
  <2>1. /\ req' = [req EXCEPT ![r] = Idle]
        /\ UNCHANGED <<ids, zaken, pks>>
        /\ lock' \in Requests \cup {None}
        /\ fouten' \subseteq fouten \cup InTheWay(new)
    BY <1>1, <1>0 DEF Insert, Finish, Release, IInv, TypeOK
  <2>2. Idle.sleutels = {} /\ Idle.aantal = 1 /\ Idle.fase = "vrij"
    BY DEF Idle
  <2>3. fouten' \subseteq {"generator", "client"}
    <3>1. InTheWay(new) \subseteq {"generator", "client"}
      BY DEF InTheWay, IInv, TypeOK, Rij
    <3>. QED BY <2>1, <3>1 DEF IInv, TypeOK
  <2>. QED BY <2>1, <2>2, <2>3, IdleTyped, OneRequest
<1>2. CASE ~full /\ ~bad
  <2>. DEFINE q2 == IF q.doel = "reserveer" THEN Idle ELSE [q EXCEPT !.fase = "zaak", !.rijen = new]
  <2>1. /\ pks' = pks + q.aantal
        /\ ids' = IF q.doel = "registreer" THEN ids ELSE ids \cup new
        /\ req' = [req EXCEPT ![r] = q2]
        /\ lock' \in Requests \cup {None}
        /\ fouten' = fouten
    BY <1>2 DEF Insert, Finish, Release, IInv, TypeOK
  <2>2. pks \in Nat /\ q.gelezen + q.aantal <= MaxNr /\ pks + q.aantal <= MaxPk
    BY <1>0, <1>2, IdentificatieAssumption DEF IInv, TypeOK
  <2>3. /\ new \in SUBSET Rij
        /\ \A x \in new : /\ x.pk > pks /\ x.pk <= pks + q.aantal
                          /\ x.bron = "generator"
                          /\ x.sleutel.nr = q.gelezen + (x.pk - pks)
        /\ \A x, y \in new : x.pk = y.pk \/ x.sleutel = y.sleutel => x = y
        /\ q.aantal = 1 => \A x, y \in new : x = y
    BY <1>0, <2>2, NewRowsFacts DEF IInv
  <2>4. \A x \in new, y \in ids : x.sleutel = y.sleutel => x.pk = y.pk
    BY <1>2 DEF Clashes
  <2>. HIDE DEF new, full, bad, q
  <2>5. q2 \in ReqType /\ q2.rijen \subseteq new
    BY <1>0, <2>3, IdleTyped DEF ReqType
  <2>6. /\ q2.doel # "reserveer" => q2.aantal = 1
        /\ \A s, t \in q2.sleutels : s = t
        /\ q2.fase \notin {"wacht", "lees", "insert"}
        /\ \A x, y \in q2.rijen : x = y
    <3>1. /\ q.doel # "reserveer" => q.aantal = 1
          /\ \A s, t \in q.sleutels : s = t
      BY DEF IInv, SingleInv, q
    <3>2. CASE q.doel = "reserveer"
      BY <3>2 DEF Idle
    <3>3. CASE q.doel # "reserveer"
      <4>1. q2 = [q EXCEPT !.fase = "zaak", !.rijen = new]
        BY <3>3
      <4>2. /\ q2.doel = q.doel /\ q2.aantal = q.aantal /\ q2.sleutels = q.sleutels
            /\ q2.fase = "zaak" /\ q2.rijen = new
        BY <4>1, <1>0 DEF ReqType
      <4>. QED BY <3>1, <3>3, <4>2, <2>3
    <3>. QED BY <3>2, <3>3
  <2>. HIDE DEF q2
  <2>7. TypeOK'
    <3>1. ids' \subseteq Rij /\ zaken' \subseteq ids'
      BY <1>0, <2>1, <2>3 DEF IInv, TypeOK
    <3>2. req' \in [Requests -> ReqType]
      BY <2>1, <2>5 DEF IInv, TypeOK
    <3>3. pks' \in 0..MaxPk
      BY <1>0, <2>1, <2>2, IdentificatieAssumption
    <3>. QED BY <2>1, <3>1, <3>2, <3>3 DEF IInv, TypeOK
  <2>8. Rows' \subseteq Rows \cup new
    <3>1. \A s \in Requests : req'[s].rijen \subseteq req[s].rijen \cup new
      BY <2>1, <2>5 DEF IInv, TypeOK
    <3>2. ids' \subseteq ids \cup new
      BY <2>1
    <3>. QED BY <3>1, <3>2 DEF Rows
  <2>9. PkInv'
    <3>0. \A a \in Rows : a.pk \in Nat
      BY IdentificatieAssumption DEF Rows, IInv, TypeOK, ReqType, Rij
    <3>1. \A a \in Rows \cup new : a.pk <= pks + q.aantal
      BY <1>0, <2>2, <2>3, <3>0 DEF IInv, PkInv
    <3>2. \A a, b \in Rows \cup new : a.pk = b.pk => a = b
      BY <2>2, <2>3, <3>0 DEF IInv, PkInv
    <3>. QED BY <2>1, <2>8, <3>1, <3>2 DEF PkInv
  <2>10. KeyInv'
    <3>1. \A x \in new, y \in ids : x.pk # y.pk
      <4>1. \A y \in ids : y.pk \in Nat /\ y.pk <= pks
        BY IdentificatieAssumption DEF IInv, PkInv, Rows, TypeOK, Rij
      <4>. QED BY <2>2, <2>3, <4>1
    <3>2. \A a, b \in ids \cup new : a.sleutel = b.sleutel => a = b
      BY <2>3, <2>4, <3>1 DEF IInv, KeyInv
    <3>. QED BY <2>1, <3>2 DEF KeyInv
  <2>11. SingleInv'
    BY <2>1, <2>5, <2>6 DEF IInv, SingleInv, TypeOK
  <2>. QED BY <2>7, <2>9, <2>10, <2>11 DEF IInv
<1>. QED BY <1>1, <1>2

\* The row of a zaak exists, or was announced, or is new.
SavedRows(r) == IF req[r].doel = "expliciet" THEN RowsFor(req[r].sleutels) ELSE req[r].rijen

LEMMA SavedRowsFacts ==
  ASSUME IInv, NEW r \in Requests, \A row \in SavedRows(r) : row.pk <= MaxPk
  PROVE  /\ SavedRows(r) \in SUBSET Rij
         /\ \A x \in SavedRows(r) : x \in Rows \/ (x.pk = pks + 1 /\ x.bron = "client")
         /\ req[r].doel = "expliciet" =>
              \A x \in SavedRows(r) : x \in ids \/ (x.pk = pks + 1 /\ x.bron = "client")
         /\ \A x, y \in SavedRows(r) : x = y
<1>0. /\ req[r] \in ReqType /\ pks \in Nat /\ ids \subseteq Rij
      /\ req[r].rijen \subseteq Rij /\ req[r].sleutels \subseteq Sleutel
  BY IdentificatieAssumption DEF IInv, TypeOK, ReqType
<1>1. CASE req[r].doel # "expliciet"
  BY <1>0, <1>1 DEF SavedRows, Rows, IInv, SingleInv
<1>2. CASE req[r].doel = "expliciet"
  <2>. DEFINE reserved == {x \in ids : x.sleutel \in req[r].sleutels}
              fresh    == {[pk |-> pks + 1, sleutel |-> s, bron |-> "client"] : s \in req[r].sleutels}
  <2>1. SavedRows(r) = IF reserved # {} THEN reserved ELSE fresh
    BY <1>2 DEF SavedRows, RowsFor
  <2>2. \A s, t \in req[r].sleutels : s = t
    BY DEF IInv, SingleInv
  <2>3. CASE reserved # {}
    <3>1. \A x, y \in reserved : x = y
      BY <2>2 DEF IInv, KeyInv
    <3>. QED BY <1>0, <2>1, <2>3, <3>1 DEF Rows
  <2>4. CASE reserved = {}
    <3>1. \A x \in fresh : x.pk = pks + 1 /\ x.bron = "client"
      OBVIOUS
    <3>2. \A x, y \in fresh : x = y
      BY <2>2
    <3>3. ASSUME NEW x \in fresh PROVE x \in Rij
      <4>1. PICK s \in req[r].sleutels : x = [pk |-> pks + 1, sleutel |-> s, bron |-> "client"]
        OBVIOUS
      <4>2. x.pk = pks + 1 /\ s \in Sleutel /\ x.pk <= MaxPk
        BY <1>0, <2>1, <2>4, <4>1
      <4>3. pks + 1 \in 1..MaxPk
        BY <1>0, <4>2, IdentificatieAssumption
      <4>. QED BY <4>1, <4>2, <4>3 DEF Rij
    <3>4. SavedRows(r) = fresh
      BY <2>1, <2>4
    <3>. HIDE DEF fresh
    <3>. QED BY <3>1, <3>2, <3>3, <3>4
  <2>. QED BY <2>3, <2>4
<1>. QED BY <1>1, <1>2

LEMMA ZaakSaveInv ==
  ASSUME IInv, NEW r \in Requests, ZaakSave(r)
  PROVE  IInv'
<1>. DEFINE rows == SavedRows(r)
            bad  == \E row \in rows : row \in zaken \/ Clashes(row, ids)
<1>0. /\ req' = [req EXCEPT ![r] = Idle]
      /\ lock' \in Requests \cup {None}
      /\ \A row \in rows : row.pk <= MaxPk
  BY DEF ZaakSave, SavedRows, Finish, Release, IInv, TypeOK
<1>i. Idle.sleutels = {} /\ Idle.aantal = 1 /\ Idle.fase = "vrij"
  BY DEF Idle
<1>1. CASE bad
  <2>1. UNCHANGED <<ids, zaken, pks>> /\ fouten' \subseteq {"generator", "client"}
    BY <1>1 DEF ZaakSave, SavedRows, IInv, TypeOK
  <2>. QED BY <1>0, <1>i, <2>1, IdleTyped, OneRequest
<1>2. CASE ~bad
  <2>1. /\ ids' = ids \cup rows
        /\ zaken' = zaken \cup rows
        /\ pks' = IF \E row \in rows : row.pk > pks THEN pks + 1 ELSE pks
        /\ fouten' = fouten
    BY <1>2 DEF ZaakSave, SavedRows
  <2>2. /\ rows \in SUBSET Rij
        /\ \A x \in rows : x \in Rows \/ (x.pk = pks + 1 /\ x.bron = "client")
        /\ \A x, y \in rows : x = y
    BY <1>0, SavedRowsFacts
  <2>3. \A x \in rows, y \in ids : x.sleutel = y.sleutel => x.pk = y.pk
    BY <1>2 DEF Clashes
  <2>4. \A s \in Requests : req'[s].rijen \subseteq req[s].rijen
    BY <1>0, IdleTyped DEF IInv, TypeOK
  <2>5. Rows' \subseteq Rows \cup rows
    BY <2>1, <2>4 DEF Rows
  <2>. HIDE DEF rows, bad
  <2>6. pks \in Nat /\ \A a \in Rows : a.pk \in Nat /\ a.pk <= pks
    BY IdentificatieAssumption DEF Rows, IInv, TypeOK, PkInv, ReqType, Rij
  <2>7. TypeOK'
    <3>1. ids' \subseteq Rij /\ zaken' \subseteq ids'
      BY <2>1, <2>2 DEF IInv, TypeOK
    <3>2. req' \in [Requests -> ReqType]
      BY <1>0, IdleTyped DEF IInv, TypeOK
    <3>3. pks' \in 0..MaxPk
      BY <1>0, <2>1, <2>2, <2>6, IdentificatieAssumption DEF IInv, TypeOK
    <3>. QED BY <1>0, <2>1, <3>1, <3>2, <3>3 DEF IInv, TypeOK
  <2>8. PkInv'
    <3>1. \A a, b \in Rows \cup rows : a.pk = b.pk => a = b
      <4>1. \A a \in rows, b \in Rows : a.pk = b.pk => a = b
        BY <2>2, <2>6 DEF IInv, PkInv
      <4>. QED BY <2>2, <4>1 DEF IInv, PkInv
    <3>2. \A a \in Rows \cup rows : a.pk <= pks'
      BY <2>1, <2>2, <2>6
    <3>. QED BY <2>5, <3>1, <3>2 DEF PkInv
  <2>9. KeyInv'
    <3>1. \A a \in rows, b \in ids : a.sleutel = b.sleutel => a = b
      <4>1. \A b \in ids : b \in Rows
        BY DEF Rows
      <4>. QED BY <2>2, <2>3, <2>6, <4>1 DEF IInv, PkInv
    <3>2. \A a, b \in ids \cup rows : a.sleutel = b.sleutel => a = b
      BY <2>2, <3>1 DEF IInv, KeyInv
    <3>. QED BY <2>1, <3>2 DEF KeyInv
  <2>10. SingleInv'
    BY <1>0, <1>i, IdleTyped DEF IInv, SingleInv, TypeOK
  <2>. QED BY <2>7, <2>8, <2>9, <2>10 DEF IInv
<1>. QED BY <1>1, <1>2

-----------------------------------------------------------------------------

\* The request whose step is part of a step.
RequestStep(r) ==
  \/ \E doel \in {"zaak", "registreer", "reserveer"}, org \in Orgs, n \in 1..MaxAantal :
       Request(r, doel, org, n)
  \/ Acquire(r) \/ ReadCurrent(r) \/ Insert(r)
  \/ \E sleutel \in Sleutel : RequestExplicit(r, sleutel)
  \/ ZaakSave(r) \/ Abort(r)

LEMMA NextInv == IInv /\ [Next]_vars => IInv'
<1>. SUFFICES ASSUME IInv, [Next]_vars PROVE IInv'
  OBVIOUS
<1>1. ASSUME NEW r \in Requests, RequestStep(r) PROVE IInv'
  <2>1. ASSUME NEW doel \in {"zaak", "registreer", "reserveer"}, NEW org \in Orgs,
               NEW n \in 1..MaxAantal, Request(r, doel, org, n)
        PROVE  IInv'
    BY <2>1, RequestInv
  <2>2. ASSUME NEW sleutel \in Sleutel, RequestExplicit(r, sleutel) PROVE IInv'
    BY <2>2, RequestExplicitInv
  <2>3. CASE Acquire(r) \/ ReadCurrent(r) \/ Insert(r)
    BY <2>3, AcquireInv, ReadCurrentInv, InsertInv
  <2>4. CASE ZaakSave(r) \/ Abort(r)
    BY <2>4, ZaakSaveInv, AbortInv
  <2>. QED BY <1>1, <2>1, <2>2, <2>3, <2>4 DEF RequestStep
<1>2. ASSUME NEW row \in zaken, Delete(row) PROVE IInv'
  BY <1>2, DeleteInv
<1>3. CASE UNCHANGED vars
  BY <1>3 DEF vars, IInv, TypeOK, PkInv, KeyInv, SingleInv, Rows
<1>. QED BY <1>1, <1>2, <1>3 DEF Next, RequestStep

\* The variables keep their types: rows, zaken, and what every request has read.
THEOREM TypeCorrect == Spec => []TypeOK
<1>1. Spec => []IInv
  BY InitInv, NextInv, PTL DEF Spec
<1>2. IInv => TypeOK
  BY DEF IInv
<1>. QED BY <1>1, <1>2, PTL

\* Zaak.save() and the two unique constraints together: no two zaken of an
\* organisation have the same number, whether it was generated, reserved or named
\* by the client, and also when zaken are deleted.
THEOREM NumbersOfZakenDistinct == Spec => []ZakenDistinct
<1>1. Spec => []IInv
  BY InitInv, NextInv, PTL DEF Spec
<1>2. IInv => ZakenDistinct
  BY DEF IInv, TypeOK, KeyInv, ZakenDistinct
<1>. QED BY <1>1, <1>2, PTL

-----------------------------------------------------------------------------
(* Generated numbers.  Where clients append nothing to a number, and do not    *)
(* name numbers that others delete, the lock makes the generator exact.        *)

Regular == Suffixes = {} /\ ("expliciet" \notin Ops \/ "verwijder" \notin Ops)

LEMMA InitGInv == Init => GInv
<1>. SUFFICES ASSUME Init PROVE GInv
  OBVIOUS
<1>1. \A r \in Requests : req[r] = Idle
  BY DEF Init
<1>2. Idle.fase = "vrij" /\ Idle.rijen = {} /\ Idle.doel = "zaak"
  BY DEF Idle
<1>3. ids = {} /\ zaken = {}
  BY DEF Init
<1>. QED BY <1>1, <1>2, <1>3
         DEF GInv, LockInv, Locked, ReadInv, RegisterInv, PendingInv, GeneratedDistinct, Generated

\* A step of one request that stores nothing.
LEMMA NothingStored ==
  ASSUME IInv, GInv, NEW r \in Requests, NEW q,
         req' = [req EXCEPT ![r] = q],
         UNCHANGED <<ids, zaken>>,
         q.rijen = {} \/ (q.rijen = req[r].rijen /\ q.doel = req[r].doel),
         q.fase # "zaak" \/ q.doel = "expliciet",
         q.doel = "expliciet" => "expliciet" \in Ops \/ q.doel = req[r].doel,
         q.fase = "insert" => \A x \in Generated(ids) : x.sleutel.nr <= q.gelezen,
         q.fase \in {"lees", "insert"} => lock' = r,
         \A s \in Requests \ {r} : Locked(s) => lock' = s
  PROVE  GInv'
<1>1. req'[r] = q /\ \A s \in Requests \ {r} : req'[s] = req[s]
  BY DEF IInv, TypeOK
<1>2. LockInv'
  BY <1>1 DEF GInv, LockInv, Locked
<1>3. ReadInv'
  BY <1>1 DEF GInv, ReadInv, Generated
<1>4. RegisterInv'
  BY <1>1 DEF GInv, RegisterInv, Generated
<1>5. PendingInv'
  <2>1. \A s \in Requests : req'[s].rijen = {} \/ req'[s].rijen = req[s].rijen
    BY <1>1
  <2>2. \A s \in Requests : /\ req'[s].fase = "zaak" => req'[s].doel # "reserveer"
                            /\ req'[s].doel = "zaak" => req'[s].rijen \subseteq ids
    BY <1>1 DEF GInv, PendingInv
  <2>3. "expliciet" \notin Ops => \A s \in Requests : req'[s].doel # "expliciet"
    BY <1>1 DEF GInv, PendingInv
  <2>. QED BY <2>1, <2>2, <2>3 DEF GInv, PendingInv
<1>6. GeneratedDistinct'
  BY DEF GInv, GeneratedDistinct
<1>. QED BY <1>2, <1>3, <1>4, <1>5, <1>6 DEF GInv

LEMMA ReleaseOthers ==
  ASSUME GInv, NEW r \in Requests, Release(r)
  PROVE  \A s \in Requests \ {r} : Locked(s) => lock' = s
BY DEF GInv, LockInv, Release

LEMMA RequestGInv ==
  ASSUME IInv, GInv, NEW r \in Requests, NEW doel \in {"zaak", "registreer", "reserveer"},
         NEW org \in Orgs, NEW n \in 1..MaxAantal, Request(r, doel, org, n)
  PROVE  GInv'
<1>. DEFINE q == [Idle EXCEPT !.fase = "wacht", !.doel = doel, !.org = org, !.aantal = n]
<1>1. q.rijen = {} /\ q.fase = "wacht" /\ q.doel # "expliciet"
  BY DEF Idle
<1>2. req' = [req EXCEPT ![r] = q] /\ UNCHANGED <<ids, zaken, lock>>
  BY DEF Request
<1>. HIDE DEF q
<1>3. \A s \in Requests \ {r} : Locked(s) => lock' = s
  BY <1>2 DEF GInv, LockInv
<1>. QED BY <1>1, <1>2, <1>3, NothingStored

LEMMA RequestExplicitGInv ==
  ASSUME IInv, GInv, NEW r \in Requests, NEW sleutel \in Sleutel, RequestExplicit(r, sleutel)
  PROVE  GInv'
<1>. DEFINE q == [Idle EXCEPT !.fase = "zaak", !.doel = "expliciet", !.sleutels = {sleutel}]
<1>1. q.rijen = {} /\ q.fase = "zaak" /\ q.doel = "expliciet"
  BY DEF Idle
<1>2. req' = [req EXCEPT ![r] = q] /\ UNCHANGED <<ids, zaken, lock>> /\ "expliciet" \in Ops
  BY DEF RequestExplicit, Ready
<1>. HIDE DEF q
<1>3. \A s \in Requests \ {r} : Locked(s) => lock' = s
  BY <1>2 DEF GInv, LockInv
<1>. QED BY <1>1, <1>2, <1>3, NothingStored

LEMMA AcquireGInv ==
  ASSUME IInv, GInv, NEW r \in Requests, Acquire(r)
  PROVE  GInv'
<1>. DEFINE q == [req[r] EXCEPT !.fase = "lees"]
<1>1. q.rijen = req[r].rijen /\ q.fase = "lees" /\ q.doel = req[r].doel
  BY DEF IInv, TypeOK, ReqType
<1>2. req' = [req EXCEPT ![r] = q] /\ UNCHANGED <<ids, zaken>> /\ lock = None /\ lock' = r
  BY DEF Acquire
<1>. HIDE DEF q
<1>3. \A s \in Requests \ {r} : Locked(s) => lock' = s
  BY <1>2, IdentificatieAssumption DEF GInv, LockInv
<1>. QED BY <1>1, <1>2, <1>3, NothingStored

LEMMA ReadCurrentGInv ==
  ASSUME Regular, IInv, GInv, NEW r \in Requests, ReadCurrent(r)
  PROVE  GInv'
<1>. DEFINE q == [req[r] EXCEPT !.fase = "insert", !.gelezen = Current(ids)]
<1>1. /\ q.rijen = req[r].rijen /\ q.fase = "insert" /\ q.doel = req[r].doel
      /\ q.gelezen = Current(ids)
  BY DEF IInv, TypeOK, ReqType
<1>2. req' = [req EXCEPT ![r] = q] /\ UNCHANGED <<ids, zaken, lock>> /\ req[r].fase = "lees"
  BY DEF ReadCurrent
<1>. HIDE DEF q
<1>3. /\ lock' = r
      /\ \A s \in Requests \ {r} : Locked(s) => lock' = s
  BY <1>2 DEF GInv, LockInv, Locked
<1>4. \A x \in Generated(ids) : x.sleutel.nr <= q.gelezen
  <2>. SUFFICES ASSUME NEW x \in ids PROVE x.sleutel.nr <= Current(ids)
    BY <1>1 DEF Generated
  <2>1. ids \in SUBSET Rij
    BY DEF IInv, TypeOK
  <2>. QED BY <2>1, CurrentIsGreatest DEF Regular
<1>. QED BY <1>1, <1>2, <1>3, <1>4, NothingStored

LEMMA AbortGInv ==
  ASSUME IInv, GInv, NEW r \in Requests, Abort(r)
  PROVE  GInv'
<1>1. Idle.rijen = {} /\ Idle.fase = "vrij" /\ Idle.doel = "zaak"
  BY DEF Idle
<1>2. req' = [req EXCEPT ![r] = Idle] /\ UNCHANGED <<ids, zaken>>
  BY DEF Abort, Finish
<1>3. \A s \in Requests \ {r} : Locked(s) => lock' = s
  BY ReleaseOthers DEF Abort
<1>. QED BY <1>1, <1>2, <1>3, NothingStored

LEMMA DeleteGInv ==
  ASSUME Regular, IInv, GInv, NEW row \in zaken, Delete(row)
  PROVE  GInv'
<1>1. /\ ids' = ids \ {row} /\ zaken' = zaken \ {row} /\ UNCHANGED <<lock, req>>
      /\ "expliciet" \notin Ops
  BY DEF Delete, Regular
<1>2. PendingInv'
  BY <1>1 DEF GInv, PendingInv
<1>. QED BY <1>1, <1>2 DEF GInv, LockInv, Locked, ReadInv, RegisterInv, GeneratedDistinct, Generated

LEMMA InsertGInv ==
  ASSUME IInv, GInv, NEW r \in Requests, Insert(r)
  PROVE  GInv'
<1>. DEFINE q    == req[r]
            new  == NewRows(q.org, q.gelezen, q.aantal)
            full == q.gelezen + q.aantal > MaxNr \/ pks + q.aantal > MaxPk
            bad  == \E x \in new : Clashes(x, ids)
<1>0. /\ q \in ReqType /\ q.gelezen \in Nat /\ q.aantal \in Nat
      /\ q.fase = "insert" /\ q.org \in Orgs /\ zaken' = zaken /\ lock = r
  BY IdentificatieAssumption
     DEF Insert, IInv, TypeOK, ReqType, SingleInv, GInv, LockInv, Locked
<1>i. Idle.rijen = {} /\ Idle.fase = "vrij" /\ Idle.doel = "zaak"
  BY DEF Idle
<1>a. \A s \in Requests \ {r} : ~Locked(s)
  BY <1>0 DEF GInv, LockInv
<1>1. CASE full \/ bad
  <2>1. req' = [req EXCEPT ![r] = Idle] /\ UNCHANGED <<ids, zaken>>
    BY <1>1, <1>0 DEF Insert, Finish
  <2>. QED BY <1>a, <1>i, <2>1, NothingStored
<1>2. CASE ~full /\ ~bad
  <2>. DEFINE q2 == IF q.doel = "reserveer" THEN Idle ELSE [q EXCEPT !.fase = "zaak", !.rijen = new]
  <2>1. /\ ids' = IF q.doel = "registreer" THEN ids ELSE ids \cup new
        /\ req' = [req EXCEPT ![r] = q2]
        /\ q.doel = "registreer" => lock' = r
    BY <1>0, <1>2 DEF Insert, Finish
  <2>2. pks \in Nat /\ q.gelezen + q.aantal <= MaxNr /\ pks + q.aantal <= MaxPk
    BY <1>0, <1>2, IdentificatieAssumption DEF IInv, TypeOK
  <2>3. /\ new \in SUBSET Rij
        /\ \A x \in new : /\ x.pk > pks
                          /\ x.bron = "generator"
                          /\ x.sleutel.nr = q.gelezen + (x.pk - pks)
        /\ \A x, y \in new : x.pk = y.pk \/ x.sleutel = y.sleutel => x = y
    BY <1>0, <2>2, NewRowsFacts DEF IInv
  <2>4. \A s \in Requests \ {r} : req'[s] = req[s]
    BY <2>1 DEF IInv, TypeOK
  <2>5. /\ req'[r].fase \in {"vrij", "zaak"}
        /\ req'[r].rijen \subseteq new
        /\ req'[r].fase = "zaak" => req'[r].rijen = new /\ req'[r].doel = q.doel
                                      /\ q.doel # "reserveer"
        /\ req'[r].fase = "vrij" => req'[r].rijen = {} /\ req'[r].doel = "zaak"
    <3>1. req'[r] = q2
      BY <2>1 DEF IInv, TypeOK
    <3>2. CASE q.doel = "reserveer"
      BY <1>i, <3>1, <3>2
    <3>3. CASE q.doel # "reserveer"
      <4>. HIDE DEF new
      <4>. QED BY <1>0, <3>1, <3>3 DEF ReqType
    <3>. QED BY <3>2, <3>3
  <2>. HIDE DEF new, full, bad, q, q2
  <2>6. \A x \in new, y \in Generated(ids) : x.sleutel.nr > y.sleutel.nr
    <3>1. \A y \in Generated(ids) : y.sleutel.nr <= q.gelezen /\ y.sleutel.nr \in Nat
      BY <1>0, IdentificatieAssumption
         DEF GInv, ReadInv, Generated, IInv, TypeOK, Rij, Sleutel, Nummer, q
    <3>2. \A x \in new : x.sleutel.nr > q.gelezen /\ x.sleutel.nr \in Nat
      BY <1>0, <2>2, <2>3 DEF Rij
    <3>. QED BY <1>0, <3>1, <3>2
  <2>7. LockInv'
    <3>1. ASSUME NEW s \in Requests, Locked(s)' PROVE lock' = s
      <4>1. CASE s = r
        BY <2>1, <2>5, <3>1, <4>1 DEF Locked
      <4>2. CASE s # r
        BY <1>a, <2>4, <3>1, <4>2 DEF Locked
      <4>. QED BY <4>1, <4>2
    <3>. QED BY <3>1 DEF LockInv
  <2>8. ReadInv'
    <3>1. \A s \in Requests : req'[s].fase # "insert"
      BY <1>a, <2>4, <2>5 DEF Locked
    <3>. QED BY <3>1 DEF ReadInv
  <2>9. RegisterInv'
    <3>1. ASSUME NEW s \in Requests, req'[s].fase = "zaak", req'[s].doel = "registreer"
          PROVE  s = r
      BY <1>a, <2>4, <3>1 DEF Locked
    <3>2. ASSUME req'[r].fase = "zaak", req'[r].doel = "registreer",
                 NEW x \in req'[r].rijen, NEW y \in Generated(ids)'
          PROVE  x.sleutel.nr # y.sleutel.nr
      <4>1. x \in new /\ y \in Generated(ids)
        BY <2>1, <2>5, <3>2 DEF Generated
      <4>2. x.sleutel.nr > y.sleutel.nr
        BY <2>6, <4>1
      <4>3. x.sleutel.nr \in Nat /\ y.sleutel.nr \in Nat
        BY <2>3, <4>1, IdentificatieAssumption DEF Generated, IInv, TypeOK, Rij, Sleutel, Nummer
      <4>. QED BY <4>2, <4>3
    <3>. QED BY <3>1, <3>2 DEF RegisterInv
  <2>10. \A x \in new : x \notin Rows
    <3>1. \A x \in Rows : x.pk \in Nat /\ x.pk <= pks
      BY IdentificatieAssumption DEF Rows, IInv, TypeOK, PkInv, ReqType, Rij
    <3>2. \A x \in new : x.pk \in Nat /\ x.pk > pks
      BY <2>3, IdentificatieAssumption DEF Rij
    <3>. QED BY <2>2, <3>1, <3>2
  <2>11. PendingInv'
    <3>1. \A s \in Requests : req'[s].fase = "zaak" => req'[s].doel # "reserveer"
      BY <2>4, <2>5 DEF GInv, PendingInv
    <3>2. \A s \in Requests : req'[s].doel = "zaak" => req'[s].rijen \subseteq ids'
      <4>1. \A s \in Requests \ {r} : req'[s].doel = "zaak" => req'[s].rijen \subseteq ids'
        BY <2>1, <2>4 DEF GInv, PendingInv
      <4>2. req'[r].doel = "zaak" => req'[r].rijen \subseteq ids'
        BY <2>1, <2>5
      <4>. QED BY <4>1, <4>2
    <3>3. ASSUME "expliciet" \notin Ops, NEW s \in Requests
          PROVE  /\ req'[s].rijen \cap zaken' = {}
                 /\ \A t \in Requests \ {s} : req'[s].rijen \cap req'[t].rijen = {}
                 /\ req'[s].doel # "expliciet"
      <4>1. \A t \in Requests \ {r} : req'[t].rijen \subseteq Rows
        BY <2>4 DEF Rows
      <4>2. zaken \subseteq Rows
        BY DEF Rows, IInv, TypeOK
      <4>3. \A t \in Requests \ {r} : req'[r].rijen \cap req'[t].rijen = {}
        BY <2>5, <2>10, <4>1
      <4>4. \A t \in Requests : req'[t].rijen \cap zaken' = {}
        BY <1>0, <2>4, <2>5, <2>10, <3>3, <4>2 DEF GInv, PendingInv
      <4>5. \A t \in Requests : req'[t].doel # "expliciet"
        BY <2>4, <2>5, <3>3 DEF GInv, PendingInv, q
      <4>6. \A t, u \in Requests \ {r} : t # u => req'[t].rijen \cap req'[u].rijen = {}
        BY <2>4, <3>3 DEF GInv, PendingInv
      <4>. QED BY <4>3, <4>4, <4>5, <4>6
    <3>. QED BY <3>1, <3>2, <3>3 DEF PendingInv
  <2>12. GeneratedDistinct'
    <3>1. \A x, y \in new : x.sleutel.nr = y.sleutel.nr => x = y
      <4>. SUFFICES ASSUME NEW x \in new, NEW y \in new, x.sleutel.nr = y.sleutel.nr PROVE x = y
        OBVIOUS
      <4>1. x.pk \in Nat /\ y.pk \in Nat
        BY <2>3, IdentificatieAssumption DEF Rij
      <4>2. x.pk = y.pk
        BY <1>0, <2>2, <2>3, <4>1
      <4>. QED BY <2>3, <4>2
    <3>2. \A x \in new, y \in Generated(ids) : x.sleutel.nr # y.sleutel.nr
      <4>1. \A x \in new, y \in Generated(ids) : x.sleutel.nr \in Nat /\ y.sleutel.nr \in Nat
        BY <2>3, IdentificatieAssumption DEF Generated, IInv, TypeOK, Rij, Sleutel, Nummer
      <4>. QED BY <2>6, <4>1
    <3>. QED BY <2>1, <3>1, <3>2 DEF GInv, GeneratedDistinct, Generated
  <2>. QED BY <2>7, <2>8, <2>9, <2>11, <2>12 DEF GInv
<1>. QED BY <1>1, <1>2

LEMMA ZaakSaveGInv ==
  ASSUME IInv, GInv, NEW r \in Requests, ZaakSave(r)
  PROVE  GInv'
<1>. DEFINE rows == SavedRows(r)
            bad  == \E row \in rows : row \in zaken \/ Clashes(row, ids)
<1>0. /\ req' = [req EXCEPT ![r] = Idle] /\ Release(r) /\ req[r].fase = "zaak"
      /\ \A row \in rows : row.pk <= MaxPk
  BY DEF ZaakSave, SavedRows, Finish
<1>i. Idle.rijen = {} /\ Idle.fase = "vrij" /\ Idle.doel = "zaak"
  BY DEF Idle
<1>a. \A s \in Requests \ {r} : Locked(s) => lock' = s
  BY <1>0, ReleaseOthers
<1>1. CASE bad
  <2>1. UNCHANGED <<ids, zaken>>
    BY <1>1 DEF ZaakSave, SavedRows
  <2>. QED BY <1>0, <1>a, <1>i, <2>1, NothingStored
<1>2. CASE ~bad
  <2>1. ids' = ids \cup rows /\ zaken' = zaken \cup rows
    BY <1>2 DEF ZaakSave, SavedRows
  <2>2. /\ req[r].doel = "expliciet" =>
              \A x \in rows : x \in ids \/ (x.pk = pks + 1 /\ x.bron = "client")
        /\ \A x, y \in rows : x = y
    BY <1>0, SavedRowsFacts
  <2>3. req[r].doel # "expliciet" => rows = req[r].rijen
    BY DEF SavedRows
  <2>. HIDE DEF rows, bad
  <2>4. req'[r] = Idle /\ \A s \in Requests \ {r} : req'[s] = req[s]
    BY <1>0 DEF IInv, TypeOK
  <2>5. CASE req[r].doel = "registreer"
    <3>1. \A s \in Requests \ {r} : ~Locked(s)
      BY <1>0, <2>5 DEF GInv, LockInv, Locked
    <3>2. \A s \in Requests : ~(Locked(s)')
      BY <1>i, <2>4, <3>1 DEF Locked
    <3>3. LockInv' /\ ReadInv' /\ RegisterInv'
      BY <3>2 DEF LockInv, ReadInv, RegisterInv, Locked
    <3>4. GeneratedDistinct'
      <4>1. \A x \in rows, y \in Generated(ids) : x.sleutel.nr # y.sleutel.nr
        BY <1>0, <2>3, <2>5 DEF GInv, RegisterInv
      <4>. QED BY <2>1, <2>2, <4>1 DEF GInv, GeneratedDistinct, Generated
    <3>. QED BY <3>3, <3>4, <1>0, <1>i, <2>1, <2>3, <2>4, <2>5 DEF GInv, PendingInv
  <2>6. CASE req[r].doel # "registreer"
    <3>1. \A x \in rows : x.bron = "generator" => x \in ids
      <4>1. CASE req[r].doel = "expliciet"
        BY <2>2, <4>1
      <4>2. CASE req[r].doel # "expliciet"
        <5>1. req[r].doel = "zaak"
          BY <1>0, <2>6, <4>2 DEF GInv, PendingInv, IInv, TypeOK, ReqType
        <5>. QED BY <2>3, <4>2, <5>1 DEF GInv, PendingInv
      <4>. QED BY <4>1, <4>2
    <3>2. Generated(ids)' = Generated(ids)
      BY <2>1, <3>1 DEF Generated
    <3>3. LockInv'
      BY <1>a, <1>i, <2>4 DEF LockInv, Locked
    <3>4. ReadInv' /\ RegisterInv'
      BY <1>i, <2>4, <3>2 DEF GInv, ReadInv, RegisterInv
    <3>5. GeneratedDistinct'
      BY <2>1, <3>1 DEF GInv, GeneratedDistinct
    <3>6. PendingInv'
      <4>1. \A s \in Requests : /\ req'[s].fase = "zaak" => req'[s].doel # "reserveer"
                                /\ req'[s].doel = "zaak" => req'[s].rijen \subseteq ids'
        BY <1>i, <2>1, <2>4 DEF GInv, PendingInv
      <4>2. ASSUME "expliciet" \notin Ops, NEW s \in Requests
            PROVE  /\ req'[s].rijen \cap zaken' = {}
                   /\ \A t \in Requests \ {s} : req'[s].rijen \cap req'[t].rijen = {}
                   /\ req'[s].doel # "expliciet"
        <5>1. req[r].doel # "expliciet"
          BY <4>2 DEF GInv, PendingInv
        <5>2. \A t \in Requests \ {r} : req'[t].rijen \cap rows = {}
          BY <2>3, <2>4, <4>2, <5>1 DEF GInv, PendingInv
        <5>3. \A t \in Requests : req'[t].rijen \cap zaken' = {}
          BY <1>i, <2>1, <2>4, <4>2, <5>2 DEF GInv, PendingInv
        <5>4. \A t, u \in Requests : t # u => req'[t].rijen \cap req'[u].rijen = {}
          BY <1>i, <2>4, <4>2 DEF GInv, PendingInv
        <5>5. \A t \in Requests : req'[t].doel # "expliciet"
          BY <1>i, <2>4, <4>2 DEF GInv, PendingInv
        <5>. QED BY <5>3, <5>4, <5>5
      <4>. QED BY <4>1, <4>2 DEF PendingInv
    <3>. QED BY <3>3, <3>4, <3>5, <3>6 DEF GInv
  <2>. QED BY <2>5, <2>6
<1>. QED BY <1>1, <1>2

LEMMA NextGInv == Regular /\ IInv /\ GInv /\ [Next]_vars => GInv'
<1>. SUFFICES ASSUME Regular, IInv, GInv, [Next]_vars PROVE GInv'
  OBVIOUS
<1>1. ASSUME NEW r \in Requests, RequestStep(r) PROVE GInv'
  <2>1. ASSUME NEW doel \in {"zaak", "registreer", "reserveer"}, NEW org \in Orgs,
               NEW n \in 1..MaxAantal, Request(r, doel, org, n)
        PROVE  GInv'
    BY <2>1, RequestGInv
  <2>2. ASSUME NEW sleutel \in Sleutel, RequestExplicit(r, sleutel) PROVE GInv'
    BY <2>2, RequestExplicitGInv
  <2>3. CASE Acquire(r) \/ ReadCurrent(r) \/ Insert(r)
    BY <2>3, AcquireGInv, ReadCurrentGInv, InsertGInv
  <2>4. CASE ZaakSave(r) \/ Abort(r)
    BY <2>4, ZaakSaveGInv, AbortGInv
  <2>. QED BY <1>1, <2>1, <2>2, <2>3, <2>4 DEF RequestStep
<1>2. ASSUME NEW row \in zaken, Delete(row) PROVE GInv'
  BY <1>2, DeleteGInv
<1>3. CASE UNCHANGED vars
  BY <1>3 DEF vars, GInv, LockInv, Locked, ReadInv, RegisterInv, PendingInv, GeneratedDistinct,
              Generated
<1>. QED BY <1>1, <1>2, <1>3 DEF Next, RequestStep

\* The advisory lock of generate() and generate_bulk(): no number is generated
\* twice, for however many requests and organisations, if clients name numbers
\* without a suffix, and do not both name numbers and delete zaken.
THEOREM NumbersGeneratedOnce == ASSUME Regular PROVE Spec => []GeneratedDistinct
<1>1. IInv /\ GInv /\ [Next]_vars => IInv' /\ GInv'
  BY NextInv, NextGInv
<1>2. Init => IInv /\ GInv
  BY InitInv, InitGInv
<1>3. GInv => GeneratedDistinct
  BY DEF GInv
<1>. QED BY <1>1, <1>2, <1>3, PTL DEF Spec

-----------------------------------------------------------------------------
(* What the generator inserts.                                             *)

LEMMA InsertNoClash ==
  ASSUME IInv, GInv, NoClash, NEW r \in Requests, Insert(r)
  PROVE  NoClash'
<1>. DEFINE q    == req[r]
            new  == NewRows(q.org, q.gelezen, q.aantal)
            full == q.gelezen + q.aantal > MaxNr \/ pks + q.aantal > MaxPk
<1>1. /\ q.gelezen \in Nat /\ q.aantal \in Nat /\ q.fase = "insert" /\ q.org \in Orgs
      /\ pks \in Nat
  BY IdentificatieAssumption DEF Insert, IInv, TypeOK, ReqType, SingleInv
<1>2. CASE full
  BY <1>2 DEF Insert, NoClash
<1>3. CASE ~full
  <2>1. fouten' \subseteq fouten \cup InTheWay(new)
    BY DEF Insert
  <2>2. /\ new \in SUBSET Rij
        /\ \A x \in new : x.pk > pks /\ x.sleutel.nr = q.gelezen + (x.pk - pks)
    BY <1>1, <1>3, IdentificatieAssumption, NewRowsFacts DEF IInv
  <2>3. \A y \in Generated(ids) : y.sleutel.nr <= q.gelezen /\ y.sleutel.nr \in Nat
    BY <1>1, IdentificatieAssumption
       DEF GInv, ReadInv, Generated, IInv, TypeOK, Rij, Sleutel, Nummer
  <2>4. \A x \in new : x.pk \in Nat
    BY <2>2, IdentificatieAssumption DEF Rij
  <2>. HIDE DEF new, q
  <2>5. \A x \in new, y \in Generated(ids) : x.sleutel # y.sleutel
    BY <1>1, <2>2, <2>3, <2>4
  <2>6. "generator" \notin InTheWay(new)
    BY <2>5 DEF InTheWay, Clashes, Generated
  <2>. QED BY <2>1, <2>6 DEF NoClash
<1>. QED BY <1>2, <1>3

LEMMA NextNoClash == IInv /\ GInv /\ NoClash /\ [Next]_vars => NoClash'
<1>. SUFFICES ASSUME IInv, GInv, NoClash, [Next]_vars PROVE NoClash'
  OBVIOUS
<1>1. ASSUME NEW r \in Requests, Insert(r) PROVE NoClash'
  BY <1>1, InsertNoClash
<1>2. (\A r \in Requests : ~Insert(r)) => fouten' = fouten
  BY DEF Next, vars, Request, Acquire, ReadCurrent, RequestExplicit, ZaakSave, Abort, Delete
<1>. QED BY <1>1, <1>2 DEF NoClash

\* Whoever generates, reserves, registers, names and deletes at the same time: the generator never
\* inserts a number that it made before, under the same conditions.
THEOREM GenerationNeverClashes == ASSUME Regular PROVE Spec => []NoClash
<1>1. IInv /\ GInv /\ [Next]_vars => IInv' /\ GInv'
  BY NextInv, NextGInv
<1>2. Init => IInv /\ GInv /\ NoClash
  BY InitInv, InitGInv DEF Init, NoClash
<1>3. IInv /\ GInv /\ NoClash /\ [Next]_vars => NoClash'
  BY NextNoClash
<1>. QED BY <1>1, <1>2, <1>3, PTL DEF Spec

=============================================================================
