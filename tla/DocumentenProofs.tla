-------------------------- MODULE DocumentenProofs --------------------------
(***************************************************************************)
(* Proofs about Documenten for any number of requests, versions, locks,    *)
(* parts and faults: its types, its versions in any interleaving, and      *)
(* uploads and check-out for requests that do not overlap; and about       *)
(* DocumentRegistratie: numbers and dispatches, in any interleaving.       *)
(***************************************************************************)
EXTENDS MCDocumenten, DocumentRegistratie, WellFoundedInduction, TLAPS

-----------------------------------------------------------------------------
(* The inductive invariant: the types, and what a request that is about to *)
(* write may rely on although others wrote since it read.                  *)

ReqCoherent(q) ==
  /\ q.fase = "upload_save" => q.pk \in DOMAIN q.delen
  /\ q.fase = "update_save" => q.versie < MaxVersie /\ q.lock \in 1..locks
  /\ q.fase = "update_save" /\ Bestaat => q.versie \in DOMAIN eio
  /\ q.fase \in {"lock_save", "unlock_save"} /\ Bestaat => q.latest \in DOMAIN eio
  /\ canonical.stand = "nieuw" => q.fase = "vrij"

DocCoherent ==
  /\ Bestaat => /\ \E n \in Versie : DOMAIN eio = 1..n
                /\ canonical.latest \in DOMAIN eio
  /\ ~Bestaat => DOMAIN eio = {} /\ DOMAIN delen = {} /\ relaties = {}
  /\ canonical.lock <= locks

Coherent == DocCoherent /\ \A r \in Requests : ReqCoherent(req[r])

IInv == TypeOK /\ Coherent

-----------------------------------------------------------------------------
(* Lemmas about the operators of the model. *)

\* The greatest of 1, ..., n is n.
LEMMA MaxOfInterval == \A n \in Nat \ {0} : MaxOf(1..n) = n
BY SMT DEF MaxOf

\* While the document exists, its newest version is the last of its versions.
LEMMA RecentsteLast ==
  ASSUME DocCoherent, Bestaat, BoundsAssumption
  PROVE  /\ Recentste \in Versie
         /\ Recentste \in DOMAIN eio
         /\ DOMAIN eio = 1..Recentste
<1>1. PICK n \in Versie : DOMAIN eio = 1..n
  BY DEF DocCoherent
<1>2. Recentste = n
  BY <1>1, MaxOfInterval DEF Recentste, Versie
<1>. QED BY <1>1, <1>2 DEF Versie

\* A table of a type is a function from some of the keys.
LEMMA TablesDef ==
  ASSUME NEW K, NEW R, NEW table
  PROVE  IsTable(table, K, R) <=> table \in Tables(K, R)
BY DEF IsTable, Tables

\* Adding a row to a table and taking rows out of one keeps it a table.
LEMMA TablePut ==
  ASSUME NEW K, NEW R, NEW table, IsTable(table, K, R), NEW k \in K, NEW row \in R
  PROVE  IsTable(Put(table, k, row), K, R) /\ DOMAIN Put(table, k, row) = DOMAIN table \cup {k}
BY DEF IsTable, Put

LEMMA TableWithout ==
  ASSUME NEW K, NEW R, NEW table, IsTable(table, K, R), NEW ks
  PROVE  IsTable(Without(table, ks), K, R) /\ DOMAIN Without(table, ks) = DOMAIN table \ ks
BY DEF IsTable, Without

\* The rows of a fresh document and of an idle request have their types.
LEMMA Constants ==
  ASSUME BoundsAssumption
  PROVE  /\ Geen \in Inhoud /\ Inline \in Inhoud
         /\ LegeRij \in Row
         /\ IsTable(NoDelen, Deel, DeelRow) /\ DOMAIN NoDelen = {}
         /\ Idle \in ReqType /\ Idle.fase = "vrij"
<1>1. Geen \in Inhoud /\ Inline \in Inhoud
  BY DEF Geen, Inline, Inhoud
<1>2. LegeRij \in Row
  BY <1>1 DEF LegeRij, Row, Omvang
<1>3. IsTable(NoDelen, Deel, DeelRow) /\ DOMAIN NoDelen = {}
  BY DEF NoDelen, IsTable
<1>4. NoDelen \in Tables(Deel, DeelRow)
  BY <1>3, TablesDef
<1>5. Idle \in ReqType /\ Idle.fase = "vrij"
  BY <1>2, <1>4 DEF Idle, ReqType, NoLock, Fases, Lock, Versie, BoundsAssumption
<1>. QED BY <1>1, <1>2, <1>3, <1>5

\* The parts of a new version.
LEMMA NewDelenType ==
  ASSUME BoundsAssumption, NEW v \in Versie
  PROVE  IsTable(NewDelen(v), Deel, DeelRow)
<1>1. [gen |-> v, file |-> 0] \in DeelRow
  BY DEF DeelRow, BoundsAssumption
<1>. QED BY <1>1 DEF NewDelen, IsTable

\* What get_object() returns.
LEMMA FetchedTypes ==
  ASSUME BoundsAssumption, TypeOK, DocCoherent, Bestaat
  PROVE  /\ FetchedCanonical \in ReqType /\ FetchedCanonical.latest = canonical.latest
         /\ FetchedDocument \in ReqType /\ FetchedDocument.latest = canonical.latest
         /\ FetchedAll \in ReqType /\ FetchedAll.versie = Recentste
         /\ FetchedAll.lock = canonical.lock
         /\ FetchedLatest \in ReqType
<1>1. Idle \in ReqType
  BY Constants
<1>2. /\ canonical.lock \in Lock /\ canonical.latest \in 0..MaxVersie
      /\ canonical.latest \in DOMAIN eio
      /\ IsTable(eio, Versie, Row) /\ delen \in Tables(Deel, DeelRow)
  BY TablesDef DEF TypeOK, DocCoherent
<1>3. Recentste \in Versie /\ Recentste \in DOMAIN eio
  BY RecentsteLast
<1>4. eio[Recentste] \in Row /\ eio[canonical.latest] \in Row /\ canonical.latest \in Versie
  BY <1>2, <1>3 DEF IsTable
<1>5. FetchedCanonical \in ReqType /\ FetchedCanonical.latest = canonical.latest
      /\ FetchedCanonical.lock = canonical.lock
  BY <1>1, <1>2 DEF ReqType, FetchedCanonical
<1>6. FetchedDocument \in ReqType /\ FetchedDocument.latest = canonical.latest
      /\ FetchedDocument.versie = Recentste /\ FetchedDocument.lock = canonical.lock
  BY <1>5, <1>3, <1>4 DEF ReqType, FetchedDocument
<1>7. FetchedAll \in ReqType /\ FetchedAll.versie = Recentste
      /\ FetchedAll.lock = canonical.lock
  BY <1>6, <1>2 DEF ReqType, FetchedAll
<1>8. FetchedLatest \in ReqType
  BY <1>1, <1>4 DEF ReqType, FetchedLatest
<1>. QED BY <1>5, <1>6, <1>7, <1>8

-----------------------------------------------------------------------------
(* What a step of one request leaves to the others. *)

\* A step of request r that does not take versions from a living document
\* leaves every other request coherent.
LEMMA Others ==
  ASSUME TypeOK, Coherent, NEW r \in Requests, NEW q \in ReqType,
         req' = [req EXCEPT ![r] = q],
         ReqCoherent(q)',
         canonical'.stand \in {canonical.stand, "vernietigd"},
         Bestaat' => Bestaat /\ DOMAIN eio \subseteq DOMAIN eio',
         locks' \in Nat, locks <= locks'
  PROVE  req' \in [Requests -> ReqType] /\ (\A s \in Requests : ReqCoherent(req[s]))'
<1>1. req \in [Requests -> ReqType] /\ locks \in Nat
  BY DEF TypeOK, Lock
<1>2. req' \in [Requests -> ReqType] /\ req'[r] = q
      /\ \A s \in Requests \ {r} : req'[s] = req[s]
  BY <1>1
<1>3. ASSUME NEW s \in Requests
      PROVE  ReqCoherent(req[s])'
  <2>1. CASE s = r
    BY <2>1, <1>2 DEF ReqCoherent
  <2>2. CASE s # r
    <3>1. req'[s] = req[s] /\ ReqCoherent(req[s])
      BY <2>2, <1>2 DEF Coherent
    <3>2. canonical'.stand = "nieuw" => canonical.stand = "nieuw"
      OBVIOUS
    <3>. QED BY <3>1, <3>2, <1>1 DEF ReqCoherent
  <2>. QED BY <2>1, <2>2
<1>. QED BY <1>2, <1>3

\* A request that only reads, or only stops, keeps the invariant.
LEMMA ReqOnly ==
  ASSUME IInv, NEW r \in Requests, NEW q \in ReqType,
         req' = [req EXCEPT ![r] = q],
         ReqCoherent(q),
         UNCHANGED <<canonical, docVars, rightVars, locks, uitgegeven>>,
         fouten' \subseteq {"unlock_typeerror", "bestand_weg", "destroy_unchecked"},
         faults' \in 0..MaxFaults
  PROVE  IInv'
<1>. USE DEF docVars, fileVars, rightVars
<1>1. ReqCoherent(q)' /\ (Bestaat' <=> Bestaat)
  BY DEF ReqCoherent, Bestaat
<1>2. /\ canonical' = canonical /\ eio' = eio /\ locks' = locks /\ locks \in Nat
      /\ locks <= locks'
  BY DEF IInv, TypeOK, Lock
<1>3. req' \in [Requests -> ReqType] /\ (\A s \in Requests : ReqCoherent(req[s]))'
  <2>1. /\ TypeOK /\ Coherent
        /\ canonical'.stand \in {canonical.stand, "vernietigd"}
        /\ Bestaat' => Bestaat /\ DOMAIN eio \subseteq DOMAIN eio'
    BY <1>1, <1>2 DEF IInv
  <2>. QED BY <1>1, <1>2, <2>1, Others
<1>4. DocCoherent'
  BY DEF IInv, Coherent, DocCoherent, Bestaat
<1>5. TypeOK'
  BY <1>3 DEF IInv, TypeOK
<1>. QED BY <1>3, <1>4, <1>5 DEF IInv, Coherent

\* An idle request is coherent in any state.
LEMMA IdleCoherent == BoundsAssumption => ReqCoherent(Idle) /\ ReqCoherent(Idle)'
BY Constants DEF ReqCoherent

-----------------------------------------------------------------------------
(* The invariant holds initially and every action keeps it. *)

LEMMA InitInv == BoundsAssumption /\ Init => IInv
<1> SUFFICES ASSUME BoundsAssumption, Init PROVE IInv
  OBVIOUS
<1>1. Idle \in ReqType /\ IsTable(NoDelen, Deel, DeelRow) /\ DOMAIN NoDelen = {}
  BY Constants
<1>2. IsTable(eio, Versie, Row) /\ DOMAIN eio = {}
  BY DEF Init, IsTable
<1>3. TypeOK
  BY <1>1, <1>2 DEF Init, TypeOK, NoLock, Lock, BoundsAssumption
<1>4. \A r \in Requests : ReqCoherent(req[r])
  BY IdleCoherent DEF Init
<1>5. DocCoherent
  BY <1>1, <1>2 DEF Init, DocCoherent, Bestaat, NoLock
<1>. QED BY <1>3, <1>4, <1>5 DEF IInv, Coherent

LEMMA CreateInv ==
  ASSUME BoundsAssumption, IInv, NEW omvang \in Omvang, Create(omvang)
  PROVE  IInv'
<1>. DEFINE row == [LegeRij EXCEPT !.omvang = omvang,
                               !.inhoud = IF omvang = "klein" THEN Inline ELSE Geen]
<1>1. row \in Row
  BY Constants DEF Row
<1>2. DOMAIN eio = {} /\ IsTable(eio, Versie, Row) /\ 1 \in Versie
  BY DEF Create, IInv, TypeOK, Coherent, DocCoherent, Bestaat, Versie, BoundsAssumption
<1>3. eio' = Put(eio, 1, row)
  BY DEF Create
<1>. HIDE DEF row
<1>4. IsTable(eio', Versie, Row) /\ DOMAIN eio' = {1}
  <2>1. IsTable(Put(eio, 1, row), Versie, Row) /\ DOMAIN Put(eio, 1, row) = DOMAIN eio \cup {1}
    BY <1>1, <1>2 DEF IsTable, Put
  <2>. QED BY <2>1, <1>2, <1>3
<1>5. IsTable(delen', Deel, DeelRow)
  <2>1. IsTable(NewDelen(1), Deel, DeelRow) /\ IsTable(NoDelen, Deel, DeelRow)
    BY <1>2, NewDelenType, Constants
  <2>2. delen' = NewDelen(1) \/ delen' = NoDelen
    BY DEF Create
  <2>. QED BY <2>1, <2>2
<1>6. /\ locks' \in {0, 1} /\ locks' \in Lock
      /\ canonical' = [stand |-> "bestaat", lock |-> locks', latest |-> 1]
      /\ uitgegeven' \subseteq 1..locks'
      /\ req' = req /\ canonical.stand = "nieuw"
      /\ UNCHANGED <<weg, uploads, rightVars, fouten, faults>>
  BY DEF Create, Lock, BoundsAssumption
<1>7. TypeOK'
  BY <1>4, <1>5, <1>6 DEF IInv, TypeOK, rightVars, Lock, BoundsAssumption
<1>8. DocCoherent'
  <2>1. DOMAIN eio' = 1..1
    BY <1>4
  <2>. QED BY <2>1, <1>2, <1>4, <1>6 DEF DocCoherent, Bestaat
<1>9. (\A r \in Requests : ReqCoherent(req[r]))'
  BY <1>6 DEF IInv, Coherent, ReqCoherent
<1>. QED BY <1>7, <1>8, <1>9 DEF IInv, Coherent

-----------------------------------------------------------------------------
(* Steps that only read. *)

\* A request that fetches what it needs from a living document and continues in
\* another phase keeps the invariant.
LEMMA StartInv ==
  ASSUME BoundsAssumption, IInv, Bestaat, NEW r \in Requests,
         NEW fase \in Fases, NEW snap \in ReqType, Start(r, fase, snap),
         fase = "upload_save" => snap.pk \in DOMAIN snap.delen,
         fase = "update_save" => /\ snap.versie < MaxVersie /\ snap.lock \in 1..locks
                                 /\ snap.versie \in DOMAIN eio,
         fase \in {"lock_save", "unlock_save"} => snap.latest \in DOMAIN eio,
         UNCHANGED <<canonical, docVars, rightVars, auxVars>>
  PROVE  IInv'
<1>. DEFINE q == [snap EXCEPT !.fase = fase]
<1>1. q \in ReqType /\ req' = [req EXCEPT ![r] = q]
  BY DEF ReqType, Start
<1>2. ReqCoherent(q)
  <2>1. /\ q.fase = fase /\ q.pk = snap.pk /\ q.delen = snap.delen /\ q.lock = snap.lock
        /\ q.versie = snap.versie /\ q.latest = snap.latest
    BY DEF ReqType
  <2>2. canonical.stand # "nieuw"
    BY DEF Bestaat
  <2>. HIDE DEF q
  <2>. QED BY <2>1, <2>2 DEF ReqCoherent
<1>. HIDE DEF q
<1>3. /\ UNCHANGED <<canonical, docVars, rightVars, locks, uitgegeven>>
      /\ fouten' \subseteq {"unlock_typeerror", "bestand_weg", "destroy_unchecked"}
      /\ faults' \in 0..MaxFaults
  BY DEF auxVars, IInv, TypeOK
<1>. QED BY <1>1, <1>2, <1>3, ReqOnly

\* A request that stops keeps the invariant.
LEMMA StopInv ==
  ASSUME BoundsAssumption, IInv, NEW r \in Requests, Finish(r),
         UNCHANGED <<canonical, docVars, rightVars, locks, uitgegeven>>,
         fouten' \subseteq {"unlock_typeerror", "bestand_weg", "destroy_unchecked"},
         faults' \in 0..MaxFaults
  PROVE  IInv'
<1>1. Idle \in ReqType /\ ReqCoherent(Idle) /\ req' = [req EXCEPT ![r] = Idle]
  BY Constants, IdleCoherent DEF Finish
<1>. QED BY <1>1, ReqOnly

LEMMA ReadInv ==
  ASSUME BoundsAssumption, IInv, NEW r \in Requests,
         \/ LockRead(r) \/ ForceUnlockRead(r) \/ RechtRead(r) \/ DestroyRead(r)
         \/ \E pk \in rechten : RechtDeleteRead(r, pk)
  PROVE  IInv'
<1>. USE DEF Ready
<1>1. Bestaat /\ UNCHANGED <<canonical, docVars, rightVars, auxVars>>
  BY DEF LockRead, ForceUnlockRead, RechtRead, DestroyRead, RechtDeleteRead
<1>2. /\ Idle \in ReqType /\ FetchedCanonical \in ReqType /\ FetchedDocument \in ReqType
      /\ FetchedLatest \in ReqType /\ canonical.latest \in DOMAIN eio
      /\ FetchedCanonical.latest = canonical.latest
      /\ FetchedDocument.latest = canonical.latest
  BY <1>1, Constants, FetchedTypes DEF IInv, Coherent, DocCoherent
<1>3. CASE LockRead(r)
  BY <1>1, <1>2, <1>3, StartInv DEF LockRead, Fases
<1>4. CASE ForceUnlockRead(r)
  <2>1. /\ [FetchedDocument EXCEPT !.opt = TRUE] \in ReqType
        /\ [FetchedDocument EXCEPT !.opt = TRUE].latest = canonical.latest
    BY <1>2 DEF ReqType
  <2>. QED BY <1>1, <1>2, <1>4, <2>1, StartInv DEF ForceUnlockRead, Fases
<1>5. CASE RechtRead(r)
  BY <1>1, <1>2, <1>5, StartInv DEF RechtRead, Fases
<1>6. CASE DestroyRead(r)
  BY <1>1, <1>2, <1>6, StartInv DEF DestroyRead, Fases
<1>7. ASSUME NEW pk \in rechten, RechtDeleteRead(r, pk)
      PROVE  IInv'
  <2>1. pk \in Nat
    BY DEF IInv, TypeOK
  <2>2. [FetchedLatest EXCEPT !.pk = pk, !.opt = (rechten = {pk})] \in ReqType
    BY <1>2, <2>1 DEF ReqType
  <2>. QED BY <1>1, <1>7, <2>2, StartInv DEF RechtDeleteRead, Fases
<1>. QED BY <1>3, <1>4, <1>5, <1>6, <1>7

LEMMA UnlockReadInv ==
  ASSUME BoundsAssumption, IInv, NEW r \in Requests, NEW lock \in Lock, UnlockRead(r, lock)
  PROVE  IInv'
<1>1. Bestaat /\ UNCHANGED <<canonical, docVars, rightVars, locks, uitgegeven, faults>>
  BY DEF UnlockRead, Ready
<1>2. CASE Start(r, "unlock_save", FetchedDocument) /\ UNCHANGED fouten
  <2>1. /\ FetchedDocument \in ReqType /\ canonical.latest \in DOMAIN eio
        /\ FetchedDocument.latest = canonical.latest
    BY <1>1, FetchedTypes DEF IInv, Coherent, DocCoherent
  <2>. QED BY <1>1, <1>2, <2>1, StartInv DEF Fases, auxVars
<1>3. CASE UNCHANGED req /\ fouten' = fouten \cup {"unlock_typeerror"}
  <2>1. TypeOK'
    BY <1>1, <1>3 DEF IInv, TypeOK, docVars, fileVars, rightVars
  <2>2. Coherent'
    BY <1>1, <1>3 DEF IInv, Coherent, DocCoherent, ReqCoherent, Bestaat, docVars, fileVars,
                      rightVars
  <2>. QED BY <2>1, <2>2 DEF IInv
<1>. QED BY <1>2, <1>3 DEF UnlockRead

LEMMA UpdateReadInv ==
  ASSUME BoundsAssumption, IInv, NEW r \in Requests, NEW lock \in Lock,
         NEW op \in {"patch", "put"}, UpdateRead(r, lock, op)
  PROVE  IInv'
<1>. DEFINE snap == [FetchedAll EXCEPT !.opt = (op = "put")]
<1>1. Bestaat /\ UNCHANGED <<canonical, docVars, rightVars, auxVars>>
  BY DEF UpdateRead, Ready
<1>2. /\ FetchedAll \in ReqType /\ FetchedAll.versie = Recentste
      /\ FetchedAll.lock = canonical.lock /\ Recentste \in DOMAIN eio
  BY <1>1, FetchedTypes, RecentsteLast DEF IInv, Coherent
<1>3. canonical.lock \in 1..locks /\ Recentste < MaxVersie
  BY DEF UpdateRead, IInv, TypeOK, Coherent, DocCoherent, Lock, NoLock, BoundsAssumption
<1>4. snap \in ReqType /\ snap.versie = Recentste /\ snap.lock = canonical.lock
  BY <1>2 DEF ReqType
<1>5. Start(r, "update_save", snap) /\ "update_save" \in Fases
  BY DEF UpdateRead, Fases
<1>. HIDE DEF snap
<1>. QED BY <1>1, <1>2, <1>3, <1>4, <1>5, StartInv

LEMMA UploadReadInv ==
  ASSUME BoundsAssumption, IInv, NEW r \in Requests, NEW lock \in Lock,
         NEW nr \in Deel, UploadRead(r, lock, nr)
  PROVE  IInv'
<1>. DEFINE part == Put(NoDelen, nr, delen[nr])
            snap == [Idle EXCEPT !.pk = nr, !.delen = part]
<1>1. Bestaat /\ UNCHANGED <<canonical, docVars, rightVars, auxVars>>
  BY DEF UploadRead, Ready
<1>2. nr \in DOMAIN delen /\ delen[nr] \in DeelRow /\ nr \in Nat
  BY DEF UploadRead, IInv, TypeOK, IsTable, Deel, BoundsAssumption
<1>3. IsTable(part, Deel, DeelRow) /\ nr \in DOMAIN part
  <2>1. IsTable(NoDelen, Deel, DeelRow)
    BY Constants
  <2>. QED BY <2>1, <1>2 DEF IsTable, Put
<1>4. part \in Tables(Deel, DeelRow)
  BY <1>3, TablesDef
<1>5. Start(r, "upload_save", snap) /\ "upload_save" \in Fases
  BY DEF UploadRead, Fases
<1>. HIDE DEF part
<1>6. snap \in ReqType /\ snap.pk = nr /\ snap.delen = part
  BY <1>2, <1>4, Constants DEF ReqType
<1>. HIDE DEF snap
<1>. QED BY <1>1, <1>3, <1>5, <1>6, StartInv

-----------------------------------------------------------------------------
(* Steps that write. *)

\* Saving a row of a living document leaves its versions as they were, and the
\* trigger points at the newest.
LEMMA SaveVersieKeeps ==
  ASSUME BoundsAssumption, TypeOK, DocCoherent, Bestaat,
         NEW v \in Versie, NEW row \in Row, SaveVersie(v, row)
  PROVE  /\ IsTable(eio', Versie, Row) /\ DOMAIN eio' = DOMAIN eio
         /\ canonical' = [canonical EXCEPT !.latest = Recentste]
         /\ Recentste \in DOMAIN eio /\ Recentste \in 0..MaxVersie
<1>1. IsTable(eio', Versie, Row) /\ DOMAIN eio' = DOMAIN eio
  BY DEF SaveVersie, TypeOK, IsTable
<1>2. Recentste \in Versie /\ Recentste \in DOMAIN eio
  BY RecentsteLast
<1>3. canonical' = [canonical EXCEPT !.latest = Recentste]
  BY DEF SaveVersie, Trigger, Recentste
<1>4. Recentste \in 0..MaxVersie
  BY <1>2 DEF Versie, BoundsAssumption
<1>. QED BY <1>1, <1>2, <1>3, <1>4

\* A request that saves a version row of a living document, and the usage
\* rights with it, keeps the invariant.
LEMMA SaveVersieInv ==
  ASSUME BoundsAssumption, IInv, Bestaat, NEW r \in Requests, NEW q \in ReqType,
         req' = [req EXCEPT ![r] = q], q.fase \in {"vrij", "parts", "wipe"},
         NEW v \in Versie, NEW row \in Row, SaveVersie(v, row),
         UNCHANGED <<fileVars, relaties, auxVars>>,
         rechtIds' \in 0..MaxRechten, rechten' \subseteq 1..rechtIds'
  PROVE  IInv'
<1>1. /\ IsTable(eio', Versie, Row) /\ DOMAIN eio' = DOMAIN eio
      /\ canonical' = [canonical EXCEPT !.latest = Recentste]
      /\ Recentste \in DOMAIN eio /\ Recentste \in 0..MaxVersie
  BY SaveVersieKeeps DEF IInv, Coherent
<1>2. /\ canonical'.stand = canonical.stand /\ canonical'.lock = canonical.lock
      /\ canonical'.latest = Recentste /\ locks' = locks /\ locks \in Nat
      /\ canonical' \in [stand : {"nieuw", "bestaat", "vernietigd"}, lock : Lock,
                         latest : 0..MaxVersie]
  BY <1>1 DEF IInv, TypeOK, auxVars, Lock
<1>3. ReqCoherent(q)'
  BY <1>2 DEF ReqCoherent, Bestaat
<1>4. req' \in [Requests -> ReqType] /\ (\A s \in Requests : ReqCoherent(req[s]))'
  <2>1. /\ TypeOK /\ Coherent /\ canonical'.stand \in {canonical.stand, "vernietigd"}
        /\ Bestaat' => Bestaat /\ DOMAIN eio \subseteq DOMAIN eio'
        /\ locks' \in Nat /\ locks <= locks'
    BY <1>1, <1>2 DEF IInv, Bestaat
  <2>. QED BY <1>3, <2>1, Others
<1>5. DocCoherent'
  BY <1>1, <1>2 DEF IInv, Coherent, DocCoherent, Bestaat
<1>6. TypeOK'
  BY <1>1, <1>2, <1>4 DEF IInv, TypeOK, fileVars, auxVars
<1>. QED BY <1>4, <1>5, <1>6 DEF IInv, Coherent

\* A request that saves the canonical row with the pointer it read, and possibly
\* a new lock, keeps the invariant.
LEMMA SaveCanonicalInv ==
  ASSUME BoundsAssumption, IInv, Bestaat, NEW r \in Requests, NEW q \in ReqType,
         req' = [req EXCEPT ![r] = q], q.fase \in {"vrij", "merge"},
         NEW lock \in Lock, NEW latest \in DOMAIN eio, SaveCanonical(lock, latest),
         lock <= locks', locks' \in Lock, locks <= locks', uitgegeven' \subseteq 1..locks',
         UNCHANGED <<docVars, rightVars, fouten, faults>>
  PROVE  IInv'
<1>1. latest \in 0..MaxVersie /\ eio' = eio /\ locks' \in Nat
  BY DEF IInv, TypeOK, IsTable, Versie, BoundsAssumption, docVars, Lock
<1>2. /\ canonical'.stand = canonical.stand /\ canonical'.lock = lock
      /\ canonical'.latest = latest
      /\ canonical' \in [stand : {"nieuw", "bestaat", "vernietigd"}, lock : Lock,
                         latest : 0..MaxVersie]
  BY <1>1 DEF IInv, TypeOK, SaveCanonical
<1>3. ReqCoherent(q)'
  BY <1>2 DEF ReqCoherent, Bestaat
<1>4. req' \in [Requests -> ReqType] /\ (\A s \in Requests : ReqCoherent(req[s]))'
  <2>1. /\ TypeOK /\ Coherent /\ canonical'.stand \in {canonical.stand, "vernietigd"}
        /\ Bestaat' => Bestaat /\ DOMAIN eio \subseteq DOMAIN eio'
    BY <1>1, <1>2 DEF IInv, Bestaat
  <2>. QED BY <1>1, <1>3, <2>1, Others
<1>5. DocCoherent'
  BY <1>1, <1>2 DEF IInv, Coherent, DocCoherent, Bestaat, docVars, fileVars, rightVars
<1>6. TypeOK'
  BY <1>1, <1>2, <1>4 DEF IInv, TypeOK, docVars, fileVars, rightVars
<1>. QED BY <1>4, <1>5, <1>6 DEF IInv, Coherent

\* A request that only changes part rows and files of a living document, or
\* takes rows away, keeps the invariant.
LEMMA FilesInv ==
  ASSUME BoundsAssumption, IInv, NEW r \in Requests, NEW q \in ReqType,
         req' = [req EXCEPT ![r] = q], q.fase \in {"vrij", "wipe"}, req[r].fase # "vrij",
         IsTable(delen', Deel, DeelRow), Bestaat \/ DOMAIN delen' = {},
         weg' \subseteq 1..MaxUploads, uploads' \in 0..MaxUploads, faults' \in 0..MaxFaults,
         UNCHANGED <<canonical, eio, rightVars, locks, uitgegeven, fouten>>
  PROVE  IInv'
<1>1. locks' = locks /\ locks \in Nat
  BY DEF IInv, TypeOK, Lock
<1>2. canonical.stand # "nieuw"
  BY DEF IInv, Coherent, ReqCoherent
<1>3. ReqCoherent(q)'
  BY <1>2 DEF ReqCoherent, Bestaat
<1>4. req' \in [Requests -> ReqType] /\ (\A s \in Requests : ReqCoherent(req[s]))'
  <2>1. /\ TypeOK /\ Coherent /\ canonical'.stand \in {canonical.stand, "vernietigd"}
        /\ Bestaat' => Bestaat /\ DOMAIN eio \subseteq DOMAIN eio'
        /\ locks' \in Nat /\ locks <= locks'
    BY <1>1 DEF IInv, Bestaat
  <2>. QED BY <1>3, <2>1, Others
<1>5. DocCoherent'
  BY DEF IInv, Coherent, DocCoherent, Bestaat, rightVars
<1>6. TypeOK'
  BY <1>4 DEF IInv, TypeOK, rightVars
<1>. QED BY <1>4, <1>5, <1>6 DEF IInv, Coherent

\* A request that ends and only changes the usage rights keeps the invariant.
LEMMA RightsInv ==
  ASSUME BoundsAssumption, IInv, NEW r \in Requests, req' = [req EXCEPT ![r] = Idle],
         UNCHANGED <<canonical, eio>>, UNCHANGED <<fileVars, relaties, auxVars>>,
         rechtIds' \in 0..MaxRechten, rechten' \subseteq 1..rechtIds'
  PROVE  IInv'
<1>1. canonical' = canonical /\ eio' = eio /\ locks' = locks /\ locks \in Nat
  BY DEF auxVars, IInv, TypeOK, Lock
<1>2. req' \in [Requests -> ReqType] /\ (\A s \in Requests : ReqCoherent(req[s]))'
  <2>1. /\ TypeOK /\ Coherent /\ canonical'.stand \in {canonical.stand, "vernietigd"}
        /\ Bestaat' => Bestaat /\ DOMAIN eio \subseteq DOMAIN eio'
        /\ locks' \in Nat /\ locks <= locks'
    BY <1>1 DEF IInv, Bestaat
  <2>2. Idle \in ReqType /\ ReqCoherent(Idle)'
    BY Constants, IdleCoherent
  <2>. QED BY <2>1, <2>2, Others
<1>3. DocCoherent'
  BY <1>1 DEF IInv, Coherent, DocCoherent, Bestaat, fileVars
<1>4. TypeOK'
  BY <1>1, <1>2 DEF IInv, TypeOK, fileVars, auxVars
<1>. QED BY <1>2, <1>3, <1>4 DEF IInv, Coherent

LEMMA LockSaveInv ==
  ASSUME BoundsAssumption, IInv, NEW r \in Requests, LockSave(r)
  PROVE  IInv'
<1>1. req[r].fase = "lock_save" /\ Finish(r) /\ UNCHANGED <<docVars, rightVars, fouten, faults>>
  BY DEF LockSave
<1>2. CASE Bestaat
  <2>1. req[r].latest \in DOMAIN eio
    BY <1>1, <1>2 DEF IInv, Coherent, ReqCoherent
  <2>2. /\ locks < MaxLock /\ locks' = locks + 1 /\ uitgegeven' = uitgegeven \cup {locks'}
        /\ SaveCanonical(locks', req[r].latest)
    BY <1>2 DEF LockSave
  <2>3. locks' \in Lock /\ locks <= locks' /\ uitgegeven' \subseteq 1..locks' /\ locks' <= locks'
    BY <2>2 DEF IInv, TypeOK, Lock, BoundsAssumption
  <2>4. Idle \in ReqType /\ Idle.fase = "vrij" /\ req' = [req EXCEPT ![r] = Idle]
    BY <1>1, Constants DEF Finish
  <2>. QED BY <1>1, <1>2, <2>1, <2>2, <2>3, <2>4, SaveCanonicalInv
<1>3. CASE ~Bestaat
  BY <1>1, <1>3, StopInv DEF LockSave, IInv, TypeOK
<1>. QED BY <1>2, <1>3

LEMMA UnlockSaveInv ==
  ASSUME BoundsAssumption, IInv, NEW r \in Requests, UnlockSave(r)
  PROVE  IInv'
<1>1. req[r].fase = "unlock_save" /\ UNCHANGED <<docVars, rightVars, locks, fouten, faults>>
  BY DEF UnlockSave
<1>2. CASE Bestaat
  <2>1. req[r].latest \in DOMAIN eio
    BY <1>1, <1>2 DEF IInv, Coherent, ReqCoherent
  <2>2. SaveCanonical(NoLock, req[r].latest) /\ Continue(r, "merge")
        /\ uitgegeven' \subseteq uitgegeven
    BY <1>2 DEF UnlockSave
  <2>3. NoLock \in Lock /\ NoLock <= locks' /\ locks' \in Lock /\ locks <= locks'
        /\ uitgegeven' \subseteq 1..locks'
    BY <1>1, <2>2 DEF IInv, TypeOK, Lock, NoLock, BoundsAssumption
  <2>. DEFINE q == [req[r] EXCEPT !.fase = "merge"]
  <2>4. q \in ReqType /\ q.fase = "merge" /\ req' = [req EXCEPT ![r] = q]
    BY <2>2 DEF IInv, TypeOK, ReqType, Fases, Continue
  <2>. HIDE DEF q
  <2>. QED BY <1>1, <1>2, <2>1, <2>2, <2>3, <2>4, SaveCanonicalInv
<1>3. CASE ~Bestaat
  BY <1>1, <1>3, StopInv DEF UnlockSave, IInv, TypeOK
<1>. QED BY <1>2, <1>3

\* The steps of an unlock after the lock was cleared.
LEMMA UnlockMergeInv ==
  ASSUME BoundsAssumption, IInv, NEW r \in Requests, UnlockMerge(r)
  PROVE  IInv'
<1>. DEFINE parts  == {<<delen[n].gen, n>> : n \in DOMAIN delen}
            merged == [soort |-> "merged", delen |-> parts]
            row    == [req[r].rij EXCEPT !.inhoud = merged]
            q      == [req[r] EXCEPT !.fase = "wipe", !.delen = delen]
<1>1. IsTable(delen, Deel, DeelRow) /\ delen \in Tables(Deel, DeelRow)
  BY TablesDef DEF IInv, TypeOK
<1>2. Bestaat
  BY DEF UnlockMerge, EmptyBestandsdelen, IInv, Coherent, DocCoherent
<1>3. UNCHANGED <<fileVars, rightVars, locks, uitgegeven, faults>>
  BY DEF UnlockMerge
<1>4. CASE Files(delen) \cap weg = {}
  <2>1. parts \subseteq Versie \X Deel
    BY <1>1 DEF IsTable, DeelRow
  <2>2. merged \in Inhoud
    BY <2>1 DEF Inhoud
  <2>. HIDE DEF merged, parts
  <2>3. req[r] \in ReqType
    BY DEF IInv, TypeOK
  <2>4. row \in Row /\ req[r].versie \in Versie
    BY <2>2, <2>3 DEF ReqType, Row
  <2>5. q \in ReqType /\ q.fase = "wipe"
    BY <1>1, <2>3 DEF ReqType, Fases
  <2>6. SaveVersie(req[r].versie, row) /\ req' = [req EXCEPT ![r] = q] /\ UNCHANGED fouten
    BY <1>4, <2>3 DEF UnlockMerge, merged, parts
  <2>. HIDE DEF row, q
  <2>7. /\ UNCHANGED <<fileVars, relaties, auxVars>>
        /\ rechtIds' \in 0..MaxRechten /\ rechten' \subseteq 1..rechtIds'
    BY <1>3, <2>6 DEF rightVars, auxVars, IInv, TypeOK
  <2>. QED BY <1>2, <2>4, <2>5, <2>6, <2>7, SaveVersieInv
<1>5. CASE Files(delen) \cap weg # {}
  <2>1. UNCHANGED <<canonical, eio>> /\ fouten' = fouten \cup {"bestand_weg"} /\ Finish(r)
    BY <1>5 DEF UnlockMerge
  <2>2. /\ UNCHANGED <<canonical, docVars, rightVars, locks, uitgegeven>>
        /\ fouten' \subseteq {"unlock_typeerror", "bestand_weg", "destroy_unchecked"}
        /\ faults' \in 0..MaxFaults
    BY <1>3, <2>1 DEF docVars, IInv, TypeOK
  <2>. QED BY <2>1, <2>2, StopInv
<1>. QED BY <1>4, <1>5

LEMMA UnlockForgetInv ==
  ASSUME BoundsAssumption, IInv, NEW r \in Requests, UnlockForget(r)
  PROVE  IInv'
<1>. DEFINE row == [req[r].rij EXCEPT !.omvang = "onbekend"]
            q   == [req[r] EXCEPT !.fase = "parts"]
<1>1. Bestaat
  BY DEF UnlockForget, EmptyBestandsdelen, IInv, Coherent, DocCoherent
<1>2. req[r] \in ReqType
  BY DEF IInv, TypeOK
<1>3. row \in Row /\ req[r].versie \in Versie
  BY <1>2 DEF ReqType, Row, Omvang
<1>4. q \in ReqType /\ q.fase = "parts"
  BY <1>2 DEF ReqType, Fases
<1>5. SaveVersie(req[r].versie, row) /\ req' = [req EXCEPT ![r] = q]
  BY <1>2 DEF UnlockForget, Continue
<1>. HIDE DEF row, q
<1>6. /\ UNCHANGED <<fileVars, relaties, auxVars>>
      /\ rechtIds' \in 0..MaxRechten /\ rechten' \subseteq 1..rechtIds'
  BY DEF UnlockForget, rightVars, IInv, TypeOK
<1>. QED BY <1>1, <1>3, <1>4, <1>5, <1>6, SaveVersieInv

LEMMA UnlockPartsInv ==
  ASSUME BoundsAssumption, IInv, NEW r \in Requests, UnlockParts(r)
  PROVE  IInv'
<1>. DEFINE q == [req[r] EXCEPT !.fase = "wipe", !.delen = delen]
<1>1. req[r] \in ReqType /\ delen \in Tables(Deel, DeelRow)
  BY TablesDef DEF IInv, TypeOK
<1>2. q \in ReqType /\ q.fase = "wipe"
  BY <1>1 DEF ReqType, Fases
<1>3. req' = [req EXCEPT ![r] = q]
  BY DEF UnlockParts
<1>4. canonical.stand # "nieuw"
  BY DEF UnlockParts, IInv, Coherent, ReqCoherent
<1>. HIDE DEF q
<1>5. ReqCoherent(q)
  BY <1>2, <1>4 DEF ReqCoherent
<1>6. /\ UNCHANGED <<canonical, docVars, rightVars, locks, uitgegeven>>
      /\ fouten' \subseteq {"unlock_typeerror", "bestand_weg", "destroy_unchecked"}
      /\ faults' \in 0..MaxFaults
  BY DEF UnlockParts, auxVars, IInv, TypeOK
<1>. QED BY <1>2, <1>3, <1>5, <1>6, ReqOnly

\* A part that a request still has to wipe has a file that was received.
LEMMA TodoFile ==
  ASSUME BoundsAssumption, IInv, NEW r \in Requests, NEW n \in DOMAIN req[r].delen
  PROVE  {req[r].delen[n].file} \ {0} \subseteq 1..MaxUploads
<1>1. req[r] \in ReqType
  BY DEF IInv, TypeOK
<1>2. IsTable(req[r].delen, Deel, DeelRow)
  BY <1>1, TablesDef DEF ReqType
<1>. QED BY <1>2 DEF IsTable, DeelRow, BoundsAssumption

LEMMA UnlockWipeInv ==
  ASSUME BoundsAssumption, IInv, NEW r \in Requests, NEW n \in Deel, UnlockWipe(r, n)
  PROVE  IInv'
<1>. DEFINE todo == Without(req[r].delen, {n})
            q    == [req[r] EXCEPT !.delen = todo]
            gone == {n} \cap SameRows(delen, req[r].delen)
<1>1. req[r] \in ReqType /\ req[r].fase = "wipe" /\ n \in DOMAIN req[r].delen
  BY DEF UnlockWipe, WipeNext, IInv, TypeOK
<1>2. IsTable(todo, Deel, DeelRow)
  <2>1. IsTable(req[r].delen, Deel, DeelRow)
    BY <1>1, TablesDef DEF ReqType
  <2>. QED BY <2>1, TableWithout
<1>3. todo \in Tables(Deel, DeelRow)
  BY <1>2, TablesDef
<1>4. req' = [req EXCEPT ![r] = q] /\ delen' = Without(delen, gone)
  BY DEF UnlockWipe
<1>. HIDE DEF todo
<1>5. q \in ReqType /\ q.fase = "wipe"
  BY <1>1, <1>3 DEF ReqType
<1>. HIDE DEF q, gone
<1>6. IsTable(delen', Deel, DeelRow) /\ (Bestaat \/ DOMAIN delen' = {})
  <2>1. IsTable(delen, Deel, DeelRow) /\ (Bestaat \/ DOMAIN delen = {})
    BY DEF IInv, TypeOK, Coherent, DocCoherent
  <2>2. IsTable(Without(delen, gone), Deel, DeelRow)
        /\ DOMAIN Without(delen, gone) = DOMAIN delen \ gone
    BY <2>1 DEF IsTable, Without
  <2>. QED BY <1>4, <2>1, <2>2
<1>7. weg' \subseteq 1..MaxUploads
  BY <1>1, TodoFile DEF UnlockWipe, IInv, TypeOK
<1>8. /\ UNCHANGED <<canonical, eio, rightVars, locks, uitgegeven, fouten>>
      /\ uploads' \in 0..MaxUploads /\ faults' \in 0..MaxFaults
  BY DEF UnlockWipe, auxVars, IInv, TypeOK
<1>. QED BY <1>1, <1>4, <1>5, <1>6, <1>7, <1>8, FilesInv

LEMMA CrashInWipeInv ==
  ASSUME BoundsAssumption, IInv, NEW r \in Requests, NEW n \in Deel, NEW cleared \in BOOLEAN,
         CrashInWipe(r, n, cleared)
  PROVE  IInv'
<1>1. req[r].fase = "wipe" /\ n \in DOMAIN req[r].delen
  BY DEF CrashInWipe, WipeNext
<1>2. Idle \in ReqType /\ Idle.fase = "vrij" /\ req' = [req EXCEPT ![r] = Idle]
  BY Constants DEF CrashInWipe, Finish
<1>3. IsTable(delen', Deel, DeelRow) /\ (Bestaat \/ DOMAIN delen' = {})
  <2>1. IsTable(delen, Deel, DeelRow) /\ (Bestaat \/ DOMAIN delen = {})
    BY DEF IInv, TypeOK, Coherent, DocCoherent
  <2>2. CASE delen' = delen
    BY <2>1, <2>2
  <2>3. CASE n \in DOMAIN delen /\ delen' = [delen EXCEPT ![n].file = 0]
    <3>1. [delen[n] EXCEPT !.file = 0] \in DeelRow
      BY <2>1, <2>3 DEF IsTable, DeelRow, BoundsAssumption
    <3>. QED BY <2>1, <2>3, <3>1 DEF IsTable
  <2>. QED BY <2>2, <2>3 DEF CrashInWipe, SameRows
<1>4. weg' \subseteq 1..MaxUploads
  BY <1>1, TodoFile DEF CrashInWipe, IInv, TypeOK
<1>5. /\ UNCHANGED <<canonical, eio, rightVars, locks, uitgegeven, fouten>>
      /\ uploads' \in 0..MaxUploads /\ faults' \in 0..MaxFaults
  BY DEF CrashInWipe, IInv, TypeOK, BoundsAssumption
<1>. QED BY <1>1, <1>2, <1>3, <1>4, <1>5, FilesInv

LEMMA UploadSaveInv ==
  ASSUME BoundsAssumption, IInv, NEW r \in Requests, UploadSave(r)
  PROVE  IInv'
<1>. DEFINE nr  == req[r].pk
            gen == req[r].delen[nr].gen
            row == [gen |-> gen, file |-> uploads']
<1>1. req[r] \in ReqType /\ req[r].fase = "upload_save" /\ nr \in DOMAIN req[r].delen
  BY DEF UploadSave, IInv, TypeOK, Coherent, ReqCoherent
<1>2. Idle \in ReqType /\ Idle.fase = "vrij" /\ req' = [req EXCEPT ![r] = Idle]
  BY Constants DEF UploadSave, Finish
<1>3. uploads' \in 0..MaxUploads
  BY DEF UploadSave, IInv, TypeOK, BoundsAssumption
<1>4. row \in DeelRow /\ nr \in Deel
  <2>1. IsTable(req[r].delen, Deel, DeelRow)
    BY <1>1, TablesDef DEF ReqType
  <2>. QED BY <1>1, <1>3, <2>1 DEF IsTable, DeelRow
<1>5. delen' = delen \/ (Bestaat /\ delen' = Put(delen, nr, row))
  BY DEF UploadSave
<1>. HIDE DEF nr, row
<1>6. IsTable(delen', Deel, DeelRow) /\ (Bestaat \/ DOMAIN delen' = {})
  <2>1. IsTable(delen, Deel, DeelRow) /\ (Bestaat \/ DOMAIN delen = {})
    BY DEF IInv, TypeOK, Coherent, DocCoherent
  <2>2. IsTable(Put(delen, nr, row), Deel, DeelRow)
    BY <1>4, <2>1 DEF IsTable, Put
  <2>. QED BY <1>5, <2>1, <2>2
<1>7. /\ UNCHANGED <<canonical, eio, rightVars, locks, uitgegeven, fouten>>
      /\ weg' \subseteq 1..MaxUploads /\ faults' \in 0..MaxFaults
  BY DEF UploadSave, auxVars, IInv, TypeOK
<1>. QED BY <1>1, <1>2, <1>3, <1>6, <1>7, FilesInv

LEMMA UpdateSaveInv ==
  ASSUME BoundsAssumption, IInv, NEW r \in Requests, NEW file \in Omvang \cup {"zelfde"},
         UpdateSave(r, file)
  PROVE  IInv'
<1>. DEFINE new == NextVersie(req[r].versie)
            row == NewRow(req[r].rij, req[r].opt, file)
            cleared == Without(delen, SameRows(delen, req[r].delen))
<1>1. /\ req[r] \in ReqType /\ req[r].fase = "update_save"
      /\ req[r].versie < MaxVersie /\ canonical.stand # "nieuw"
      /\ Bestaat => req[r].versie \in DOMAIN eio
  BY DEF UpdateSave, IInv, TypeOK, Coherent, ReqCoherent
<1>2. new \in Versie
  BY <1>1 DEF ReqType, Versie, NextVersie, BoundsAssumption
<1>3. row \in Row
  <2>1. req[r].rij \in Row /\ Geen \in Inhoud /\ Inline \in Inhoud
    BY <1>1, Constants DEF ReqType
  <2>2. file # "zelfde" => file \in Omvang
    OBVIOUS
  <2>. QED BY <2>1, <2>2 DEF NewRow, Row
<1>4. IsTable(delen, Deel, DeelRow) /\ IsTable(cleared, Deel, DeelRow)
      /\ DOMAIN cleared \subseteq DOMAIN delen
  <2>1. IsTable(delen, Deel, DeelRow)
    BY DEF IInv, TypeOK
  <2>. QED BY <2>1 DEF IsTable, Without
<1>5. Idle \in ReqType /\ Idle.fase = "vrij" /\ req' = [req EXCEPT ![r] = Idle]
      /\ ReqCoherent(Idle)'
  BY Constants, IdleCoherent DEF UpdateSave, Finish
<1>6. weg' \subseteq 1..MaxUploads
  <2>1. IsTable(req[r].delen, Deel, DeelRow)
    BY <1>1, TablesDef DEF ReqType
  <2>2. Files(req[r].delen) \subseteq 1..MaxUploads
    BY <2>1 DEF Files, IsTable, DeelRow, BoundsAssumption
  <2>3. weg' = weg \/ weg' = weg \cup Files(req[r].delen)
    BY DEF UpdateSave
  <2>. QED BY <2>2, <2>3 DEF IInv, TypeOK
<1>7. CASE UNCHANGED <<canonical, eio, delen>>
  <2>1. /\ UNCHANGED <<canonical, eio, rightVars, locks, uitgegeven, fouten>>
        /\ uploads' \in 0..MaxUploads /\ faults' \in 0..MaxFaults
        /\ Bestaat \/ DOMAIN delen' = {}
        /\ IsTable(delen', Deel, DeelRow)
    BY <1>4, <1>7 DEF UpdateSave, auxVars, IInv, TypeOK, Coherent, DocCoherent
  <2>. QED BY <1>1, <1>5, <1>6, <2>1, FilesInv
<1>8. CASE /\ Bestaat /\ new \notin DOMAIN eio
           /\ eio' = Put(eio, new, row)
           /\ delen' = IF NeedsDelen(row) THEN NewDelen(new) ELSE cleared
           /\ canonical' = Trigger(canonical, eio')
  <2>. HIDE DEF row, cleared
  <2>1. IsTable(delen', Deel, DeelRow)
    BY <1>2, <1>4, <1>8, NewDelenType
  <2>2. IsTable(eio', Versie, Row) /\ DOMAIN eio' = DOMAIN eio \cup {new}
    <3>1. IsTable(eio, Versie, Row)
      BY DEF IInv, TypeOK
    <3>. QED BY <1>2, <1>3, <1>8, <3>1 DEF IsTable, Put
  <2>3. DOMAIN eio' = 1..new
    <3>1. PICK n \in Versie : DOMAIN eio = 1..n
      BY <1>8 DEF IInv, Coherent, DocCoherent
    <3>2. new = n + 1
      BY <1>1, <1>2, <1>8, <3>1 DEF Versie, NextVersie, BoundsAssumption
    <3>. QED BY <2>2, <3>1, <3>2 DEF Versie, BoundsAssumption
  <2>4. MaxOf(DOMAIN eio') = new /\ new \in DOMAIN eio' /\ new \in 0..MaxVersie
    BY <1>2, <2>3, MaxOfInterval DEF Versie, BoundsAssumption
  <2>5. /\ canonical'.stand = canonical.stand /\ canonical'.lock = canonical.lock
        /\ canonical'.latest = new
        /\ canonical' \in [stand : {"nieuw", "bestaat", "vernietigd"}, lock : Lock,
                           latest : 0..MaxVersie]
    BY <1>8, <2>4 DEF Trigger, IInv, TypeOK
  <2>6. UNCHANGED <<uploads, rightVars, auxVars>> /\ locks' = locks /\ locks \in Nat
    BY DEF UpdateSave, auxVars, IInv, TypeOK, Lock
  <2>. HIDE DEF new
  <2>7. req' \in [Requests -> ReqType] /\ (\A s \in Requests : ReqCoherent(req[s]))'
    <3>1. /\ TypeOK /\ Coherent /\ canonical'.stand \in {canonical.stand, "vernietigd"}
          /\ Bestaat' => Bestaat /\ DOMAIN eio \subseteq DOMAIN eio'
          /\ locks' \in Nat /\ locks <= locks'
      BY <1>8, <2>2, <2>5, <2>6 DEF IInv, Bestaat
    <3>. QED BY <1>5, <3>1, Others
  <2>8. DocCoherent'
    BY <1>2, <1>8, <2>3, <2>4, <2>5, <2>6 DEF IInv, Coherent, DocCoherent, Bestaat
  <2>9. TypeOK'
    BY <1>6, <2>1, <2>2, <2>5, <2>6, <2>7 DEF IInv, TypeOK, rightVars, auxVars
  <2>. QED BY <2>7, <2>8, <2>9 DEF IInv, Coherent
<1>9. UNCHANGED <<canonical, eio, delen>> \/
      /\ Bestaat /\ new \notin DOMAIN eio
      /\ eio' = Put(eio, new, row)
      /\ delen' = IF NeedsDelen(row) THEN NewDelen(new) ELSE cleared
      /\ canonical' = Trigger(canonical, eio')
  <2>. HIDE DEF new, row, cleared
  <2>. QED BY DEF UpdateSave, new, row, cleared
<1>. QED BY <1>7, <1>8, <1>9

LEMMA UpdateRollbackInv ==
  ASSUME BoundsAssumption, IInv, NEW r \in Requests, UpdateRollback(r)
  PROVE  IInv'
<1>1. req[r] \in ReqType /\ req[r].fase = "update_save"
  BY DEF UpdateRollback, IInv, TypeOK
<1>2. Idle \in ReqType /\ Idle.fase = "vrij" /\ req' = [req EXCEPT ![r] = Idle]
  BY Constants DEF UpdateRollback, Finish
<1>3. weg' \subseteq 1..MaxUploads
  <2>1. IsTable(req[r].delen, Deel, DeelRow)
    BY <1>1, TablesDef DEF ReqType
  <2>2. Files(req[r].delen) \subseteq 1..MaxUploads
    BY <2>1 DEF Files, IsTable, DeelRow, BoundsAssumption
  <2>. QED BY <2>2 DEF UpdateRollback, IInv, TypeOK
<1>4. /\ UNCHANGED <<canonical, eio, rightVars, locks, uitgegeven, fouten>>
      /\ uploads' \in 0..MaxUploads /\ faults' \in 0..MaxFaults
      /\ IsTable(delen', Deel, DeelRow) /\ Bestaat
  BY DEF UpdateRollback, IInv, TypeOK, BoundsAssumption
<1>. QED BY <1>1, <1>2, <1>3, <1>4, FilesInv

LEMMA RechtSaveInv ==
  ASSUME BoundsAssumption, IInv, NEW r \in Requests, RechtSave(r)
  PROVE  IInv'
<1>. DEFINE row == [req[r].rij EXCEPT !.indicatie = TRUE]
<1>1. req[r] \in ReqType /\ req[r].fase = "recht_save"
      /\ UNCHANGED <<fileVars, relaties, auxVars>>
  BY DEF RechtSave, IInv, TypeOK
<1>2. Idle \in ReqType /\ Idle.fase = "vrij" /\ req' = [req EXCEPT ![r] = Idle]
  BY Constants DEF RechtSave, Finish
<1>3. rechtIds' \in 0..MaxRechten /\ rechten' \subseteq 1..rechtIds'
  BY DEF RechtSave, IInv, TypeOK, BoundsAssumption
<1>4. CASE UNCHANGED <<canonical, eio>>
  BY <1>1, <1>2, <1>3, <1>4, RightsInv
<1>5. CASE Bestaat /\ SaveVersie(req[r].versie, row)
  <2>1. row \in Row /\ req[r].versie \in Versie
    BY <1>1 DEF ReqType, Row
  <2>. HIDE DEF row
  <2>. QED BY <1>1, <1>2, <1>3, <1>5, <2>1, SaveVersieInv
<1>. QED BY <1>4, <1>5 DEF RechtSave

LEMMA RechtDeleteInv ==
  ASSUME BoundsAssumption, IInv, NEW r \in Requests, RechtDelete(r)
  PROVE  IInv'
<1>. DEFINE row == [req[r].rij EXCEPT !.indicatie = FALSE]
<1>1. req[r] \in ReqType /\ req[r].fase = "recht_delete"
      /\ UNCHANGED <<fileVars, relaties, auxVars>>
  BY DEF RechtDelete, IInv, TypeOK
<1>2. Idle \in ReqType /\ Idle.fase = "vrij" /\ req' = [req EXCEPT ![r] = Idle]
  BY Constants DEF RechtDelete, Finish
<1>3. rechtIds' \in 0..MaxRechten /\ rechten' \subseteq 1..rechtIds'
  BY DEF RechtDelete, IInv, TypeOK
<1>4. CASE UNCHANGED <<canonical, eio>>
  BY <1>1, <1>2, <1>3, <1>4, RightsInv
<1>5. CASE Bestaat /\ SaveVersie(req[r].versie, row)
  <2>1. row \in Row /\ req[r].versie \in Versie
    BY <1>1 DEF ReqType, Row
  <2>. HIDE DEF row
  <2>. QED BY <1>1, <1>2, <1>3, <1>5, <2>1, SaveVersieInv
<1>. QED BY <1>4, <1>5 DEF RechtDelete

LEMMA RelateInv ==
  ASSUME BoundsAssumption, IInv, NEW r \in Requests, NEW object \in {"zaak", "besluit"},
         Relate(r, object) \/ Unrelate(r, object)
  PROVE  IInv'
<1>1. /\ UNCHANGED <<canonical, docVars, rechten, rechtIds, req, auxVars>> /\ Bestaat
      /\ relaties' \subseteq {"zaak", "besluit"}
  BY DEF Relate, Unrelate, Ready, IInv, TypeOK
<1>2. TypeOK'
  BY <1>1 DEF IInv, TypeOK, docVars, fileVars, auxVars
<1>3. Coherent'
  BY <1>1 DEF IInv, Coherent, DocCoherent, ReqCoherent, Bestaat, docVars, fileVars, auxVars
<1>. QED BY <1>2, <1>3 DEF IInv

LEMMA DestroyInv ==
  ASSUME BoundsAssumption, IInv, NEW r \in Requests, Destroy(r)
  PROVE  IInv'
<1>1. req[r].fase = "delete" /\ Finish(r) /\ UNCHANGED <<weg, uploads, rechtIds, locks, faults>>
  BY DEF Destroy
<1>2. CASE Bestaat /\ ~Protected
  <2>1. /\ canonical' = [stand |-> "vernietigd", lock |-> NoLock, latest |-> 0]
        /\ eio' = [v \in {} |-> LegeRij] /\ delen' = NoDelen
        /\ rechten' = {} /\ relaties' = {} /\ uitgegeven' = {}
        /\ fouten' \subseteq fouten \cup {"destroy_unchecked"}
    BY <1>2 DEF Destroy
  <2>2. IsTable(eio', Versie, Row) /\ DOMAIN eio' = {}
    BY <2>1 DEF IsTable
  <2>3. IsTable(delen', Deel, DeelRow) /\ DOMAIN delen' = {}
    BY <2>1, Constants
  <2>4. Idle \in ReqType /\ ReqCoherent(Idle)' /\ req' = [req EXCEPT ![r] = Idle]
    BY <1>1, Constants, IdleCoherent DEF Finish
  <2>5. canonical'.stand = "vernietigd" /\ canonical'.lock = 0 /\ locks' = locks /\ locks \in Nat
    BY <1>1, <2>1 DEF NoLock, IInv, TypeOK, Lock
  <2>6. req' \in [Requests -> ReqType] /\ (\A s \in Requests : ReqCoherent(req[s]))'
    <3>1. /\ TypeOK /\ Coherent /\ canonical'.stand \in {canonical.stand, "vernietigd"}
          /\ Bestaat' => Bestaat /\ DOMAIN eio \subseteq DOMAIN eio'
          /\ locks' \in Nat /\ locks <= locks'
      BY <2>5 DEF IInv, Bestaat
    <3>. QED BY <2>4, <3>1, Others
  <2>7. DocCoherent'
    BY <2>1, <2>2, <2>3, <2>5 DEF DocCoherent, Bestaat
  <2>8. TypeOK'
    BY <1>1, <2>1, <2>2, <2>3, <2>6 DEF IInv, TypeOK, NoLock, Lock, BoundsAssumption
  <2>. QED BY <2>6, <2>7, <2>8 DEF IInv, Coherent
<1>3. CASE ~(Bestaat /\ ~Protected)
  <2>1. /\ UNCHANGED <<canonical, docVars, rightVars, locks, uitgegeven>>
        /\ fouten' \subseteq {"unlock_typeerror", "bestand_weg", "destroy_unchecked"}
        /\ faults' \in 0..MaxFaults
    BY <1>1, <1>3 DEF Destroy, docVars, fileVars, rightVars, IInv, TypeOK
  <2>. QED BY <1>1, <2>1, StopInv
<1>. QED BY <1>2, <1>3

LEMMA StopsInv ==
  ASSUME BoundsAssumption, IInv, NEW r \in Requests,
         UnlockEmpty(r) \/ UnlockDone(r) \/ Crash(r)
  PROVE  IInv'
<1>1. /\ Finish(r) /\ UNCHANGED <<canonical, docVars, rightVars, locks, uitgegeven>>
      /\ fouten' \subseteq {"unlock_typeerror", "bestand_weg", "destroy_unchecked"}
      /\ faults' \in 0..MaxFaults
  <2>1. fouten \subseteq {"unlock_typeerror", "bestand_weg", "destroy_unchecked"}
        /\ faults \in 0..MaxFaults
    BY DEF IInv, TypeOK
  <2>2. CASE UnlockEmpty(r) \/ UnlockDone(r)
    BY <2>1, <2>2 DEF UnlockEmpty, UnlockDone, auxVars
  <2>3. CASE Crash(r)
    BY <2>1, <2>3 DEF Crash, BoundsAssumption
  <2>. QED BY <2>2, <2>3
<1>. QED BY <1>1, StopInv

\* One step of the system keeps the invariant.
LEMMA NextInv == BoundsAssumption /\ IInv /\ [Next]_vars => IInv'
<1> SUFFICES ASSUME BoundsAssumption, IInv, [Next]_vars PROVE IInv'
  OBVIOUS
<1>1. ASSUME NEW omvang \in Omvang, Create(omvang) PROVE IInv'
  BY <1>1, CreateInv
<1>2. ASSUME NEW r \in Requests, LockRead(r) \/ ForceUnlockRead(r) \/ RechtRead(r)
             \/ DestroyRead(r) \/ \E pk \in rechten : RechtDeleteRead(r, pk)
      PROVE  IInv'
  BY <1>2, ReadInv
<1>3. ASSUME NEW r \in Requests, NEW lock \in Lock, UnlockRead(r, lock) PROVE IInv'
  BY <1>3, UnlockReadInv
<1>4. ASSUME NEW r \in Requests, NEW lock \in Lock, NEW op \in {"patch", "put"},
             UpdateRead(r, lock, op)
      PROVE  IInv'
  BY <1>4, UpdateReadInv
<1>5. ASSUME NEW r \in Requests, NEW lock \in Lock, NEW nr \in Deel, UploadRead(r, lock, nr)
      PROVE  IInv'
  BY <1>5, UploadReadInv
<1>6. ASSUME NEW r \in Requests, LockSave(r) PROVE IInv'
  BY <1>6, LockSaveInv
<1>7. ASSUME NEW r \in Requests, UnlockSave(r) PROVE IInv'
  BY <1>7, UnlockSaveInv
<1>8. ASSUME NEW r \in Requests, UnlockMerge(r) PROVE IInv'
  BY <1>8, UnlockMergeInv
<1>9. ASSUME NEW r \in Requests, UnlockForget(r) PROVE IInv'
  BY <1>9, UnlockForgetInv
<1>10. ASSUME NEW r \in Requests, UnlockParts(r) PROVE IInv'
  BY <1>10, UnlockPartsInv
<1>11. ASSUME NEW r \in Requests, NEW n \in Deel, UnlockWipe(r, n) PROVE IInv'
  BY <1>11, UnlockWipeInv
<1>12. ASSUME NEW r \in Requests, NEW n \in Deel, NEW cleared \in BOOLEAN,
              CrashInWipe(r, n, cleared)
       PROVE  IInv'
  BY <1>12, CrashInWipeInv
<1>13. ASSUME NEW r \in Requests, NEW file \in Omvang \cup {"zelfde"}, UpdateSave(r, file)
       PROVE  IInv'
  BY <1>13, UpdateSaveInv
<1>14. ASSUME NEW r \in Requests, UpdateRollback(r) PROVE IInv'
  BY <1>14, UpdateRollbackInv
<1>15. ASSUME NEW r \in Requests, UploadSave(r) PROVE IInv'
  BY <1>15, UploadSaveInv
<1>16. ASSUME NEW r \in Requests, RechtSave(r) PROVE IInv'
  BY <1>16, RechtSaveInv
<1>17. ASSUME NEW r \in Requests, RechtDelete(r) PROVE IInv'
  BY <1>17, RechtDeleteInv
<1>18. ASSUME NEW r \in Requests, NEW object \in {"zaak", "besluit"},
              Relate(r, object) \/ Unrelate(r, object)
       PROVE  IInv'
  BY <1>18, RelateInv
<1>19. ASSUME NEW r \in Requests, Destroy(r) PROVE IInv'
  BY <1>19, DestroyInv
<1>20. ASSUME NEW r \in Requests, UnlockEmpty(r) \/ UnlockDone(r) \/ Crash(r) PROVE IInv'
  BY <1>20, StopsInv
<1>21. CASE UNCHANGED vars
  <2>1. TypeOK'
    BY <1>21 DEF IInv, TypeOK, vars, IsTable
  <2>2. Coherent'
    BY <1>21 DEF IInv, Coherent, DocCoherent, ReqCoherent, Bestaat, vars
  <2>. QED BY <2>1, <2>2 DEF IInv
<1>. QED BY <1>1, <1>2, <1>3, <1>4, <1>5, <1>6, <1>7, <1>8, <1>9, <1>10, <1>11, <1>12, <1>13,
            <1>14, <1>15, <1>16, <1>17, <1>18, <1>19, <1>20, <1>21 DEF Next

\* In every behaviour the invariant holds throughout.
LEMMA Invariance == Spec => []IInv
<1>1. Init => IInv
  BY InitInv, BoundsAssumption
<1>2. IInv /\ [Next]_vars => IInv'
  BY NextInv, BoundsAssumption
<1>. QED BY <1>1, <1>2, PTL DEF Spec

-----------------------------------------------------------------------------
(* What the invariant gives. *)

\* Every variable keeps its type, and nothing of a document outlives its
\* canonical row.
THEOREM TypeCorrect == Spec => []TypeOK
BY Invariance, PTL DEF IInv

\* The versions of a document are numbered from 1 without a gap, however many
\* requests update it at the same time.
THEOREM Contiguous == Spec => []VersionsContiguous
<1>1. IInv => VersionsContiguous
  BY DEF IInv, Coherent, DocCoherent, VersionsContiguous
<1>. QED BY <1>1, Invariance, PTL

\* What a step does to the set of versions: nothing, the first version of a new
\* document, the version after the one an update read under a lock that was
\* handed out, or all of them away.
Keeps == DOMAIN eio' = DOMAIN eio /\ canonical'.stand = canonical.stand

Creates ==
  /\ canonical.stand = "nieuw" /\ canonical'.stand = "bestaat"
  /\ DOMAIN eio = {} /\ DOMAIN eio' = {1}

Updates(r) ==
  /\ req[r].fase = "update_save" /\ req[r].lock \in 1..locks /\ req[r].versie \in Versie
  /\ canonical.stand = "bestaat" /\ canonical'.stand = "bestaat"
  /\ DOMAIN eio = 1..req[r].versie
  /\ DOMAIN eio' = 1..(req[r].versie + 1)

Destroys ==
  /\ canonical.stand = "bestaat" /\ canonical'.stand = "vernietigd" /\ DOMAIN eio' = {}
  /\ "zaak" \notin relaties

VersionStep == Keeps \/ Creates \/ (\E r \in Requests : Updates(r)) \/ Destroys

LEMMA StepCreates ==
  ASSUME IInv, NEW omvang \in Omvang, Create(omvang)
  PROVE  VersionStep
<1>1. DOMAIN eio = {} /\ DOMAIN eio' = DOMAIN eio \cup {1}
  BY DEF Create, Put, IInv, Coherent, DocCoherent, Bestaat
<1>2. Creates
  BY <1>1 DEF Create, Creates
<1>. QED BY <1>2 DEF VersionStep

LEMMA StepUpdates ==
  ASSUME BoundsAssumption, IInv, NEW r \in Requests, NEW file \in Omvang \cup {"zelfde"},
         UpdateSave(r, file)
  PROVE  VersionStep
<1>. DEFINE row == NewRow(req[r].rij, req[r].opt, file)
            v   == req[r].versie
<1>1. /\ req[r].fase = "update_save" /\ req[r].lock \in 1..locks
      /\ v \in Versie /\ (Bestaat => v \in DOMAIN eio)
  BY DEF UpdateSave, IInv, TypeOK, ReqType, Coherent, ReqCoherent
<1>2. CASE UNCHANGED <<canonical, eio>>
  BY <1>2 DEF VersionStep, Keeps
<1>3. CASE /\ Bestaat /\ v + 1 \notin DOMAIN eio
           /\ eio' = Put(eio, v + 1, row) /\ canonical' = Trigger(canonical, eio')
  <2>. HIDE DEF row
  <2>1. PICK n \in Versie : DOMAIN eio = 1..n
    BY <1>3 DEF IInv, Coherent, DocCoherent
  <2>2. v = n
    BY <1>1, <1>3, <2>1 DEF Versie, BoundsAssumption
  <2>3. DOMAIN eio' = DOMAIN eio \cup {v + 1}
    BY <1>3 DEF Put
  <2>4. DOMAIN eio = 1..v /\ DOMAIN eio' = 1..(v + 1)
    BY <2>1, <2>2, <2>3 DEF Versie, BoundsAssumption
  <2>5. canonical.stand = "bestaat" /\ canonical'.stand = "bestaat"
    BY <1>3 DEF Bestaat, Trigger, IInv, TypeOK
  <2>6. Updates(r)
    BY <1>1, <2>4, <2>5 DEF Updates
  <2>. QED BY <2>6 DEF VersionStep
<1>. QED BY <1>2, <1>3 DEF UpdateSave, NextVersie

LEMMA StepSaves ==
  ASSUME IInv, NEW v, NEW row, SaveVersie(v, row)
  PROVE  VersionStep
<1>1. DOMAIN eio' = DOMAIN eio
  BY DEF SaveVersie, IInv, TypeOK, IsTable
<1>2. canonical'.stand = canonical.stand
  BY DEF SaveVersie, Trigger, IInv, TypeOK
<1>. QED BY <1>1, <1>2 DEF VersionStep, Keeps

LEMMA NextVersionStep == BoundsAssumption /\ IInv /\ [Next]_vars => VersionStep
<1> SUFFICES ASSUME BoundsAssumption, IInv, [Next]_vars PROVE VersionStep
  OBVIOUS
<1>1. ASSUME UNCHANGED eio, canonical'.stand = canonical.stand PROVE VersionStep
  BY <1>1 DEF VersionStep, Keeps
<1>2. ASSUME NEW omvang \in Omvang, Create(omvang) PROVE VersionStep
  BY <1>2, StepCreates
<1>3. ASSUME NEW lock, NEW latest, SaveCanonical(lock, latest)
      PROVE  canonical'.stand = canonical.stand
  BY <1>3 DEF SaveCanonical, IInv, TypeOK
<1>4. ASSUME NEW r \in Requests, NEW file \in Omvang \cup {"zelfde"}, UpdateSave(r, file)
      PROVE  VersionStep
  BY <1>4, StepUpdates
<1>5. ASSUME NEW r \in Requests, Destroy(r) PROVE VersionStep
  BY <1>1, <1>5 DEF Destroy, VersionStep, Destroys, Bestaat, Protected
<1>6. ASSUME NEW r \in Requests, UnlockMerge(r) \/ UnlockForget(r) \/ RechtSave(r)
             \/ RechtDelete(r)
      PROVE  VersionStep
  BY <1>1, <1>6, StepSaves DEF UnlockMerge, UnlockForget, RechtSave, RechtDelete
<1>7. ASSUME NEW r \in Requests, LockSave(r) \/ UnlockSave(r) PROVE VersionStep
  <2>1. UNCHANGED docVars
    BY <1>7 DEF LockSave, UnlockSave
  <2>2. canonical'.stand = canonical.stand
    BY <1>3, <1>7 DEF LockSave, UnlockSave
  <2>. QED BY <1>1, <2>1, <2>2 DEF docVars
<1>8. ASSUME NEW r \in Requests,
             \/ LockRead(r) \/ ForceUnlockRead(r)
             \/ UnlockEmpty(r) \/ UnlockParts(r) \/ UnlockDone(r)
             \/ UploadSave(r) \/ RechtRead(r) \/ DestroyRead(r) \/ UpdateRollback(r)
             \/ Crash(r)
      PROVE  VersionStep
  BY <1>1, <1>8 DEF LockRead, ForceUnlockRead, UnlockEmpty, UnlockParts, UnlockDone,
            UploadSave, RechtRead, DestroyRead, UpdateRollback, Crash, docVars
<1>9. ASSUME NEW r \in Requests, NEW n \in Deel, UnlockWipe(r, n) PROVE VersionStep
  BY <1>1, <1>9 DEF UnlockWipe
<1>10. ASSUME NEW r \in Requests, NEW n \in Deel, NEW cleared \in BOOLEAN,
              CrashInWipe(r, n, cleared)
       PROVE  VersionStep
  BY <1>1, <1>10 DEF CrashInWipe
<1>11. ASSUME NEW r \in Requests, NEW lock \in Lock, UnlockRead(r, lock) PROVE VersionStep
  BY <1>1, <1>11 DEF UnlockRead, docVars
<1>12. ASSUME NEW r \in Requests, NEW lock \in Lock, NEW op \in {"patch", "put"},
              UpdateRead(r, lock, op)
       PROVE  VersionStep
  BY <1>1, <1>12 DEF UpdateRead, docVars
<1>13. ASSUME NEW r \in Requests, NEW lock \in Lock, NEW nr \in Deel, UploadRead(r, lock, nr)
       PROVE  VersionStep
  BY <1>1, <1>13 DEF UploadRead, docVars
<1>14. ASSUME NEW r \in Requests, NEW pk \in rechten, RechtDeleteRead(r, pk) PROVE VersionStep
  BY <1>1, <1>14 DEF RechtDeleteRead, docVars
<1>15. ASSUME NEW r \in Requests, NEW object \in {"zaak", "besluit"},
              Relate(r, object) \/ Unrelate(r, object)
       PROVE  VersionStep
  BY <1>1, <1>15 DEF Relate, Unrelate, docVars
<1>16. CASE UNCHANGED vars
  BY <1>1, <1>16 DEF vars
<1>. QED
  BY <1>2, <1>4, <1>5, <1>6, <1>7, <1>8, <1>9, <1>10, <1>11, <1>12, <1>13, <1>14, <1>15, <1>16
     DEF Next

\* No version is stored but for a request that named a lock which had been
\* handed out.
THEOREM LockNeeded == Spec => VersionsNeedLock
<1>. DEFINE A == \A v \in DOMAIN eio' \ (DOMAIN eio \cup {1}) :
                    \E r \in Requests : /\ req[r].fase = "update_save"
                                        /\ req[r].lock \in 1..locks
                                        /\ req[r].versie + 1 = v
<1>1. IInv /\ [Next]_vars => A
  <2>1. ASSUME VersionStep PROVE A
    <3>1. CASE Keeps \/ Creates \/ Destroys
      BY <3>1 DEF Keeps, Creates, Destroys
    <3>2. ASSUME NEW r \in Requests, Updates(r) PROVE A
      <4>1. \A v \in DOMAIN eio' \ DOMAIN eio : v = req[r].versie + 1
        BY <3>2, BoundsAssumption DEF Updates, Versie, BoundsAssumption
      <4>. QED BY <3>2, <4>1 DEF Updates
    <3>. QED BY <2>1, <3>1, <3>2 DEF VersionStep
  <2>. QED BY <2>1, NextVersionStep, BoundsAssumption
<1>. HIDE DEF A
<1>2. Spec => [][A]_vars
  BY <1>1, Invariance, PTL DEF Spec
<1>. QED BY <1>2 DEF VersionsNeedLock, A

\* A document that a zaak refers to is not destroyed by a request that checked
\* for relations before that one was made.
THEOREM KeptForZaak == Spec => ZaakKeepsDocument
<1>1. IInv /\ [Next]_vars => (Bestaat /\ "zaak" \in relaties => Bestaat')
  <2>1. VersionStep => (Bestaat /\ "zaak" \in relaties => Bestaat')
    BY DEF VersionStep, Keeps, Creates, Updates, Destroys, Bestaat
  <2>. QED BY <2>1, NextVersionStep, BoundsAssumption
<1>. QED BY <1>1, Invariance, PTL DEF Spec, ZaakKeepsDocument

\* However requests interleave, the versions of a document are an append-only
\* log.
THEOREM IsVersionLog == Spec => ImplementsVersionLog
<1>1. Init => Log!Init
  BY DEF Init, Log!Init
<1>2. IInv /\ [Next]_vars => [Log!Next]_<<DOMAIN eio, canonical.stand = "vernietigd">>
  <2> SUFFICES ASSUME VersionStep
               PROVE  [Log!Next]_<<DOMAIN eio, canonical.stand = "vernietigd">>
    BY NextVersionStep, BoundsAssumption
  <2>1. CASE Keeps
    BY <2>1 DEF Keeps
  <2>2. CASE Creates
    <3>1. DOMAIN eio = 1..0 /\ DOMAIN eio' = 1..(0 + 1)
      BY <2>2 DEF Creates
    <3>. QED BY <2>2, <3>1 DEF Creates, Log!Next, Log!Append
  <2>3. ASSUME NEW r \in Requests, Updates(r) PROVE Log!Append
    <3>1. req[r].versie \in DOMAIN eio
      BY <2>3, BoundsAssumption DEF Updates, Versie, BoundsAssumption
    <3>. QED BY <2>3, <3>1 DEF Updates, Log!Append
  <2>4. CASE Destroys
    BY <2>4 DEF Destroys, Log!Next, Log!Destroy
  <2>. QED BY <2>1, <2>2, <2>3, <2>4 DEF VersionStep, Log!Next
<1>. QED BY <1>1, <1>2, Invariance, PTL DEF Spec, ImplementsVersionLog, Log!Spec


-----------------------------------------------------------------------------
(* Requests that follow each other: nobody else is between a read and a    *)
(* write, so that what a request read still holds when it writes.          *)

\* What a request read of the row of the document, its versions and its parts.
Gelezen(q) ==
  /\ q.fase # "vrij" => Bestaat
  /\ q.fase \in {"lock_save", "delete"} => canonical.lock = NoLock
  /\ q.fase \in {"lock_save", "unlock_save"} => q.latest = Recentste
  /\ q.fase = "unlock_save" /\ ~q.opt => q.lock = canonical.lock
  /\ q.fase = "update_save" => canonical.lock # NoLock /\ q.delen = delen
  /\ q.fase \in {"unlock_save", "merge", "parts", "update_save", "recht_save", "recht_delete"}
       => q.versie = Recentste
  /\ q.fase = "upload_save" => q.pk \in DOMAIN delen /\ q.delen[q.pk] = delen[q.pk]

DocActueel == LatestIsNewest /\ PartsOfNewest /\ LockHolder

Actueel == DocActueel /\ \A r \in Requests : Gelezen(req[r])

\* A request that stores q, while nobody else is served.
Alleen(r, q) ==
  /\ req' = [req EXCEPT ![r] = q]
  /\ \A s \in Requests : s # r => req'[s].fase = "vrij"

LEMMA VrijGelezen ==
  ASSUME NEW q, q.fase = "vrij"
  PROVE  Gelezen(q) /\ Gelezen(q)'
BY DEF Gelezen

LEMMA Anderen ==
  ASSUME EenTegelijk, NEW r \in Requests, req[r].fase # "vrij"
  PROVE  \A s \in Requests : s # r => req[s].fase = "vrij"
BY DEF EenTegelijk

LEMMA NaAlleen ==
  ASSUME TypeOK, NEW r \in Requests, NEW q, Alleen(r, q), Gelezen(q)', DocActueel'
  PROVE  Actueel'
<1>1. ASSUME NEW s \in Requests PROVE Gelezen(req[s])'
  <2>1. CASE s = r
    BY <2>1 DEF Alleen, TypeOK
  <2>2. CASE s # r
    <3>1. PICK p : p = req'[s]
      OBVIOUS
    <3>2. p.fase = "vrij"
      BY <2>2, <3>1 DEF Alleen
    <3>3. Gelezen(p)'
      BY <3>2, VrijGelezen
    <3> QED BY <3>1, <3>3
  <2> QED BY <2>1, <2>2
<1> QED BY <1>1 DEF Actueel

\* A request that stops.
LEMMA KlaarActueel ==
  ASSUME TypeOK, EenTegelijk, NEW r \in Requests, req[r].fase # "vrij", Finish(r), DocActueel'
  PROVE  Actueel'
<1>1. Idle.fase = "vrij"
  BY DEF Idle
<1>2. Gelezen(Idle)'
  BY <1>1, VrijGelezen
<1>3. Alleen(r, Idle)
  <2>1. \A s \in Requests : s # r => req[s].fase = "vrij"
    BY Anderen
  <2> QED BY <2>1 DEF Finish, Alleen, TypeOK
<1> QED BY <1>2, <1>3, NaAlleen

\* A request that goes on.
LEMMA VerderAlleen ==
  ASSUME TypeOK, EenTegelijk, NEW r \in Requests, req[r].fase # "vrij", NEW q,
         req' = [req EXCEPT ![r] = q]
  PROVE  Alleen(r, q)
<1>1. \A s \in Requests : s # r => req[s].fase = "vrij"
  BY Anderen
<1> QED BY <1>1 DEF Alleen, TypeOK

\* A request that starts.
LEMMA BeginAlleen ==
  ASSUME TypeOK, EenTegelijk', NEW r \in Requests, NEW fase \in Fases \ {"vrij"}, NEW snap \in ReqType,
         Start(r, fase, snap)
  PROVE  Alleen(r, [snap EXCEPT !.fase = fase])
<1>1. req'[r].fase = fase
  BY DEF Start, TypeOK, ReqType
<1>2. \A s \in Requests : s # r => req'[s].fase = "vrij"
  BY <1>1 DEF EenTegelijk
<1> QED BY <1>2 DEF Alleen, Start

\* What DocActueel is about does not change.
LEMMA DocBlijft ==
  ASSUME DocActueel, UNCHANGED <<canonical, uitgegeven, delen>>, DOMAIN eio' = DOMAIN eio
  PROVE  DocActueel' /\ Recentste' = Recentste /\ (Bestaat' <=> Bestaat)
<1>1. Recentste' = Recentste /\ (Bestaat' <=> Bestaat)
  BY DEF Recentste, Bestaat
<1> QED BY <1>1 DEF DocActueel, LatestIsNewest, PartsOfNewest, LockHolder

LEMMA GelezenBlijft ==
  ASSUME UNCHANGED <<canonical, delen>>, DOMAIN eio' = DOMAIN eio, NEW q, Gelezen(q)
  PROVE  Gelezen(q)'
<1>1. Recentste' = Recentste /\ (Bestaat' <=> Bestaat)
  BY DEF Recentste, Bestaat
<1> QED BY <1>1 DEF Gelezen

-----------------------------------------------------------------------------
(* Steps that read. *)

LEMMA BeginActueel ==
  ASSUME TypeOK, EenTegelijk', Actueel, NEW r \in Requests, NEW fase \in Fases \ {"vrij"},
         NEW snap \in ReqType, Start(r, fase, snap), Gelezen([snap EXCEPT !.fase = fase]),
         UNCHANGED <<canonical, docVars, uitgegeven>>
  PROVE  Actueel'
<1> DEFINE q == [snap EXCEPT !.fase = fase]
<1>1. Alleen(r, q)
  BY BeginAlleen
<1> HIDE DEF q
<1>2. UNCHANGED <<canonical, uitgegeven, delen>> /\ eio' = eio
  BY DEF docVars, fileVars
<1>3. DocActueel'
  BY <1>2, DocBlijft DEF Actueel
<1>4. Gelezen(q)'
  <2>1. Gelezen(q)
    BY DEF q
  <2> QED BY <1>2, <2>1, GelezenBlijft
<1> QED BY <1>1, <1>3, <1>4, NaAlleen

\* What was fetched is what is there.
LEMMA Opgehaald ==
  ASSUME BoundsAssumption, IInv, Bestaat
  PROVE  /\ Idle \in ReqType
         /\ FetchedCanonical \in ReqType /\ FetchedCanonical.latest = canonical.latest
         /\ FetchedDocument \in ReqType /\ FetchedDocument.latest = canonical.latest
         /\ FetchedDocument.versie = Recentste /\ FetchedDocument.lock = canonical.lock
         /\ FetchedDocument.rij = eio[Recentste] /\ FetchedDocument.opt = FALSE
         /\ FetchedAll \in ReqType /\ FetchedAll.versie = Recentste
         /\ FetchedAll.delen = delen /\ FetchedAll.rij = eio[Recentste]
         /\ FetchedLatest \in ReqType /\ FetchedLatest.versie = canonical.latest
         /\ FetchedLatest.rij = eio[canonical.latest]
<1>1. /\ FetchedCanonical \in ReqType /\ FetchedCanonical.latest = canonical.latest
      /\ FetchedDocument \in ReqType /\ FetchedDocument.latest = canonical.latest
      /\ FetchedAll \in ReqType /\ FetchedAll.versie = Recentste
      /\ FetchedLatest \in ReqType /\ Idle \in ReqType
  BY FetchedTypes, Constants DEF IInv, Coherent
<1>2. Idle = [fase |-> "vrij", lock |-> NoLock, latest |-> 0, versie |-> 1,
              rij |-> LegeRij, delen |-> NoDelen, pk |-> 1, opt |-> FALSE]
  BY DEF Idle
<1>3. FetchedLatest.versie = canonical.latest /\ FetchedLatest.rij = eio[canonical.latest]
  BY <1>2 DEF FetchedLatest
<1>4. /\ FetchedCanonical.lock = canonical.lock /\ FetchedCanonical.opt = FALSE
      /\ DOMAIN FetchedCanonical = DOMAIN Idle
  BY <1>2 DEF FetchedCanonical
<1>5. /\ FetchedDocument.versie = Recentste /\ FetchedDocument.lock = canonical.lock
      /\ FetchedDocument.rij = eio[Recentste] /\ FetchedDocument.opt = FALSE
  BY <1>1, <1>4 DEF FetchedDocument, ReqType
<1>6. FetchedAll.delen = delen /\ FetchedAll.rij = eio[Recentste]
  BY <1>1, <1>5 DEF FetchedAll, ReqType
<1> QED BY <1>1, <1>3, <1>5, <1>6

LEMMA LeesActueel ==
  ASSUME BoundsAssumption, IInv, EenTegelijk', Actueel, NEW r \in Requests,
         \/ LockRead(r) \/ ForceUnlockRead(r) \/ RechtRead(r) \/ DestroyRead(r)
         \/ \E pk \in rechten : RechtDeleteRead(r, pk)
         \/ \E lock \in Lock : UnlockRead(r, lock)
         \/ \E lock \in Lock, op \in {"patch", "put"} : UpdateRead(r, lock, op)
         \/ \E lock \in Lock, nr \in Deel : UploadRead(r, lock, nr)
  PROVE  Actueel'
<1> USE DEF Ready
<1>0. TypeOK /\ DocActueel /\ DocCoherent
  BY DEF IInv, Coherent, Actueel
<1>1. ASSUME LockRead(r) PROVE Actueel'
  <2>1. Bestaat /\ canonical.lock = NoLock /\ Start(r, "lock_save", FetchedCanonical)
        /\ UNCHANGED <<canonical, docVars, uitgegeven>>
    BY <1>1 DEF LockRead, auxVars
  <2>2. FetchedCanonical \in ReqType /\ FetchedCanonical.latest = Recentste
    BY <1>0, <2>1, Opgehaald DEF DocActueel, LatestIsNewest
  <2>3. Gelezen([FetchedCanonical EXCEPT !.fase = "lock_save"])
    BY <2>1, <2>2 DEF Gelezen, ReqType
  <2> QED BY <1>0, <2>1, <2>2, <2>3, BeginActueel DEF Fases
<1>2. ASSUME ForceUnlockRead(r) PROVE Actueel'
  <2> DEFINE snap == [FetchedDocument EXCEPT !.opt = TRUE]
  <2>1. Bestaat /\ Start(r, "unlock_save", snap) /\ UNCHANGED <<canonical, docVars, uitgegeven>>
    BY <1>2 DEF ForceUnlockRead, auxVars
  <2>2. FetchedDocument \in ReqType /\ FetchedDocument.latest = Recentste
        /\ FetchedDocument.versie = Recentste
    BY <1>0, <2>1, Opgehaald DEF DocActueel, LatestIsNewest
  <2>3. snap \in ReqType /\ snap.latest = Recentste /\ snap.versie = Recentste /\ snap.opt
    BY <2>2 DEF ReqType
  <2> HIDE DEF snap
  <2>4. Gelezen([snap EXCEPT !.fase = "unlock_save"])
    BY <2>1, <2>3 DEF Gelezen, ReqType
  <2> QED BY <1>0, <2>1, <2>3, <2>4, BeginActueel DEF Fases
<1>3. ASSUME NEW lock \in Lock, UnlockRead(r, lock) PROVE Actueel'
  <2>1. Bestaat /\ UNCHANGED <<canonical, docVars, uitgegeven>>
    BY <1>3 DEF UnlockRead
  <2>2. CASE Start(r, "unlock_save", FetchedDocument)
    <3>1. FetchedDocument \in ReqType /\ FetchedDocument.latest = Recentste
          /\ FetchedDocument.versie = Recentste /\ FetchedDocument.lock = canonical.lock
      BY <1>0, <2>1, Opgehaald DEF DocActueel, LatestIsNewest
    <3>2. Gelezen([FetchedDocument EXCEPT !.fase = "unlock_save"])
      BY <2>1, <3>1 DEF Gelezen, ReqType
    <3> QED BY <1>0, <2>1, <2>2, <3>1, <3>2, BeginActueel DEF Fases
  <2>3. CASE UNCHANGED req
    <3>1. DocActueel'
      BY <1>0, <2>1, DocBlijft DEF docVars, fileVars
    <3>2. ASSUME NEW s \in Requests PROVE Gelezen(req[s])'
      <4>1. PICK q : q = req[s]
        OBVIOUS
      <4>2. Gelezen(q)
        BY <4>1 DEF Actueel
      <4>3. Gelezen(q)'
        BY <2>1, <4>2, GelezenBlijft DEF docVars, fileVars
      <4> QED BY <2>3, <4>1, <4>3
    <3> QED BY <3>1, <3>2 DEF Actueel
  <2> QED BY <1>3, <2>2, <2>3 DEF UnlockRead
<1>4. ASSUME NEW lock \in Lock, NEW op \in {"patch", "put"}, UpdateRead(r, lock, op)
      PROVE  Actueel'
  <2> DEFINE snap == [FetchedAll EXCEPT !.opt = (op = "put")]
  <2>1. Bestaat /\ Start(r, "update_save", snap) /\ UNCHANGED <<canonical, docVars, uitgegeven>>
        /\ canonical.lock # NoLock
    BY <1>4 DEF UpdateRead, auxVars
  <2>2. FetchedAll \in ReqType /\ FetchedAll.versie = Recentste /\ FetchedAll.delen = delen
    BY <1>0, <2>1, Opgehaald
  <2>3. snap \in ReqType /\ snap.versie = Recentste /\ snap.delen = delen
    BY <2>2 DEF ReqType
  <2> HIDE DEF snap
  <2>4. Gelezen([snap EXCEPT !.fase = "update_save"])
    BY <2>1, <2>3 DEF Gelezen, ReqType
  <2> QED BY <1>0, <2>1, <2>3, <2>4, BeginActueel DEF Fases
<1>5. ASSUME NEW lock \in Lock, NEW nr \in Deel, UploadRead(r, lock, nr) PROVE Actueel'
  <2> DEFINE snap == [Idle EXCEPT !.pk = nr, !.delen = Put(NoDelen, nr, delen[nr])]
  <2>1. Bestaat /\ Start(r, "upload_save", snap) /\ UNCHANGED <<canonical, docVars, uitgegeven>>
        /\ nr \in DOMAIN delen
    BY <1>5 DEF UploadRead, auxVars
  <2>2. delen[nr] \in DeelRow /\ IsTable(NoDelen, Deel, DeelRow)
    BY <1>0, <2>1, Constants DEF TypeOK, IsTable
  <2>3. Put(NoDelen, nr, delen[nr]) \in Tables(Deel, DeelRow)
    BY <2>2, TablePut, TablesDef
  <2>4. nr \in Nat
    BY BoundsAssumption DEF Deel
  <2>5. snap \in ReqType /\ snap.pk = nr /\ snap.delen = Put(NoDelen, nr, delen[nr])
    BY <2>1, <2>3, <2>4, Opgehaald DEF ReqType
  <2> HIDE DEF snap
  <2>6. snap.delen[nr] = delen[nr]
    BY <2>5 DEF Put
  <2>7. Gelezen([snap EXCEPT !.fase = "upload_save"])
    BY <2>1, <2>5, <2>6 DEF Gelezen, ReqType
  <2> QED BY <1>0, <2>1, <2>5, <2>7, BeginActueel DEF Fases
<1>6. ASSUME RechtRead(r) PROVE Actueel'
  <2>1. Bestaat /\ Start(r, "recht_save", FetchedLatest) /\ UNCHANGED <<canonical, docVars, uitgegeven>>
    BY <1>6 DEF RechtRead, auxVars
  <2>2. FetchedLatest \in ReqType /\ FetchedLatest.versie = Recentste
    BY <1>0, <2>1, Opgehaald DEF DocActueel, LatestIsNewest
  <2>3. Gelezen([FetchedLatest EXCEPT !.fase = "recht_save"])
    BY <2>1, <2>2 DEF Gelezen, ReqType
  <2> QED BY <1>0, <2>1, <2>2, <2>3, BeginActueel DEF Fases
<1>7. ASSUME NEW pk \in rechten, RechtDeleteRead(r, pk) PROVE Actueel'
  <2> DEFINE snap == [FetchedLatest EXCEPT !.pk = pk, !.opt = (rechten = {pk})]
  <2>1. Bestaat /\ Start(r, "recht_delete", snap) /\ UNCHANGED <<canonical, docVars, uitgegeven>>
    BY <1>7 DEF RechtDeleteRead, auxVars
  <2>2. FetchedLatest \in ReqType /\ FetchedLatest.versie = Recentste
    BY <1>0, <2>1, Opgehaald DEF DocActueel, LatestIsNewest
  <2>0. pk \in Nat
    BY <1>0 DEF TypeOK
  <2>3. snap \in ReqType /\ snap.versie = Recentste
    BY <2>0, <2>2 DEF ReqType
  <2> HIDE DEF snap
  <2>4. Gelezen([snap EXCEPT !.fase = "recht_delete"])
    BY <2>1, <2>3 DEF Gelezen, ReqType
  <2> QED BY <1>0, <2>1, <2>3, <2>4, BeginActueel DEF Fases
<1>8. ASSUME DestroyRead(r) PROVE Actueel'
  <2>1. Bestaat /\ canonical.lock = NoLock /\ Start(r, "delete", Idle)
        /\ UNCHANGED <<canonical, docVars, uitgegeven>>
    BY <1>8 DEF DestroyRead, auxVars
  <2>2. Idle \in ReqType
    BY Constants
  <2>3. Gelezen([Idle EXCEPT !.fase = "delete"])
    BY <2>1, <2>2 DEF Gelezen, ReqType
  <2> QED BY <1>0, <2>1, <2>2, <2>3, BeginActueel DEF Fases
<1> QED BY <1>1, <1>2, <1>3, <1>4, <1>5, <1>6, <1>7, <1>8

-----------------------------------------------------------------------------
(* Steps that write. *)

\* A version is saved: the versions, the pointer and the lock stay as they are.
LEMMA BewaardActueel ==
  ASSUME IInv, Actueel, Bestaat, NEW v, NEW row, SaveVersie(v, row),
         UNCHANGED <<delen, uitgegeven>>
  PROVE  DocActueel' /\ canonical' = canonical /\ DOMAIN eio' = DOMAIN eio
<1>1. DOMAIN eio' = DOMAIN eio
  BY DEF SaveVersie, IInv, TypeOK, IsTable
<1>2. canonical.latest = Recentste
  BY DEF Actueel, DocActueel, LatestIsNewest
<1>3. canonical' = canonical
  BY <1>2 DEF SaveVersie, Trigger, Recentste, IInv, TypeOK
<1>4. DocActueel
  BY DEF Actueel
<1> QED BY <1>1, <1>3, <1>4, DocBlijft

LEMMA CreateActueel ==
  ASSUME IInv, Actueel, NEW omvang \in Omvang, Create(omvang)
  PROVE  Actueel'
<1>1. DOMAIN eio' = 1..1
  <2>1. DOMAIN eio = {} /\ DOMAIN eio' = DOMAIN eio \cup {1}
    BY DEF Create, Put, IInv, Coherent, DocCoherent, Bestaat
  <2> QED BY <2>1
<1>2. Recentste' = 1
  <2>1. 1 \in Nat \ {0}
    OBVIOUS
  <2>2. MaxOf(1..1) = 1
    BY <2>1, MaxOfInterval
  <2> QED BY <1>1, <2>2 DEF Recentste
<1>8. canonical' = [stand |-> "bestaat", lock |-> locks', latest |-> 1]
  BY DEF Create
<1>9. req' = req /\ canonical.stand = "nieuw"
  BY DEF Create
<1>3. /\ canonical' = [stand |-> "bestaat", lock |-> locks', latest |-> 1]
      /\ req' = req /\ canonical.stand = "nieuw"
  BY <1>8, <1>9
<1>4. (locks' = 1 /\ uitgegeven' = {1}) \/ (locks' = 0 /\ uitgegeven' = {})
  BY DEF Create
<1>7. \A n \in DOMAIN delen' : delen'[n].gen = 1
  <2>1. delen' = NewDelen(1) \/ delen' = NoDelen
    BY DEF Create
  <2>2. \A n \in DOMAIN NewDelen(1) : NewDelen(1)[n].gen = 1
    BY DEF NewDelen
  <2>3. DOMAIN NoDelen = {}
    BY DEF NoDelen
  <2> QED BY <2>1, <2>2, <2>3
<1>5. DocActueel'
  BY <1>2, <1>3, <1>4, <1>7 DEF DocActueel, LatestIsNewest, PartsOfNewest, LockHolder, NoLock
<1>6. \A r \in Requests : Gelezen(req[r])'
  <2>1. ASSUME NEW r \in Requests PROVE Gelezen(req[r])'
    <3>1. PICK q : q = req[r]
      OBVIOUS
    <3>2. q.fase = "vrij"
      BY <1>3, <3>1 DEF IInv, Coherent, ReqCoherent
    <3>3. Gelezen(q)'
      BY <3>2, VrijGelezen
    <3> QED BY <1>3, <3>1, <3>3
  <2> QED BY <2>1
<1> QED BY <1>5, <1>6 DEF Actueel

LEMMA LockSaveActueel ==
  ASSUME IInv, EenTegelijk, Actueel, NEW r \in Requests, LockSave(r)
  PROVE  Actueel'
<1>1. /\ Bestaat /\ canonical.lock = NoLock /\ req[r].latest = Recentste
      /\ req[r].fase # "vrij" /\ Finish(r) /\ UNCHANGED docVars
  BY DEF LockSave, Actueel, Gelezen
<1>2. /\ locks' = locks + 1 /\ uitgegeven' = uitgegeven \cup {locks'}
      /\ SaveCanonical(locks', req[r].latest) /\ locks \in Nat
  BY <1>1 DEF LockSave, IInv, TypeOK, Lock
<1>3. canonical'.lock = locks' /\ canonical'.latest = Recentste /\ Recentste' = Recentste
  BY <1>1, <1>2 DEF SaveCanonical, IInv, TypeOK, docVars, Recentste
<1>4. uitgegeven = {}
  BY <1>1 DEF Actueel, DocActueel, LockHolder
<1>5. DocActueel'
  BY <1>1, <1>2, <1>3, <1>4
     DEF Actueel, DocActueel, LatestIsNewest, PartsOfNewest, LockHolder, NoLock, docVars, fileVars
<1> QED BY <1>1, <1>5, KlaarActueel DEF IInv

LEMMA UnlockSaveActueel ==
  ASSUME IInv, EenTegelijk, Actueel, NEW r \in Requests, UnlockSave(r)
  PROVE  Actueel'
<1>1. PICK q : q = req[r]
  OBVIOUS
<1>2. /\ Bestaat /\ q.latest = Recentste /\ q.versie = Recentste /\ q.fase = "unlock_save"
      /\ ~q.opt => q.lock = canonical.lock
  BY <1>1 DEF UnlockSave, Actueel, Gelezen
<1>3. /\ SaveCanonical(NoLock, q.latest) /\ uitgegeven' = IF q.opt THEN {} ELSE uitgegeven \ {q.lock}
      /\ req' = [req EXCEPT ![r] = [q EXCEPT !.fase = "merge"]] /\ UNCHANGED docVars
  BY <1>1, <1>2 DEF UnlockSave, Continue
<1>4. /\ canonical'.lock = NoLock /\ canonical'.latest = Recentste /\ Recentste' = Recentste
      /\ canonical'.stand = canonical.stand
  BY <1>2, <1>3 DEF SaveCanonical, IInv, TypeOK, docVars, Recentste
<1>5. uitgegeven = {canonical.lock} \ {NoLock}
  BY <1>2 DEF Actueel, DocActueel, LockHolder
<1>6. DocActueel'
  BY <1>2, <1>3, <1>4, <1>5
     DEF Actueel, DocActueel, LatestIsNewest, PartsOfNewest, LockHolder, docVars, fileVars
<1>7. PICK p : p = [q EXCEPT !.fase = "merge"]
  OBVIOUS
<1>8. p.fase = "merge" /\ p.versie = q.versie
  BY <1>1, <1>7 DEF IInv, TypeOK, ReqType
<1>9. Gelezen(p)'
  BY <1>2, <1>4, <1>8 DEF Gelezen, Bestaat
<1>10. Alleen(r, p)
  BY <1>1, <1>2, <1>3, <1>7, VerderAlleen DEF IInv
<1> QED BY <1>6, <1>9, <1>10, NaAlleen DEF IInv

LEMMA MergeActueel ==
  ASSUME IInv, EenTegelijk, Actueel, NEW r \in Requests, UnlockMerge(r)
  PROVE  Actueel'
<1>1. PICK q : q = req[r]
  OBVIOUS
<1>2. q.fase = "merge" /\ Bestaat /\ q.versie = Recentste /\ UNCHANGED <<delen, uitgegeven>>
  BY <1>1 DEF UnlockMerge, Actueel, Gelezen, fileVars
<1>3. CASE Finish(r) /\ UNCHANGED <<canonical, eio>>
  <2>1. DocActueel'
    BY <1>2, <1>3, DocBlijft DEF Actueel
  <2> QED BY <1>1, <1>2, <1>3, <2>1, KlaarActueel DEF IInv
<1>4. ASSUME NEW row, SaveVersie(q.versie, row),
             req' = [req EXCEPT ![r].fase = "wipe", ![r].delen = delen]
      PROVE  Actueel'
  <2>1. DocActueel' /\ canonical' = canonical /\ DOMAIN eio' = DOMAIN eio
    BY <1>2, <1>4, BewaardActueel
  <2>2. PICK p : p = [q EXCEPT !.fase = "wipe", !.delen = delen]
    OBVIOUS
  <2>3. p.fase = "wipe" /\ req' = [req EXCEPT ![r] = p]
    BY <1>1, <1>4, <2>2 DEF IInv, TypeOK, ReqType
  <2>4. Gelezen(p)'
    BY <1>2, <2>1, <2>3 DEF Gelezen, Bestaat
  <2>5. Alleen(r, p)
    BY <1>1, <1>2, <2>3, VerderAlleen DEF IInv
  <2> QED BY <2>1, <2>4, <2>5, NaAlleen DEF IInv
<1> QED BY <1>1, <1>3, <1>4 DEF UnlockMerge

LEMMA ForgetActueel ==
  ASSUME IInv, EenTegelijk, Actueel, NEW r \in Requests, UnlockForget(r)
  PROVE  Actueel'
<1>1. PICK q : q = req[r]
  OBVIOUS
<1>2. q.fase = "merge" /\ Bestaat /\ q.versie = Recentste /\ UNCHANGED <<delen, uitgegeven>>
  BY <1>1 DEF UnlockForget, Actueel, Gelezen, fileVars, auxVars
<1>3. DocActueel' /\ canonical' = canonical /\ DOMAIN eio' = DOMAIN eio
  BY <1>2, BewaardActueel DEF UnlockForget
<1>4. PICK p : p = [q EXCEPT !.fase = "parts"]
  OBVIOUS
<1>5. p.fase = "parts" /\ p.versie = q.versie /\ req' = [req EXCEPT ![r] = p]
  BY <1>1, <1>4 DEF UnlockForget, Continue, IInv, TypeOK, ReqType
<1>6. Gelezen(p)'
  BY <1>2, <1>3, <1>5 DEF Gelezen, Bestaat, Recentste
<1>7. Alleen(r, p)
  BY <1>1, <1>2, <1>5, VerderAlleen DEF IInv
<1> QED BY <1>3, <1>6, <1>7, NaAlleen DEF IInv

LEMMA PartsActueel ==
  ASSUME IInv, EenTegelijk, Actueel, NEW r \in Requests, UnlockParts(r)
  PROVE  Actueel'
<1>1. PICK q : q = req[r]
  OBVIOUS
<1>2. q.fase = "parts" /\ Bestaat /\ UNCHANGED <<canonical, delen, uitgegeven>> /\ eio' = eio
  BY <1>1 DEF UnlockParts, Actueel, Gelezen, docVars, fileVars, auxVars
<1>3. DocActueel'
  BY <1>2, DocBlijft DEF Actueel
<1>4. PICK p : p = [q EXCEPT !.fase = "wipe", !.delen = delen]
  OBVIOUS
<1>5. p.fase = "wipe" /\ req' = [req EXCEPT ![r] = p]
  BY <1>1, <1>4 DEF UnlockParts, IInv, TypeOK, ReqType
<1>6. Gelezen(p)'
  BY <1>2, <1>5 DEF Gelezen, Bestaat
<1>7. Alleen(r, p)
  BY <1>1, <1>2, <1>5, VerderAlleen DEF IInv
<1> QED BY <1>3, <1>6, <1>7, NaAlleen DEF IInv

\* Parts that go, or lose their file, leave those of the newest version.
LEMMA MinderDelen ==
  ASSUME Actueel, UNCHANGED <<canonical, eio, uitgegeven>>,
         \A n \in DOMAIN delen' : n \in DOMAIN delen /\ delen'[n].gen = delen[n].gen
  PROVE  DocActueel'
<1>1. Recentste' = Recentste /\ (Bestaat' <=> Bestaat)
  BY DEF Recentste, Bestaat
<1> QED BY <1>1 DEF Actueel, DocActueel, LatestIsNewest, PartsOfNewest, LockHolder

LEMMA WipeActueel ==
  ASSUME IInv, EenTegelijk, Actueel, NEW r \in Requests, NEW n \in Deel, UnlockWipe(r, n)
  PROVE  Actueel'
<1>1. PICK q : q = req[r]
  OBVIOUS
<1>2. /\ q.fase = "wipe" /\ Bestaat /\ UNCHANGED <<canonical, eio, uitgegeven>>
      /\ delen' = Without(delen, {n} \cap SameRows(delen, q.delen))
      /\ req' = [req EXCEPT ![r].delen = Without(q.delen, {n})]
  BY <1>1 DEF UnlockWipe, WipeNext, Actueel, Gelezen, auxVars
<1>3. DocActueel'
  BY <1>2, MinderDelen DEF Without
<1>4. PICK p : p = [q EXCEPT !.delen = Without(q.delen, {n})]
  OBVIOUS
<1>5. p.fase = "wipe" /\ req' = [req EXCEPT ![r] = p]
  BY <1>1, <1>2, <1>4 DEF IInv, TypeOK, ReqType
<1>6. Gelezen(p)'
  BY <1>2, <1>5 DEF Gelezen, Bestaat
<1>7. Alleen(r, p)
  BY <1>1, <1>2, <1>5, VerderAlleen DEF IInv
<1> QED BY <1>3, <1>6, <1>7, NaAlleen DEF IInv

LEMMA CrashInWipeActueel ==
  ASSUME IInv, EenTegelijk, Actueel, NEW r \in Requests, NEW n \in Deel, NEW cleared \in BOOLEAN,
         CrashInWipe(r, n, cleared)
  PROVE  Actueel'
<1>1. /\ req[r].fase = "wipe" /\ Finish(r) /\ UNCHANGED <<canonical, eio, uitgegeven>>
      /\ delen' = delen \/ delen' = [delen EXCEPT ![n].file = 0]
  BY DEF CrashInWipe, WipeNext
<1>2. \A m \in DOMAIN delen' : m \in DOMAIN delen /\ delen'[m].gen = delen[m].gen
  BY <1>1 DEF IInv, TypeOK, IsTable, DeelRow
<1>3. DocActueel'
  BY <1>1, <1>2, MinderDelen
<1> QED BY <1>1, <1>3, KlaarActueel DEF IInv

LEMMA UpdateSaveActueel ==
  ASSUME BoundsAssumption, IInv, EenTegelijk, Actueel, NEW r \in Requests,
         NEW file \in Omvang \cup {"zelfde"}, UpdateSave(r, file)
  PROVE  Actueel'
<1>1. PICK q : q = req[r]
  OBVIOUS
<1>2. q.fase = "update_save" /\ Bestaat /\ q.versie = Recentste /\ q.delen = delen /\ Finish(r)
  BY <1>1 DEF UpdateSave, Actueel, Gelezen
<1>3. PICK v \in Versie : v = Recentste /\ DOMAIN eio = 1..v
  BY <1>2, RecentsteLast DEF IInv, Coherent
<1>4. uitgegeven' = uitgegeven
  BY DEF UpdateSave, auxVars
<1>5. CASE UNCHANGED <<canonical, eio, delen>>
  <2>1. DocActueel'
    BY <1>4, <1>5, DocBlijft DEF Actueel
  <2> QED BY <1>1, <1>2, <2>1, KlaarActueel DEF IInv
<1>6. ASSUME NEW row, eio' = Put(eio, v + 1, row), canonical' = Trigger(canonical, eio'),
             delen' = NewDelen(v + 1) \/ delen' = Without(delen, SameRows(delen, q.delen))
      PROVE  Actueel'
  <2>1. DOMAIN eio' = 1..(v + 1) /\ v + 1 \in Nat \ {0}
    BY <1>3, <1>6 DEF Put, Versie, BoundsAssumption
  <2>2. Recentste' = v + 1 /\ MaxOf(DOMAIN eio') = v + 1
    BY <2>1, MaxOfInterval DEF Recentste
  <2>3. canonical'.latest = v + 1 /\ canonical'.lock = canonical.lock
        /\ canonical'.stand = canonical.stand
    BY <1>6, <2>2 DEF Trigger, IInv, TypeOK
  <2>4. \A n \in DOMAIN delen' : delen'[n].gen = v + 1
    <3>1. CASE delen' = NewDelen(v + 1)
      BY <3>1 DEF NewDelen
    <3>2. CASE delen' = Without(delen, SameRows(delen, q.delen))
      BY <1>2, <3>2 DEF Without, SameRows
    <3> QED BY <1>6, <3>1, <3>2
  <2>5. uitgegeven = {canonical.lock} \ {NoLock}
    BY <1>2 DEF Actueel, DocActueel, LockHolder
  <2>6. DocActueel'
    BY <1>4, <2>2, <2>3, <2>4, <2>5 DEF DocActueel, LatestIsNewest, PartsOfNewest, LockHolder
  <2> QED BY <1>1, <1>2, <2>6, KlaarActueel DEF IInv
<1> QED BY <1>1, <1>2, <1>3, <1>5, <1>6 DEF UpdateSave, NextVersie

LEMMA UploadSaveActueel ==
  ASSUME IInv, EenTegelijk, Actueel, NEW r \in Requests, UploadSave(r)
  PROVE  Actueel'
<1>1. PICK q : q = req[r]
  OBVIOUS
<1>2. /\ q.fase = "upload_save" /\ Bestaat /\ q.pk \in DOMAIN delen /\ q.delen[q.pk] = delen[q.pk]
      /\ Finish(r) /\ UNCHANGED <<canonical, eio, uitgegeven>>
  BY <1>1 DEF UploadSave, Actueel, Gelezen, auxVars
<1>3. delen' = delen \/ delen' = Put(delen, q.pk, [gen |-> delen[q.pk].gen, file |-> uploads'])
  BY <1>1, <1>2 DEF UploadSave
<1>4. \A n \in DOMAIN delen' : n \in DOMAIN delen /\ delen'[n].gen = delen[n].gen
  BY <1>2, <1>3 DEF Put
<1>5. DocActueel'
  BY <1>2, <1>4, MinderDelen
<1> QED BY <1>1, <1>2, <1>5, KlaarActueel DEF IInv

LEMMA RechtActueel ==
  ASSUME IInv, EenTegelijk, Actueel, NEW r \in Requests, RechtSave(r) \/ RechtDelete(r)
  PROVE  Actueel'
<1>1. /\ req[r].fase # "vrij" /\ Finish(r) /\ Bestaat /\ UNCHANGED <<delen, uitgegeven>>
  BY DEF RechtSave, RechtDelete, Actueel, Gelezen, fileVars, auxVars
<1>2. ASSUME UNCHANGED <<canonical, eio>> PROVE Actueel'
  <2>1. DocActueel'
    BY <1>1, <1>2, DocBlijft DEF Actueel
  <2> QED BY <1>1, <2>1, KlaarActueel DEF IInv
<1>3. ASSUME NEW v, NEW row, SaveVersie(v, row) PROVE Actueel'
  <2>1. DocActueel'
    BY <1>1, <1>3, BewaardActueel
  <2> QED BY <1>1, <2>1, KlaarActueel DEF IInv
<1> QED BY <1>1, <1>2, <1>3 DEF RechtSave, RechtDelete

LEMMA DestroyActueel ==
  ASSUME IInv, EenTegelijk, Actueel, NEW r \in Requests, Destroy(r)
  PROVE  Actueel'
<1>1. req[r].fase # "vrij" /\ Finish(r)
  BY DEF Destroy
<1>2. CASE UNCHANGED <<canonical, eio, delen, uitgegeven>>
  <2>1. DocActueel'
    BY <1>2, DocBlijft DEF Actueel
  <2> QED BY <1>1, <2>1, KlaarActueel DEF IInv
<1>3. CASE canonical' = [stand |-> "vernietigd", lock |-> NoLock, latest |-> 0] /\ delen' = NoDelen
  <2>1. DocActueel'
    BY <1>3 DEF DocActueel, LatestIsNewest, PartsOfNewest, LockHolder, Bestaat, NoDelen
  <2> QED BY <1>1, <2>1, KlaarActueel DEF IInv
<1> QED BY <1>2, <1>3 DEF Destroy

LEMMA StoptActueel ==
  ASSUME IInv, EenTegelijk, Actueel, NEW r \in Requests,
         UnlockEmpty(r) \/ UnlockDone(r) \/ Crash(r) \/ UpdateRollback(r)
  PROVE  Actueel'
<1>1. /\ req[r].fase # "vrij" /\ Finish(r) /\ UNCHANGED <<canonical, delen, uitgegeven>> /\ eio' = eio
  BY DEF UnlockEmpty, UnlockDone, Crash, UpdateRollback, docVars, fileVars, auxVars
<1>2. DocActueel'
  BY <1>1, DocBlijft DEF Actueel
<1> QED BY <1>1, <1>2, KlaarActueel DEF IInv

\* Relations, and steps of nobody.
LEMMA VastActueel ==
  ASSUME Actueel, UNCHANGED <<canonical, eio, delen, uitgegeven, req>>
  PROVE  Actueel'
<1>1. DocActueel'
  BY DocBlijft DEF Actueel
<1>2. ASSUME NEW s \in Requests PROVE Gelezen(req[s])'
  <2>1. PICK q : q = req[s]
    OBVIOUS
  <2>2. Gelezen(q)
    BY <2>1 DEF Actueel
  <2>3. Gelezen(q)'
    BY <2>2, GelezenBlijft
  <2> QED BY <2>1, <2>3
<1> QED BY <1>1, <1>2 DEF Actueel

LEMMA ActueelStap ==
  BoundsAssumption /\ IInv /\ EenTegelijk /\ EenTegelijk' /\ Actueel /\ [Next]_vars => Actueel'
<1> SUFFICES ASSUME BoundsAssumption, IInv, EenTegelijk, EenTegelijk', Actueel, [Next]_vars
             PROVE  Actueel'
  OBVIOUS
<1>1. ASSUME NEW omvang \in Omvang, Create(omvang) PROVE Actueel'
  BY <1>1, CreateActueel
<1>2. ASSUME NEW r \in Requests,
             \/ LockRead(r) \/ ForceUnlockRead(r) \/ RechtRead(r) \/ DestroyRead(r)
             \/ \E pk \in rechten : RechtDeleteRead(r, pk)
             \/ \E lock \in Lock : UnlockRead(r, lock)
             \/ \E lock \in Lock, op \in {"patch", "put"} : UpdateRead(r, lock, op)
             \/ \E lock \in Lock, nr \in Deel : UploadRead(r, lock, nr)
      PROVE  Actueel'
  BY <1>2, LeesActueel
<1>3. ASSUME NEW r \in Requests,
             \/ LockSave(r) \/ UnlockSave(r) \/ UnlockMerge(r) \/ UnlockForget(r) \/ UnlockParts(r)
             \/ UploadSave(r) \/ RechtSave(r) \/ RechtDelete(r) \/ Destroy(r)
      PROVE  Actueel'
  BY <1>3, LockSaveActueel, UnlockSaveActueel, MergeActueel, ForgetActueel, PartsActueel,
     UploadSaveActueel, RechtActueel, DestroyActueel
<1>4. ASSUME NEW r \in Requests, NEW n \in Deel, UnlockWipe(r, n) PROVE Actueel'
  BY <1>4, WipeActueel
<1>5. ASSUME NEW r \in Requests, NEW n \in Deel, NEW cleared \in BOOLEAN, CrashInWipe(r, n, cleared)
      PROVE  Actueel'
  BY <1>5, CrashInWipeActueel
<1>6. ASSUME NEW r \in Requests, NEW file \in Omvang \cup {"zelfde"}, UpdateSave(r, file)
      PROVE  Actueel'
  BY <1>6, UpdateSaveActueel
<1>7. ASSUME NEW r \in Requests, UnlockEmpty(r) \/ UnlockDone(r) \/ Crash(r) \/ UpdateRollback(r)
      PROVE  Actueel'
  BY <1>7, StoptActueel
<1>8. ASSUME NEW r \in Requests, NEW object \in {"zaak", "besluit"},
             Relate(r, object) \/ Unrelate(r, object)
      PROVE  Actueel'
  BY <1>8, VastActueel DEF Relate, Unrelate, docVars, fileVars, auxVars
<1>9. CASE UNCHANGED vars
  BY <1>9, VastActueel DEF vars
<1> QED BY <1>1, <1>2, <1>3, <1>4, <1>5, <1>6, <1>7, <1>8, <1>9 DEF Next

LEMMA InitActueel == Init => Actueel
<1> SUFFICES ASSUME Init PROVE Actueel
  OBVIOUS
<1>1. DocActueel
  BY DEF Init, DocActueel, LatestIsNewest, PartsOfNewest, LockHolder, Bestaat, NoDelen
<1>2. Gelezen(Idle)
  BY VrijGelezen DEF Idle
<1> QED BY <1>1, <1>2 DEF Init, Actueel

-----------------------------------------------------------------------------
(* Every step is one of check-out, or changes nothing that it is about.    *)

LEMMA CheckoutStap ==
  BoundsAssumption /\ IInv /\ Actueel /\ [Next]_vars => [CO!Next]_(CO!vars)
<1> SUFFICES ASSUME BoundsAssumption, IInv, Actueel, [Next]_vars PROVE [CO!Next]_(CO!vars)
  OBVIOUS
<1>1. ASSUME UNCHANGED <<canonical, locks>>, DOMAIN eio' = DOMAIN eio PROVE UNCHANGED CO!vars
  BY <1>1 DEF CO!vars
<1>2. ASSUME NEW omvang \in Omvang, Create(omvang) PROVE CO!Create
  <2>1. DOMAIN eio' = {1}
    BY <1>2 DEF Create, Put, IInv, Coherent, DocCoherent, Bestaat
  <2>2. canonical.stand = "nieuw"
    BY <1>2 DEF Create
  <2>3. canonical' = [stand |-> "bestaat", lock |-> locks', latest |-> 1]
    BY <1>2 DEF Create
  <2>4. locks' \in {0, 1}
    BY <1>2 DEF Create
  <2> QED BY <2>1, <2>2, <2>3, <2>4 DEF CO!Create
<1>3. ASSUME NEW r \in Requests, LockSave(r) PROVE CO!Lock
  <2>1. Bestaat /\ canonical.lock = NoLock /\ UNCHANGED docVars
    BY <1>3 DEF LockSave, Actueel, Gelezen
  <2>2. locks' = locks + 1 /\ SaveCanonical(locks', req[r].latest)
    BY <1>3, <2>1 DEF LockSave
  <2>3. canonical'.lock = locks' /\ canonical'.stand = canonical.stand
    BY <2>2 DEF SaveCanonical, IInv, TypeOK
  <2> QED BY <2>1, <2>2, <2>3 DEF CO!Lock, Bestaat, NoLock, docVars
<1>4. ASSUME NEW r \in Requests, UnlockSave(r) PROVE CO!Unlock
  <2>1. Bestaat /\ UNCHANGED <<docVars, locks>>
    BY <1>4 DEF UnlockSave, Actueel, Gelezen
  <2>2. SaveCanonical(NoLock, req[r].latest)
    BY <1>4, <2>1 DEF UnlockSave
  <2>3. canonical'.lock = NoLock /\ canonical'.stand = canonical.stand
    BY <2>2 DEF SaveCanonical, IInv, TypeOK
  <2> QED BY <2>1, <2>3 DEF CO!Unlock, Bestaat, NoLock, docVars
<1>5. ASSUME NEW r \in Requests, NEW file \in Omvang \cup {"zelfde"}, UpdateSave(r, file)
      PROVE  [CO!Next]_(CO!vars)
  <2>1. PICK q : q = req[r]
    OBVIOUS
  <2>2. /\ Bestaat /\ q.versie = Recentste /\ canonical.lock # NoLock /\ locks' = locks
    BY <1>5, <2>1 DEF UpdateSave, Actueel, Gelezen, auxVars
  <2>3. PICK v \in Versie : v = Recentste /\ DOMAIN eio = 1..v
    BY <2>2, RecentsteLast DEF IInv, Coherent
  <2>4. CASE UNCHANGED <<canonical, eio>>
    BY <1>1, <2>2, <2>4
  <2>5. ASSUME NEW row, eio' = Put(eio, v + 1, row), canonical' = Trigger(canonical, eio')
        PROVE  CO!AddVersion
    <3>1. DOMAIN eio' = 1..(v + 1) /\ v \in DOMAIN eio
      BY <2>3, <2>5 DEF Put, Versie
    <3>2. canonical'.lock = canonical.lock /\ canonical'.stand = canonical.stand
      BY <2>5 DEF Trigger, IInv, TypeOK
    <3> QED BY <2>2, <2>3, <3>1, <3>2 DEF CO!AddVersion, Bestaat, NoLock
  <2> QED BY <1>5, <2>1, <2>2, <2>3, <2>4, <2>5 DEF UpdateSave, NextVersie, CO!Next
<1>6. ASSUME NEW r \in Requests, Destroy(r) PROVE [CO!Next]_(CO!vars)
  <2>1. Bestaat /\ canonical.lock = NoLock /\ locks' = locks
    BY <1>6 DEF Destroy, Actueel, Gelezen
  <2>2. CASE UNCHANGED <<canonical, eio>>
    BY <1>1, <2>1, <2>2
  <2>3. CASE canonical' = [stand |-> "vernietigd", lock |-> NoLock, latest |-> 0]
             /\ eio' = [v \in {} |-> LegeRij]
    BY <2>1, <2>3 DEF CO!Next, CO!Destroy, Bestaat, NoLock
  <2> QED BY <1>6, <2>2, <2>3 DEF Destroy
<1>7. ASSUME NEW r \in Requests,
             UnlockMerge(r) \/ UnlockForget(r) \/ RechtSave(r) \/ RechtDelete(r)
      PROVE  UNCHANGED CO!vars
  <2>1. Bestaat /\ UNCHANGED <<delen, uitgegeven, locks>>
    BY <1>7 DEF UnlockMerge, UnlockForget, RechtSave, RechtDelete, Actueel, Gelezen, fileVars, auxVars
  <2>2. ASSUME NEW v, NEW row, SaveVersie(v, row) PROVE UNCHANGED CO!vars
    BY <1>1, <2>1, <2>2, BewaardActueel
  <2>3. CASE UNCHANGED <<canonical, eio>>
    BY <1>1, <2>1, <2>3
  <2> QED BY <1>7, <2>1, <2>2, <2>3 DEF UnlockMerge, UnlockForget, RechtSave, RechtDelete
<1>8. ASSUME NEW r \in Requests,
             \/ LockRead(r) \/ ForceUnlockRead(r) \/ RechtRead(r) \/ DestroyRead(r)
             \/ \E pk \in rechten : RechtDeleteRead(r, pk)
             \/ \E lock \in Lock : UnlockRead(r, lock)
             \/ \E lock \in Lock, op \in {"patch", "put"} : UpdateRead(r, lock, op)
             \/ \E lock \in Lock, nr \in Deel : UploadRead(r, lock, nr)
      PROVE  UNCHANGED CO!vars
  BY <1>1, <1>8 DEF LockRead, ForceUnlockRead, RechtRead, DestroyRead, RechtDeleteRead, UnlockRead,
     UpdateRead, UploadRead, docVars, auxVars
<1>9. ASSUME NEW r \in Requests,
             \/ UnlockEmpty(r) \/ UnlockParts(r) \/ UnlockDone(r) \/ UploadSave(r) \/ Crash(r)
             \/ UpdateRollback(r)
             \/ \E n \in Deel : UnlockWipe(r, n)
             \/ \E n \in Deel, cleared \in BOOLEAN : CrashInWipe(r, n, cleared)
             \/ \E object \in {"zaak", "besluit"} : Relate(r, object) \/ Unrelate(r, object)
      PROVE  UNCHANGED CO!vars
  BY <1>1, <1>9 DEF UnlockEmpty, UnlockParts, UnlockDone, UploadSave, Crash, UpdateRollback,
     UnlockWipe, CrashInWipe, Relate, Unrelate, docVars, auxVars
<1>10. CASE UNCHANGED vars
  BY <1>1, <1>10 DEF vars
<1> QED BY <1>2, <1>3, <1>4, <1>5, <1>6, <1>7, <1>8, <1>9, <1>10 DEF Next, CO!Next

-----------------------------------------------------------------------------
(* Uploads end complete, as long as no lock is overruled and no worker     *)
(* fails.                                                                  *)

GeenDwang ==
  /\ faults = 0
  /\ \A r \in Requests : req[r].opt => req[r].fase \in {"vrij", "update_save", "recht_delete"}

\* The files of parts are numbered as they come in, and no two parts share one.
EigenFiles ==
  /\ weg \subseteq 1..uploads
  /\ \A n \in DOMAIN delen : delen[n].file <= uploads
  /\ \A m, n \in DOMAIN delen : delen[m].file = delen[n].file /\ m # n => delen[n].file = 0

\* A lock is not given back without a file or with some of the parts, and what was read of the
\* newest version and the parts is what is there.
Compleet(q) ==
  /\ q.fase \in {"unlock_save", "merge"} =>
       /\ CompleteUpload(delen) \/ EmptyBestandsdelen(delen)
       /\ EmptyBestandsdelen(delen) => eio[Recentste].inhoud.soort # "geen"
  /\ q.fase \in {"unlock_save", "merge", "update_save", "recht_save", "recht_delete"}
       => q.rij = eio[Recentste]
  /\ q.fase # "parts"
  /\ q.fase = "wipe" => q.delen = delen

\* Parts come and go together, but while they are wiped; only an unlock that is going to merge
\* them has a large document without its file that is not locked.
DocVolledig(wist, voegt) ==
  /\ EigenFiles /\ PartsHaveFiles /\ MergedComplete
  /\ ~wist => DOMAIN delen \in {{}, Deel}
  /\ Bestaat /\ NeedsDelen(eio[Recentste]) => canonical.lock # NoLock \/ voegt

Volledig ==
  /\ \A r \in Requests : Compleet(req[r])
  /\ DocVolledig(\E r \in Requests : req[r].fase = "wipe", \E r \in Requests : req[r].fase = "merge")

LEMMA VrijCompleet ==
  ASSUME NEW q, q.fase = "vrij"
  PROVE  Compleet(q) /\ Compleet(q)'
BY DEF Compleet

LEMMA NaVolledig ==
  ASSUME TypeOK, NEW r \in Requests, NEW q, Alleen(r, q), Compleet(q)',
         DocVolledig(q.fase = "wipe", q.fase = "merge")'
  PROVE  Volledig'
<1>0. req'[r] = q
  BY DEF Alleen, TypeOK
<1>1. ASSUME NEW s \in Requests PROVE Compleet(req[s])'
  <2>1. CASE s = r
    BY <1>0, <2>1
  <2>2. CASE s # r
    <3>1. PICK p : p = req'[s]
      OBVIOUS
    <3>2. p.fase = "vrij"
      BY <2>2, <3>1 DEF Alleen
    <3>3. Compleet(p)'
      BY <3>2, VrijCompleet
    <3> QED BY <3>1, <3>3
  <2> QED BY <2>1, <2>2
<1>2. /\ (\E s \in Requests : req'[s].fase = "wipe") <=> q.fase = "wipe"
      /\ (\E s \in Requests : req'[s].fase = "merge") <=> q.fase = "merge"
  BY <1>0 DEF Alleen
<1>3. DocVolledig(\E s \in Requests : req[s].fase = "wipe", \E s \in Requests : req[s].fase = "merge")'
  BY <1>2 DEF DocVolledig
<1> QED BY <1>1, <1>3 DEF Volledig

LEMMA VanVolledig ==
  ASSUME EenTegelijk, Volledig, NEW r \in Requests, req[r].fase # "vrij"
  PROVE  Compleet(req[r]) /\ DocVolledig(req[r].fase = "wipe", req[r].fase = "merge")
<1>1. /\ (\E s \in Requests : req[s].fase = "wipe") <=> req[r].fase = "wipe"
      /\ (\E s \in Requests : req[s].fase = "merge") <=> req[r].fase = "merge"
  BY Anderen
<1> QED BY <1>1 DEF Volledig, DocVolledig

LEMMA KlaarVolledig ==
  ASSUME TypeOK, EenTegelijk, NEW r \in Requests, req[r].fase # "vrij", Finish(r),
         DocVolledig(FALSE, FALSE)'
  PROVE  Volledig'
<1>1. Idle.fase = "vrij"
  BY DEF Idle
<1>2. Compleet(Idle)'
  BY <1>1, VrijCompleet
<1>3. Alleen(r, Idle)
  BY VerderAlleen DEF Finish
<1>4. DocVolledig(Idle.fase = "wipe", Idle.fase = "merge")'
  BY <1>1 DEF DocVolledig
<1> QED BY <1>2, <1>3, <1>4, NaVolledig

\* What DocVolledig is about does not change.
LEMMA VolledigBlijft ==
  ASSUME NEW wist, NEW voegt, DocVolledig(wist, voegt), UNCHANGED <<canonical, eio, delen, weg, uploads>>
  PROVE  DocVolledig(wist, voegt)'
<1>1. Recentste' = Recentste /\ (Bestaat' <=> Bestaat)
  BY DEF Recentste, Bestaat
<1> QED BY <1>1 DEF DocVolledig, EigenFiles, PartsHaveFiles, MergedComplete

LEMMA CompleetBlijft ==
  ASSUME NEW q, Compleet(q), UNCHANGED <<eio, delen>>
  PROVE  Compleet(q)'
<1>1. Recentste' = Recentste
  BY DEF Recentste
<1> QED BY <1>1 DEF Compleet

LEMMA VastVolledig ==
  ASSUME Volledig, UNCHANGED <<canonical, eio, delen, weg, uploads, req>>
  PROVE  Volledig'
<1>1. PICK wist \in BOOLEAN, voegt \in BOOLEAN :
        /\ wist <=> \E r \in Requests : req[r].fase = "wipe"
        /\ voegt <=> \E r \in Requests : req[r].fase = "merge"
  OBVIOUS
<1>2. DocVolledig(wist, voegt)'
  BY <1>1, VolledigBlijft DEF Volledig, DocVolledig
<1>3. ASSUME NEW s \in Requests PROVE Compleet(req[s])'
  <2>1. PICK q : q = req[s]
    OBVIOUS
  <2>2. Compleet(q)
    BY <2>1 DEF Volledig
  <2>3. Compleet(q)'
    BY <2>2, CompleetBlijft
  <2> QED BY <2>1, <2>3
<1> QED BY <1>1, <1>2, <1>3 DEF Volledig, DocVolledig

\* A request that starts.
LEMMA BeginVolledig ==
  ASSUME TypeOK, EenTegelijk', Volledig, NEW r \in Requests, NEW fase \in Fases \ {"vrij", "wipe", "merge"},
         NEW snap \in ReqType, req[r].fase = "vrij", Start(r, fase, snap),
         Compleet([snap EXCEPT !.fase = fase]), UNCHANGED <<canonical, docVars>>
  PROVE  Volledig'
<1> DEFINE q == [snap EXCEPT !.fase = fase]
<1>1. Alleen(r, q) /\ q.fase = fase
  BY BeginAlleen DEF ReqType
<1>2. Compleet(q)
  OBVIOUS
<1> HIDE DEF q
<1>3. UNCHANGED <<canonical, eio, delen, weg, uploads>>
  BY DEF docVars, fileVars
<1>4. \A s \in Requests : req[s].fase = "vrij"
  BY <1>1 DEF Alleen, TypeOK
<1>5. DocVolledig(FALSE, FALSE)
  BY <1>4 DEF Volledig, DocVolledig
<1>6. DocVolledig(FALSE, FALSE)'
  BY <1>3, <1>5, VolledigBlijft
<1>7. DocVolledig(q.fase = "wipe", q.fase = "merge")'
  BY <1>1, <1>6 DEF DocVolledig
<1>8. Compleet(q)'
  BY <1>2, <1>3, CompleetBlijft
<1> QED BY <1>1, <1>7, <1>8, NaVolledig

LEMMA LeesVolledig ==
  ASSUME BoundsAssumption, IInv, EenTegelijk', Actueel, Volledig, GeenDwang', NEW r \in Requests,
         \/ LockRead(r) \/ ForceUnlockRead(r) \/ RechtRead(r) \/ DestroyRead(r)
         \/ \E pk \in rechten : RechtDeleteRead(r, pk)
         \/ \E lock \in Lock : UnlockRead(r, lock)
         \/ \E lock \in Lock, op \in {"patch", "put"} : UpdateRead(r, lock, op)
         \/ \E lock \in Lock, nr \in Deel : UploadRead(r, lock, nr)
  PROVE  Volledig'
<1> USE DEF Ready
<1>0. TypeOK /\ DocActueel /\ DocCoherent
  BY DEF IInv, Coherent, Actueel
<1>1. ASSUME NEW fase \in {"lock_save", "upload_save", "delete"}, NEW snap \in ReqType,
             req[r].fase = "vrij", Start(r, fase, snap), UNCHANGED <<canonical, docVars>>
      PROVE  Volledig'
  <2>1. Compleet([snap EXCEPT !.fase = fase])
    BY <1>1 DEF Compleet, ReqType
  <2> QED BY <1>0, <1>1, <2>1, BeginVolledig DEF Fases
<1>2. ASSUME NEW fase \in {"update_save", "recht_save", "recht_delete"}, NEW snap \in ReqType,
             req[r].fase = "vrij", Start(r, fase, snap), snap.rij = eio[Recentste],
             UNCHANGED <<canonical, docVars>>
      PROVE  Volledig'
  <2>1. Compleet([snap EXCEPT !.fase = fase])
    BY <1>2 DEF Compleet, ReqType
  <2> QED BY <1>0, <1>2, <2>1, BeginVolledig DEF Fases
<1>3. ASSUME LockRead(r) PROVE Volledig'
  <2>1. Bestaat /\ req[r].fase = "vrij" /\ Start(r, "lock_save", FetchedCanonical)
        /\ UNCHANGED <<canonical, docVars>>
    BY <1>3 DEF LockRead
  <2> QED BY <1>1, <2>1, Opgehaald
<1>4. ASSUME ForceUnlockRead(r) PROVE Volledig'
  <2>1. Bestaat /\ req' = [req EXCEPT ![r] =
              [[FetchedDocument EXCEPT !.opt = TRUE] EXCEPT !.fase = "unlock_save"]]
    BY <1>4 DEF ForceUnlockRead, Start
  <2>2. FetchedDocument \in ReqType
    BY <2>1, Opgehaald
  <2>3. req'[r].opt /\ req'[r].fase = "unlock_save"
    BY <1>0, <2>1, <2>2 DEF TypeOK, ReqType
  <2> QED BY <2>3 DEF GeenDwang
<1>5. ASSUME NEW lock \in Lock, UnlockRead(r, lock) PROVE Volledig'
  <2>1. /\ Bestaat /\ req[r].fase = "vrij" /\ UNCHANGED <<canonical, docVars>>
        /\ CompleteUpload(delen) \/ EmptyBestandsdelen(delen)
    BY <1>5 DEF UnlockRead
  <2>2. CASE UNCHANGED req
    BY <2>1, <2>2, VastVolledig DEF docVars, fileVars
  <2>3. CASE /\ Start(r, "unlock_save", FetchedDocument)
             /\ EmptyBestandsdelen(delen) => eio[Recentste].inhoud.soort # "geen"
    <3>1. FetchedDocument \in ReqType /\ FetchedDocument.rij = eio[Recentste]
      BY <2>1, Opgehaald
    <3>2. Compleet([FetchedDocument EXCEPT !.fase = "unlock_save"])
      <4>1. PICK q : q = [FetchedDocument EXCEPT !.fase = "unlock_save"]
        OBVIOUS
      <4>2. q.fase = "unlock_save" /\ q.rij = eio[Recentste]
        BY <3>1, <4>1 DEF ReqType
      <4>3. Compleet(q)
        BY <2>1, <2>3, <4>2 DEF Compleet
      <4> QED BY <4>1, <4>3
    <3> QED BY <1>0, <2>1, <2>3, <3>1, <3>2, BeginVolledig DEF Fases
  <2> QED BY <1>5, <2>2, <2>3 DEF UnlockRead
<1>6. ASSUME NEW lock \in Lock, NEW op \in {"patch", "put"}, UpdateRead(r, lock, op)
      PROVE  Volledig'
  <2>1. PICK snap : snap = [FetchedAll EXCEPT !.opt = (op = "put")]
    OBVIOUS
  <2>2. Bestaat /\ req[r].fase = "vrij" /\ Start(r, "update_save", snap)
        /\ UNCHANGED <<canonical, docVars>>
    BY <1>6, <2>1 DEF UpdateRead
  <2>3. FetchedAll \in ReqType /\ FetchedAll.rij = eio[Recentste]
    BY <2>2, Opgehaald
  <2>4. snap \in ReqType /\ snap.rij = eio[Recentste]
    BY <2>1, <2>3 DEF ReqType
  <2> QED BY <1>2, <2>2, <2>4
<1>7. ASSUME NEW lock \in Lock, NEW nr \in Deel, UploadRead(r, lock, nr) PROVE Volledig'
  <2>1. PICK snap : snap = [Idle EXCEPT !.pk = nr, !.delen = Put(NoDelen, nr, delen[nr])]
    OBVIOUS
  <2>2. Bestaat /\ req[r].fase = "vrij" /\ Start(r, "upload_save", snap)
        /\ UNCHANGED <<canonical, docVars>> /\ nr \in DOMAIN delen
    BY <1>7, <2>1 DEF UploadRead
  <2>3. delen[nr] \in DeelRow /\ IsTable(NoDelen, Deel, DeelRow)
    BY <1>0, <2>2, Constants DEF TypeOK, IsTable
  <2>4. Put(NoDelen, nr, delen[nr]) \in Tables(Deel, DeelRow)
    BY <2>3, TablePut, TablesDef
  <2>5. nr \in Nat
    BY BoundsAssumption DEF Deel
  <2>6. snap \in ReqType
    BY <2>1, <2>2, <2>4, <2>5, Opgehaald DEF ReqType
  <2> QED BY <1>1, <2>2, <2>6
<1>8. ASSUME RechtRead(r) PROVE Volledig'
  <2>1. Bestaat /\ req[r].fase = "vrij" /\ Start(r, "recht_save", FetchedLatest)
        /\ UNCHANGED <<canonical, docVars>>
    BY <1>8 DEF RechtRead
  <2>2. FetchedLatest \in ReqType /\ FetchedLatest.rij = eio[Recentste]
    BY <1>0, <2>1, Opgehaald DEF DocActueel, LatestIsNewest
  <2> QED BY <1>2, <2>1, <2>2
<1>9. ASSUME NEW pk \in rechten, RechtDeleteRead(r, pk) PROVE Volledig'
  <2>1. PICK snap : snap = [FetchedLatest EXCEPT !.pk = pk, !.opt = (rechten = {pk})]
    OBVIOUS
  <2>2. Bestaat /\ req[r].fase = "vrij" /\ Start(r, "recht_delete", snap)
        /\ UNCHANGED <<canonical, docVars>>
    BY <1>9, <2>1 DEF RechtDeleteRead
  <2>3. FetchedLatest \in ReqType /\ FetchedLatest.rij = eio[Recentste]
    BY <1>0, <2>2, Opgehaald DEF DocActueel, LatestIsNewest
  <2>4. pk \in Nat
    BY <1>0 DEF TypeOK
  <2>5. snap \in ReqType /\ snap.rij = eio[Recentste]
    BY <2>1, <2>3, <2>4 DEF ReqType
  <2> QED BY <1>2, <2>2, <2>5
<1>10. ASSUME DestroyRead(r) PROVE Volledig'
  <2>1. req[r].fase = "vrij" /\ Start(r, "delete", Idle) /\ UNCHANGED <<canonical, docVars>>
    BY <1>10 DEF DestroyRead
  <2> QED BY <1>1, <2>1, Constants
<1> QED BY <1>3, <1>4, <1>5, <1>6, <1>7, <1>8, <1>9, <1>10

LEMMA LockSaveVolledig ==
  ASSUME IInv, EenTegelijk, Actueel, Volledig, NEW r \in Requests, LockSave(r)
  PROVE  Volledig'
<1>1. /\ Bestaat /\ req[r].fase = "lock_save" /\ Finish(r) /\ UNCHANGED docVars
  BY DEF LockSave, Actueel, Gelezen
<1>2. locks' = locks + 1 /\ SaveCanonical(locks', req[r].latest) /\ locks \in Nat
  BY <1>1 DEF LockSave, IInv, TypeOK, Lock
<1>3. canonical'.lock # NoLock
  BY <1>2 DEF SaveCanonical, IInv, TypeOK, NoLock
<1>4. DocVolledig(FALSE, FALSE)
  BY <1>1, VanVolledig DEF DocVolledig
<1>5. DocVolledig(FALSE, FALSE)'
  BY <1>1, <1>3, <1>4 DEF DocVolledig, EigenFiles, PartsHaveFiles, MergedComplete, docVars, fileVars
<1> QED BY <1>1, <1>5, KlaarVolledig DEF IInv

LEMMA UnlockSaveVolledig ==
  ASSUME IInv, EenTegelijk, Actueel, Volledig, NEW r \in Requests, UnlockSave(r)
  PROVE  Volledig'
<1>1. PICK q : q = req[r]
  OBVIOUS
<1>2. Bestaat /\ q.fase = "unlock_save"
  BY <1>1 DEF UnlockSave, Actueel, Gelezen
<1>3. /\ req' = [req EXCEPT ![r] = [q EXCEPT !.fase = "merge"]] /\ UNCHANGED docVars
  BY <1>1, <1>2 DEF UnlockSave, Continue
<1>4. Compleet(q) /\ DocVolledig(FALSE, FALSE)
  BY <1>1, <1>2, VanVolledig DEF DocVolledig
<1>5. PICK p : p = [q EXCEPT !.fase = "merge"]
  OBVIOUS
<1>6. p.fase = "merge" /\ p.rij = q.rij
  BY <1>1, <1>5 DEF IInv, TypeOK, ReqType
<1>7. Compleet(p)
  BY <1>2, <1>4, <1>6 DEF Compleet
<1>8. Compleet(p)'
  BY <1>3, <1>7, CompleetBlijft DEF docVars, fileVars
<1>9. DocVolledig(p.fase = "wipe", p.fase = "merge")'
  BY <1>3, <1>4, <1>6 DEF DocVolledig, EigenFiles, PartsHaveFiles, MergedComplete, docVars, fileVars
<1>10. Alleen(r, p)
  BY <1>1, <1>2, <1>3, <1>5, VerderAlleen DEF IInv
<1> QED BY <1>8, <1>9, <1>10, NaVolledig DEF IInv

LEMMA UnlockEmptyVolledig ==
  ASSUME IInv, EenTegelijk, Volledig, NEW r \in Requests, UnlockEmpty(r)
  PROVE  Volledig'
<1>1. /\ req[r].fase = "merge" /\ EmptyBestandsdelen(delen) /\ Finish(r)
      /\ UNCHANGED <<canonical, eio, delen, weg, uploads>>
  BY DEF UnlockEmpty, docVars, fileVars
<1>2. Compleet(req[r]) /\ DocVolledig(FALSE, TRUE)
  BY <1>1, VanVolledig DEF DocVolledig
<1>3. ~NeedsDelen(eio[Recentste])
  BY <1>1, <1>2 DEF Compleet, NeedsDelen
<1>4. DocVolledig(FALSE, FALSE)
  BY <1>2, <1>3 DEF DocVolledig
<1>5. DocVolledig(FALSE, FALSE)'
  BY <1>1, <1>4, VolledigBlijft
<1> QED BY <1>1, <1>5, KlaarVolledig DEF IInv

LEMMA UnlockDoneVolledig ==
  ASSUME IInv, EenTegelijk, Volledig, NEW r \in Requests, UnlockDone(r)
  PROVE  Volledig'
<1>1. /\ req[r].fase = "wipe" /\ DOMAIN req[r].delen = {} /\ Finish(r)
      /\ UNCHANGED <<canonical, eio, delen, weg, uploads>>
  BY DEF UnlockDone, docVars, fileVars
<1>2. Compleet(req[r]) /\ DocVolledig(TRUE, FALSE)
  BY <1>1, VanVolledig DEF DocVolledig
<1>3. DOMAIN delen = {}
  BY <1>1, <1>2 DEF Compleet
<1>4. DocVolledig(FALSE, FALSE)
  BY <1>2, <1>3 DEF DocVolledig
<1>5. DocVolledig(FALSE, FALSE)'
  BY <1>1, <1>4, VolledigBlijft
<1> QED BY <1>1, <1>5, KlaarVolledig DEF IInv

LEMMA GeenFout ==
  ASSUME IInv, GeenDwang, GeenDwang', NEW r \in Requests, NEW n \in Deel, NEW cleared \in BOOLEAN,
         Crash(r) \/ UpdateRollback(r) \/ CrashInWipe(r, n, cleared)
  PROVE  FALSE
BY DEF GeenDwang, Crash, UpdateRollback, CrashInWipe

\* What a file in parts is made of.
LEMMA MergeVolledig ==
  ASSUME BoundsAssumption, IInv, EenTegelijk, Actueel, Volledig, NEW r \in Requests, UnlockMerge(r)
  PROVE  Volledig'
<1>1. PICK q : q = req[r]
  OBVIOUS
<1>2. PICK v : v = q.versie
  OBVIOUS
<1>3. /\ q.fase = "merge" /\ Bestaat /\ v = Recentste /\ UNCHANGED fileVars
      /\ ~EmptyBestandsdelen(delen)
  BY <1>1, <1>2 DEF UnlockMerge, Actueel, Gelezen
<1>4. Compleet(q) /\ DocVolledig(FALSE, TRUE)
  BY <1>1, <1>3, VanVolledig DEF DocVolledig
<1>5. q.rij = eio[v] /\ v \in DOMAIN eio /\ eio[v] \in Row /\ v \in Versie
  <2>1. q.rij = eio[v] /\ v \in DOMAIN eio /\ v \in Versie
    BY <1>3, <1>4, RecentsteLast DEF Compleet, IInv, Coherent
  <2> QED BY <2>1 DEF IInv, TypeOK, IsTable
<1>6. PICK merged : merged = [soort |-> "merged", delen |-> {<<delen[n].gen, n>> : n \in DOMAIN delen}]
  OBVIOUS
<1>7. merged.soort = "merged" /\ merged.delen = {<<v, n>> : n \in Deel}
  <2>1. DOMAIN delen = Deel
    <3>1. DOMAIN delen \in {{}, Deel}
      BY <1>4 DEF DocVolledig
    <3> QED BY <1>3, <3>1 DEF EmptyBestandsdelen
  <2>2. \A n \in DOMAIN delen : delen[n].gen = v
    BY <1>3 DEF Actueel, DocActueel, PartsOfNewest
  <2> QED BY <1>6, <2>1, <2>2
<1>8. Files(delen) \cap weg = {}
  BY <1>4 DEF DocVolledig, PartsHaveFiles
<1>9. /\ SaveVersie(v, [q.rij EXCEPT !.inhoud = merged])
      /\ req' = [req EXCEPT ![r].fase = "wipe", ![r].delen = delen]
  BY <1>1, <1>2, <1>6, <1>8 DEF UnlockMerge
<1>10. PICK row : row = [q.rij EXCEPT !.inhoud = merged]
  OBVIOUS
<1>11. row.inhoud = merged
  BY <1>5, <1>10 DEF Row
<1>12. eio' = [eio EXCEPT ![v] = row] /\ canonical' = canonical /\ Recentste' = Recentste
  <2>1. canonical' = canonical /\ DOMAIN eio' = DOMAIN eio
    <3>1. UNCHANGED <<delen, uitgegeven>>
      BY <1>3 DEF UnlockMerge, fileVars
    <3> QED BY <1>3, <1>9, <3>1, BewaardActueel
  <2> QED BY <1>9, <1>10, <2>1 DEF SaveVersie, Recentste
<1>13. MergedComplete'
  <2>1. ASSUME NEW x \in DOMAIN eio', eio'[x].inhoud.soort = "merged"
        PROVE  \E g \in Versie : eio'[x].inhoud.delen = {<<g, n>> : n \in Deel}
    <3>1. CASE x = v
      <4>1. eio'[x].inhoud.delen = {<<v, n>> : n \in Deel}
        BY <1>5, <1>7, <1>11, <1>12, <3>1
      <4> QED BY <1>5, <4>1
    <3>2. CASE x # v
      <4>1. x \in DOMAIN eio /\ eio'[x] = eio[x]
        BY <1>12, <3>2
      <4>2. MergedComplete
        BY <1>4 DEF DocVolledig
      <4> QED BY <2>1, <4>1, <4>2 DEF MergedComplete
    <3> QED BY <3>1, <3>2
  <2> QED BY <2>1 DEF MergedComplete
<1>14. ~NeedsDelen(eio[Recentste])'
  BY <1>3, <1>5, <1>7, <1>11, <1>12 DEF NeedsDelen
<1>15. DocVolledig(TRUE, FALSE)'
  BY <1>3, <1>4, <1>13, <1>14 DEF DocVolledig, EigenFiles, PartsHaveFiles, fileVars
<1>16. PICK p : p = [q EXCEPT !.fase = "wipe", !.delen = delen]
  OBVIOUS
<1>17. p.fase = "wipe" /\ p.delen = delen /\ req' = [req EXCEPT ![r] = p]
  BY <1>1, <1>9, <1>16 DEF IInv, TypeOK, ReqType
<1>18. Compleet(p)'
  BY <1>3, <1>17 DEF Compleet, fileVars
<1>19. Alleen(r, p)
  BY <1>1, <1>3, <1>17, VerderAlleen DEF IInv
<1>20. DocVolledig(p.fase = "wipe", p.fase = "merge")'
  BY <1>15, <1>17 DEF DocVolledig
<1> QED BY <1>18, <1>19, <1>20, NaVolledig DEF IInv

\* The lock is only given back with all parts, or none.
LEMMA GeenForget ==
  ASSUME EenTegelijk, Volledig, NEW r \in Requests, UnlockForget(r) \/ UnlockParts(r)
  PROVE  FALSE
<1>1. Compleet(req[r])
  BY DEF Volledig
<1> QED BY <1>1 DEF Compleet, UnlockForget, UnlockParts

LEMMA WipeVolledig ==
  ASSUME BoundsAssumption, IInv, EenTegelijk, Volledig, NEW r \in Requests, NEW n \in Deel,
         UnlockWipe(r, n)
  PROVE  Volledig'
<1>1. PICK q : q = req[r]
  OBVIOUS
<1>2. /\ q.fase = "wipe" /\ n \in DOMAIN q.delen /\ UNCHANGED <<canonical, eio, uploads>>
      /\ weg' = weg \cup ({q.delen[n].file} \ {0})
      /\ delen' = Without(delen, {n} \cap SameRows(delen, q.delen))
      /\ req' = [req EXCEPT ![r].delen = Without(q.delen, {n})]
  BY <1>1 DEF UnlockWipe, WipeNext
<1>3. q.delen = delen /\ DocVolledig(TRUE, FALSE)
  BY <1>1, <1>2, VanVolledig DEF Compleet, DocVolledig
<1>4. delen' = Without(delen, {n}) /\ n \in DOMAIN delen
  <2>1. {n} \cap SameRows(delen, q.delen) = {n}
    BY <1>2, <1>3 DEF SameRows
  <2> QED BY <1>2, <1>3, <2>1
<1>5. DOMAIN delen' = DOMAIN delen \ {n} /\ \A m \in DOMAIN delen' : delen'[m] = delen[m]
  BY <1>4 DEF Without
<1>6. PICK f : f = delen[n].file
  OBVIOUS
<1>7. f \in Nat /\ f <= uploads /\ weg' = weg \cup ({f} \ {0}) /\ uploads \in Nat
  <2>1. uploads \in Nat /\ delen[n] \in DeelRow
    BY <1>4 DEF IInv, TypeOK, IsTable
  <2>2. f \in Nat
    BY <1>6, <2>1 DEF DeelRow
  <2>3. f <= uploads
    BY <1>3, <1>4, <1>6 DEF DocVolledig, EigenFiles
  <2> QED BY <1>2, <1>3, <1>6, <2>1, <2>2, <2>3
<1>8. EigenFiles'
  <2>1. EigenFiles
    BY <1>3 DEF DocVolledig
  <2>2. weg' \subseteq 1..uploads'
    BY <1>2, <1>7, <2>1 DEF EigenFiles
  <2>3. \A m \in DOMAIN delen' : delen'[m].file <= uploads'
    BY <1>2, <1>5, <2>1 DEF EigenFiles
  <2>4. \A l, m \in DOMAIN delen' :
          delen'[l].file = delen'[m].file /\ l # m => delen'[m].file = 0
    BY <1>5, <2>1 DEF EigenFiles
  <2> QED BY <2>2, <2>3, <2>4 DEF EigenFiles
<1>9. PartsHaveFiles'
  <2>1. \A m \in DOMAIN delen' : delen'[m].file # 0 => delen'[m].file \notin weg /\ delen'[m].file # f
    <3>1. Files(delen) \cap weg = {} /\ EigenFiles
      BY <1>3 DEF DocVolledig, PartsHaveFiles
    <3>2. \A m \in DOMAIN delen : delen[m].file # 0 => delen[m].file \in Files(delen)
      BY DEF Files
    <3>3. \A m \in DOMAIN delen : m # n /\ delen[m].file # 0 => delen[m].file # f
      BY <1>4, <1>6, <3>1 DEF EigenFiles
    <3> QED BY <1>5, <3>1, <3>2, <3>3
  <2> QED BY <1>7, <2>1 DEF PartsHaveFiles, Files
<1>10. DocVolledig(TRUE, FALSE)'
  <2>1. Recentste' = Recentste /\ (Bestaat' <=> Bestaat) /\ MergedComplete'
    BY <1>2, <1>3 DEF Recentste, Bestaat, DocVolledig, MergedComplete
  <2> QED BY <1>2, <1>3, <1>8, <1>9, <2>1 DEF DocVolledig
<1>11. PICK p : p = [q EXCEPT !.delen = Without(q.delen, {n})]
  OBVIOUS
<1>12. p.fase = "wipe" /\ p.delen = delen' /\ req' = [req EXCEPT ![r] = p]
  BY <1>1, <1>2, <1>3, <1>4, <1>11 DEF IInv, TypeOK, ReqType
<1>13. Compleet(p)'
  BY <1>12 DEF Compleet
<1>14. Alleen(r, p)
  BY <1>1, <1>2, <1>12, VerderAlleen DEF IInv
<1>15. DocVolledig(p.fase = "wipe", p.fase = "merge")'
  BY <1>10, <1>12 DEF DocVolledig
<1> QED BY <1>13, <1>14, <1>15, NaVolledig DEF IInv

LEMMA UpdateSaveVolledig ==
  ASSUME BoundsAssumption, IInv, EenTegelijk, Actueel, Volledig, NEW r \in Requests,
         NEW file \in Omvang \cup {"zelfde"}, UpdateSave(r, file)
  PROVE  Volledig'
<1>1. PICK q : q = req[r]
  OBVIOUS
<1>2. /\ q.fase = "update_save" /\ Bestaat /\ q.versie = Recentste /\ q.delen = delen /\ Finish(r)
      /\ canonical.lock # NoLock
  BY <1>1 DEF UpdateSave, Actueel, Gelezen
<1>3. PICK v \in Versie : v = Recentste /\ DOMAIN eio = 1..v
  BY <1>2, RecentsteLast DEF IInv, Coherent
<1>4. Compleet(q) /\ DocVolledig(FALSE, FALSE)
  BY <1>1, <1>2, VanVolledig DEF DocVolledig
<1>5. PICK cleared : cleared = Without(delen, SameRows(delen, q.delen))
  OBVIOUS
<1>6. DOMAIN cleared = {}
  BY <1>2, <1>5 DEF Without, SameRows
<1>7. PICK row : row = NewRow(q.rij, q.opt, file)
  OBVIOUS
<1>8. v + 1 \notin DOMAIN eio /\ v + 1 \in Nat \ {0}
  BY <1>3 DEF Versie, BoundsAssumption
<1>9. /\ weg' = weg \cup Files(delen) /\ uploads' = uploads
      /\ eio' = Put(eio, v + 1, row) /\ canonical' = Trigger(canonical, eio')
      /\ delen' = IF NeedsDelen(row) THEN NewDelen(v + 1) ELSE cleared
  <2>1. /\ uploads' = uploads
        /\ IF ~Bestaat \/ v + 1 \in DOMAIN eio
             THEN UNCHANGED <<canonical, eio, delen, weg>>
             ELSE /\ weg' = weg \cup Files(q.delen)
                  /\ IF NeedsDelen(row) /\ DOMAIN cleared # {}
                       THEN UNCHANGED <<canonical, eio, delen>>
                       ELSE /\ eio' = Put(eio, v + 1, row)
                            /\ delen' = IF NeedsDelen(row) THEN NewDelen(v + 1) ELSE cleared
                            /\ canonical' = Trigger(canonical, eio')
    BY <1>1, <1>2, <1>3, <1>5, <1>7 DEF UpdateSave, NextVersie
  <2> QED BY <1>2, <1>6, <1>8, <2>1
<1>10. /\ DOMAIN delen' \in {{}, Deel} /\ \A n \in DOMAIN delen' : delen'[n].file = 0
  <2>1. CASE delen' = NewDelen(v + 1)
    BY <2>1 DEF NewDelen
  <2>2. CASE delen' = cleared
    BY <1>6, <2>2
  <2> QED BY <1>9, <2>1, <2>2
<1>11. EigenFiles' /\ PartsHaveFiles'
  <2>1. \A n \in DOMAIN delen : delen[n].file \in Nat /\ delen[n].file <= uploads
    BY <1>4 DEF DocVolledig, EigenFiles, IInv, TypeOK, IsTable, DeelRow
  <2>2. weg \subseteq 1..uploads /\ uploads \in Nat
    BY <1>4 DEF DocVolledig, EigenFiles, IInv, TypeOK
  <2>3. Files(delen) \subseteq 1..uploads
    BY <2>1, <2>2 DEF Files
  <2>4. Files(delen)' = {}
    BY <1>10 DEF Files
  <2>5. weg' \subseteq 1..uploads'
    BY <1>9, <2>2, <2>3
  <2>6. \A n \in DOMAIN delen' : delen'[n].file <= uploads'
    BY <1>9, <1>10, <2>2
  <2>7. \A m, n \in DOMAIN delen' :
          delen'[m].file = delen'[n].file /\ m # n => delen'[n].file = 0
    BY <1>10
  <2> QED BY <2>4, <2>5, <2>6, <2>7 DEF EigenFiles, PartsHaveFiles
<1>12. MergedComplete'
  <2>1. q.rij = eio[v] /\ eio[v] \in Row /\ v \in DOMAIN eio /\ MergedComplete
    <3>1. v \in DOMAIN eio
      BY <1>3 DEF Versie, BoundsAssumption
    <3> QED BY <1>2, <1>3, <1>4, <3>1 DEF Compleet, DocVolledig, IInv, TypeOK, IsTable
  <2>2. row.inhoud.soort = "merged" => row.inhoud = eio[v].inhoud
    <3>1. CASE file = "zelfde"
      BY <1>7, <2>1, <3>1 DEF NewRow, Row
    <3>2. CASE file # "zelfde"
      <4>1. row.inhoud = Inline \/ row.inhoud = Geen
        BY <1>7, <2>1, <3>2 DEF NewRow, Row
      <4> QED BY <4>1 DEF Inline, Geen
    <3> QED BY <3>1, <3>2
  <2>3. ASSUME NEW x \in DOMAIN eio', eio'[x].inhoud.soort = "merged"
        PROVE  \E g \in Versie : eio'[x].inhoud.delen = {<<g, n>> : n \in Deel}
    <3>1. CASE x = v + 1
      <4>1. eio'[x] = row
        BY <1>9, <3>1 DEF Put
      <4> QED BY <2>1, <2>2, <2>3, <4>1 DEF MergedComplete
    <3>2. CASE x # v + 1
      <4>1. x \in DOMAIN eio /\ eio'[x] = eio[x]
        BY <1>9, <3>2 DEF Put
      <4> QED BY <2>1, <2>3, <4>1 DEF MergedComplete
    <3> QED BY <3>1, <3>2
  <2> QED BY <2>3 DEF MergedComplete
<1>13. canonical'.lock # NoLock
  BY <1>2, <1>9 DEF Trigger, IInv, TypeOK
<1>14. DocVolledig(FALSE, FALSE)'
  BY <1>10, <1>11, <1>12, <1>13 DEF DocVolledig
<1> QED BY <1>1, <1>2, <1>14, KlaarVolledig DEF IInv

LEMMA UploadSaveVolledig ==
  ASSUME BoundsAssumption, IInv, EenTegelijk, Actueel, Volledig, NEW r \in Requests, UploadSave(r)
  PROVE  Volledig'
<1>1. PICK q : q = req[r]
  OBVIOUS
<1>2. PICK nr : nr = q.pk
  OBVIOUS
<1>3. /\ q.fase = "upload_save" /\ Bestaat /\ nr \in DOMAIN delen /\ q.delen[nr] = delen[nr]
      /\ Finish(r) /\ UNCHANGED <<canonical, eio, weg>> /\ uploads' = uploads + 1
  BY <1>1, <1>2 DEF UploadSave, Actueel, Gelezen
<1>4. PICK row : row = [gen |-> delen[nr].gen, file |-> uploads + 1]
  OBVIOUS
<1>5. delen' = Put(delen, nr, row)
  BY <1>1, <1>2, <1>3, <1>4 DEF UploadSave
<1>6. DocVolledig(FALSE, FALSE) /\ uploads \in Nat
  BY <1>1, <1>3, VanVolledig DEF DocVolledig, IInv, TypeOK
<1>7. /\ DOMAIN delen' = DOMAIN delen /\ delen'[nr] = row
      /\ \A n \in DOMAIN delen : n # nr => delen'[n] = delen[n]
  BY <1>3, <1>5 DEF Put
<1>8. row.file = uploads + 1
  BY <1>4
<1>9. \A n \in DOMAIN delen : delen[n].file \in Nat /\ delen[n].file <= uploads
  BY <1>6 DEF DocVolledig, EigenFiles, IInv, TypeOK, IsTable, DeelRow
<1>10. weg \subseteq 1..uploads
  BY <1>6 DEF DocVolledig, EigenFiles
<1>11. EigenFiles'
  <2>1. weg' \subseteq 1..uploads'
    BY <1>3, <1>6, <1>10
  <2>2. \A n \in DOMAIN delen' : delen'[n].file <= uploads'
    BY <1>3, <1>6, <1>7, <1>8, <1>9
  <2>3. ASSUME NEW m \in DOMAIN delen', NEW n \in DOMAIN delen', delen'[m].file = delen'[n].file, m # n
        PROVE  delen'[n].file = 0
    <3>1. CASE m = nr
      BY <1>6, <1>7, <1>8, <1>9, <2>3, <3>1
    <3>2. CASE n = nr
      BY <1>6, <1>7, <1>8, <1>9, <2>3, <3>2
    <3>3. CASE m # nr /\ n # nr
      BY <1>6, <1>7, <2>3, <3>3 DEF DocVolledig, EigenFiles
    <3> QED BY <3>1, <3>2, <3>3
  <2> QED BY <2>1, <2>2, <2>3 DEF EigenFiles
<1>12. PartsHaveFiles'
  <2>1. \A n \in DOMAIN delen' : delen'[n].file # 0 => delen'[n].file \notin weg
    <3>1. \A n \in DOMAIN delen : delen[n].file # 0 => delen[n].file \notin weg
      BY <1>6 DEF DocVolledig, PartsHaveFiles, Files
    <3>2. uploads + 1 \notin weg
      BY <1>6, <1>10
    <3> QED BY <1>7, <1>8, <3>1, <3>2
  <2> QED BY <1>3, <2>1 DEF PartsHaveFiles, Files
<1>13. Recentste' = Recentste /\ (Bestaat' <=> Bestaat) /\ MergedComplete'
  BY <1>3, <1>6 DEF Recentste, Bestaat, DocVolledig, MergedComplete
<1>14. DocVolledig(FALSE, FALSE)'
  BY <1>3, <1>6, <1>7, <1>11, <1>12, <1>13 DEF DocVolledig
<1> QED BY <1>1, <1>3, <1>14, KlaarVolledig DEF IInv

LEMMA RechtVolledig ==
  ASSUME IInv, EenTegelijk, Actueel, Volledig, NEW r \in Requests, RechtSave(r) \/ RechtDelete(r)
  PROVE  Volledig'
<1>1. PICK q : q = req[r]
  OBVIOUS
<1>2. PICK v : v = q.versie
  OBVIOUS
<1>3. /\ q.fase \in {"recht_save", "recht_delete"} /\ Bestaat /\ v = Recentste
      /\ UNCHANGED <<delen, weg, uploads, uitgegeven>> /\ Finish(r)
  BY <1>1, <1>2 DEF RechtSave, RechtDelete, Actueel, Gelezen, fileVars, auxVars
<1>4. Compleet(q) /\ DocVolledig(FALSE, FALSE)
  BY <1>1, <1>3, VanVolledig DEF DocVolledig
<1>5. q.rij = eio[v] /\ v \in DOMAIN eio /\ eio[v] \in Row
  <2>1. v \in DOMAIN eio
    BY <1>3, RecentsteLast, BoundsAssumption DEF IInv, Coherent
  <2> QED BY <1>3, <1>4, <2>1 DEF Compleet, IInv, TypeOK, IsTable
<1>6. ASSUME UNCHANGED <<canonical, eio>> PROVE Volledig'
  <2>1. DocVolledig(FALSE, FALSE)'
    BY <1>3, <1>4, <1>6, VolledigBlijft
  <2> QED BY <1>1, <1>3, <2>1, KlaarVolledig DEF IInv
<1>7. ASSUME NEW i \in BOOLEAN, SaveVersie(v, [q.rij EXCEPT !.indicatie = i]) PROVE Volledig'
  <2>1. PICK row : row = [q.rij EXCEPT !.indicatie = i]
    OBVIOUS
  <2>2. row.inhoud = eio[v].inhoud /\ row.omvang = eio[v].omvang
    BY <1>5, <2>1 DEF Row
  <2>3. canonical' = canonical /\ DOMAIN eio' = DOMAIN eio
    BY <1>3, <1>7, BewaardActueel
  <2>4. eio' = [eio EXCEPT ![v] = row]
    BY <1>7, <2>1 DEF SaveVersie
  <2>5. \A x \in DOMAIN eio : eio'[x].inhoud = eio[x].inhoud /\ eio'[x].omvang = eio[x].omvang
    BY <2>2, <2>4
  <2>6. MergedComplete'
    BY <1>4, <2>3, <2>5 DEF DocVolledig, MergedComplete
  <2>7. Recentste' = Recentste /\ (Bestaat' <=> Bestaat)
    BY <2>3 DEF Recentste, Bestaat
  <2>8. NeedsDelen(eio[Recentste])' <=> NeedsDelen(eio[Recentste])
    BY <1>3, <1>5, <2>5, <2>7 DEF NeedsDelen
  <2>9. DocVolledig(FALSE, FALSE)'
    BY <1>3, <1>4, <2>3, <2>6, <2>7, <2>8 DEF DocVolledig, EigenFiles, PartsHaveFiles
  <2> QED BY <1>1, <1>3, <2>9, KlaarVolledig DEF IInv
<1>8. CASE RechtSave(r)
  <2>1. UNCHANGED <<canonical, eio>> \/ SaveVersie(v, [q.rij EXCEPT !.indicatie = TRUE])
    BY <1>1, <1>2, <1>8 DEF RechtSave
  <2> QED BY <1>6, <1>7, <2>1
<1>9. CASE RechtDelete(r)
  <2>1. UNCHANGED <<canonical, eio>> \/ SaveVersie(v, [q.rij EXCEPT !.indicatie = FALSE])
    BY <1>1, <1>2, <1>9 DEF RechtDelete
  <2> QED BY <1>6, <1>7, <2>1
<1> QED BY <1>8, <1>9

LEMMA DestroyVolledig ==
  ASSUME IInv, EenTegelijk, Volledig, NEW r \in Requests, Destroy(r)
  PROVE  Volledig'
<1>1. req[r].fase = "delete" /\ Finish(r) /\ UNCHANGED <<weg, uploads>>
  BY DEF Destroy
<1>2. DocVolledig(FALSE, FALSE)
  BY <1>1, VanVolledig DEF DocVolledig
<1>3. CASE UNCHANGED <<canonical, eio, delen>>
  <2>1. DocVolledig(FALSE, FALSE)'
    BY <1>1, <1>2, <1>3, VolledigBlijft
  <2> QED BY <1>1, <2>1, KlaarVolledig DEF IInv
<1>4. CASE /\ canonical' = [stand |-> "vernietigd", lock |-> NoLock, latest |-> 0]
           /\ eio' = [v \in {} |-> LegeRij] /\ delen' = NoDelen
  <2>1. DOMAIN delen' = {} /\ DOMAIN eio' = {} /\ ~Bestaat'
    BY <1>4 DEF NoDelen, Bestaat
  <2>2. DocVolledig(FALSE, FALSE)'
    BY <1>1, <1>2, <2>1 DEF DocVolledig, EigenFiles, PartsHaveFiles, MergedComplete, Files
  <2> QED BY <1>1, <2>2, KlaarVolledig DEF IInv
<1> QED BY <1>3, <1>4 DEF Destroy

LEMMA CreateVolledig ==
  ASSUME IInv, Volledig, NEW omvang \in Omvang, Create(omvang)
  PROVE  Volledig'
<1>1. PICK row : row = [LegeRij EXCEPT !.omvang = omvang,
                                       !.inhoud = IF omvang = "klein" THEN Inline ELSE Geen]
  OBVIOUS
<1>2. eio' = Put(eio, 1, row) /\ delen' = IF NeedsDelen(row) THEN NewDelen(1) ELSE NoDelen
  BY <1>1 DEF Create
<1>3. locks' = IF NeedsDelen(row) THEN 1 ELSE 0
  BY <1>1 DEF Create
<1>4. canonical' = [stand |-> "bestaat", lock |-> locks', latest |-> 1]
  BY DEF Create
<1>5. req' = req /\ canonical.stand = "nieuw"
  BY DEF Create
<1>6. weg' = weg /\ uploads' = uploads
  BY DEF Create
<1>7. DOMAIN eio' = {1} /\ eio'[1] = row
  <2>1. DOMAIN eio = {}
    BY <1>5 DEF IInv, Coherent, DocCoherent, Bestaat
  <2> QED BY <1>2, <2>1 DEF Put
<1>8. Recentste' = 1
  <2>1. 1 \in Nat \ {0} /\ 1..1 = {1}
    OBVIOUS
  <2>2. MaxOf({1}) = 1
    BY <2>1, MaxOfInterval
  <2> QED BY <1>7, <2>2 DEF Recentste
<1>9. row.inhoud.soort # "merged"
  BY <1>1 DEF LegeRij, Inline, Geen
<1>10. DOMAIN delen' \in {{}, Deel} /\ \A n \in DOMAIN delen' : delen'[n].file = 0
  <2>1. CASE delen' = NewDelen(1)
    BY <2>1 DEF NewDelen
  <2>2. CASE delen' = NoDelen
    BY <2>2 DEF NoDelen
  <2> QED BY <1>2, <2>1, <2>2
<1>11. weg \subseteq 1..uploads /\ uploads \in Nat
  BY DEF IInv, TypeOK, Volledig, DocVolledig, EigenFiles
<1>12. EigenFiles' /\ PartsHaveFiles'
  BY <1>6, <1>10, <1>11 DEF EigenFiles, PartsHaveFiles, Files
<1>13. MergedComplete'
  BY <1>7, <1>9 DEF MergedComplete
<1>14. NeedsDelen(eio[Recentste])' => canonical'.lock # NoLock
  <2>1. NeedsDelen(eio[Recentste])' <=> NeedsDelen(row)
    BY <1>7, <1>8 DEF NeedsDelen
  <2> QED BY <1>3, <1>4, <2>1 DEF NoLock
<1>15. \A s \in Requests : req[s].fase = "vrij"
  BY <1>5 DEF IInv, Coherent, ReqCoherent
<1>16. DocVolledig(FALSE, FALSE)'
  BY <1>10, <1>12, <1>13, <1>14 DEF DocVolledig
<1>17. ASSUME NEW s \in Requests PROVE Compleet(req[s])'
  <2>1. PICK q : q = req[s]
    OBVIOUS
  <2>2. Compleet(q)'
    BY <1>15, <2>1, VrijCompleet
  <2> QED BY <1>5, <2>1, <2>2
<1> QED BY <1>5, <1>15, <1>16, <1>17 DEF Volledig, DocVolledig

LEMMA InitVolledig == Init => Volledig
<1> SUFFICES ASSUME Init PROVE Volledig
  OBVIOUS
<1>1. \A r \in Requests : req[r].fase = "vrij" /\ req[r] = Idle
  BY DEF Init, Idle
<1>2. Compleet(Idle)
  BY VrijCompleet DEF Idle
<1>3. DOMAIN delen = {} /\ DOMAIN eio = {} /\ weg = {} /\ ~Bestaat
  BY DEF Init, NoDelen, Bestaat
<1>4. EigenFiles /\ PartsHaveFiles /\ MergedComplete
  BY <1>3 DEF EigenFiles, PartsHaveFiles, MergedComplete, Files
<1> QED BY <1>1, <1>2, <1>3, <1>4 DEF Volledig, DocVolledig

LEMMA VolledigStap ==
  /\ BoundsAssumption /\ IInv /\ EenTegelijk /\ EenTegelijk' /\ Actueel
  /\ GeenDwang /\ GeenDwang' /\ Volledig /\ [Next]_vars
  => Volledig'
<1> SUFFICES ASSUME BoundsAssumption, IInv, EenTegelijk, EenTegelijk', Actueel, GeenDwang,
                    GeenDwang', Volledig, [Next]_vars
             PROVE  Volledig'
  OBVIOUS
<1>1. ASSUME NEW omvang \in Omvang, Create(omvang) PROVE Volledig'
  BY <1>1, CreateVolledig
<1>2. ASSUME NEW r \in Requests,
             \/ LockRead(r) \/ ForceUnlockRead(r) \/ RechtRead(r) \/ DestroyRead(r)
             \/ \E pk \in rechten : RechtDeleteRead(r, pk)
             \/ \E lock \in Lock : UnlockRead(r, lock)
             \/ \E lock \in Lock, op \in {"patch", "put"} : UpdateRead(r, lock, op)
             \/ \E lock \in Lock, nr \in Deel : UploadRead(r, lock, nr)
      PROVE  Volledig'
  BY <1>2, LeesVolledig
<1>3. ASSUME NEW r \in Requests,
             \/ LockSave(r) \/ UnlockSave(r) \/ UnlockEmpty(r) \/ UnlockMerge(r) \/ UnlockDone(r)
             \/ UploadSave(r) \/ RechtSave(r) \/ RechtDelete(r) \/ Destroy(r)
      PROVE  Volledig'
  BY <1>3, LockSaveVolledig, UnlockSaveVolledig, UnlockEmptyVolledig, MergeVolledig,
     UnlockDoneVolledig, UploadSaveVolledig, RechtVolledig, DestroyVolledig
<1>4. ASSUME NEW r \in Requests, UnlockForget(r) \/ UnlockParts(r) PROVE Volledig'
  BY <1>4, GeenForget
<1>5. ASSUME NEW r \in Requests, NEW n \in Deel, UnlockWipe(r, n) PROVE Volledig'
  BY <1>5, WipeVolledig
<1>6. ASSUME NEW r \in Requests, NEW n \in Deel, NEW cleared \in BOOLEAN, CrashInWipe(r, n, cleared)
      PROVE  Volledig'
  BY <1>6, GeenFout
<1>7. ASSUME NEW r \in Requests, NEW file \in Omvang \cup {"zelfde"}, UpdateSave(r, file)
      PROVE  Volledig'
  BY <1>7, UpdateSaveVolledig
<1>8. ASSUME NEW r \in Requests, Crash(r) \/ UpdateRollback(r) PROVE Volledig'
  <2>1. 1 \in Deel
    BY BoundsAssumption DEF Deel, BoundsAssumption
  <2> QED BY <1>8, <2>1, GeenFout
<1>9. ASSUME NEW r \in Requests, NEW object \in {"zaak", "besluit"},
             Relate(r, object) \/ Unrelate(r, object)
      PROVE  Volledig'
  BY <1>9, VastVolledig DEF Relate, Unrelate, docVars, fileVars
<1>10. CASE UNCHANGED vars
  BY <1>10, VastVolledig DEF vars
<1> QED BY <1>1, <1>2, <1>3, <1>4, <1>5, <1>6, <1>7, <1>8, <1>9, <1>10 DEF Next

LEMMA VolledigGoed == Volledig => UploadsComplete
<1> SUFFICES ASSUME Volledig PROVE UploadsComplete
  OBVIOUS
<1>1. UnlockedHasFile
  BY DEF Volledig, DocVolledig, UnlockedHasFile
<1> QED BY <1>1 DEF Volledig, DocVolledig, UploadsComplete

-----------------------------------------------------------------------------
(* The behaviours that the run explores, for any number of requests,       *)
(* versions, locks, uploads, rights and faults.                            *)

DeelInv ==
  /\ onderwerp # "samen" => EenTegelijk /\ Actueel
  /\ onderwerp = "document" => GeenDwang /\ Volledig

LEMMA DeelInvInit == DeelInit => DeelInv
<1>1. Init => EenTegelijk /\ GeenDwang
  BY DEF Init, EenTegelijk, GeenDwang, Idle
<1> QED BY <1>1, InitActueel, InitVolledig DEF DeelInit, DeelInv

LEMMA DeelInvStap ==
  BoundsAssumption /\ IInv /\ DeelInv /\ [DeelNext]_<<vars, onderwerp>> => DeelInv'
<1> SUFFICES ASSUME BoundsAssumption, IInv, DeelInv, [DeelNext]_<<vars, onderwerp>>
             PROVE  DeelInv'
  OBVIOUS
<1>1. onderwerp' = onderwerp /\ [Next]_vars
  BY DEF DeelNext
<1>2. onderwerp # "samen" => EenTegelijk'
  BY DEF DeelNext, DeelInv, vars, EenTegelijk
<1>3. onderwerp = "document" => GeenDwang'
  <2>1. CASE UNCHANGED vars
    BY <2>1 DEF DeelInv, GeenDwang, vars
  <2>2. CASE DeelNext
    BY <2>2 DEF DeelNext, GeenDwang
  <2> QED BY <2>1, <2>2
<1>4. onderwerp # "samen" => Actueel'
  BY <1>1, <1>2, ActueelStap DEF DeelInv
<1>5. onderwerp = "document" => Volledig'
  BY <1>1, <1>2, <1>3, VolledigStap DEF DeelInv
<1> QED BY <1>1, <1>2, <1>3, <1>4, <1>5 DEF DeelInv

LEMMA DeelInvariant == DeelSpec => [](IInv /\ DeelInv)
<1>1. DeelInit => Init
  BY DEF DeelInit
<1>2. [DeelNext]_<<vars, onderwerp>> => [Next]_vars
  BY DEF DeelNext
<1>3. DeelSpec => Spec
  BY <1>1, <1>2, PTL DEF DeelSpec, Spec
<1>4. BoundsAssumption
  BY BoundsAssumption
<1> QED BY <1>3, <1>4, Invariance, DeelInvInit, DeelInvStap, PTL DEF DeelSpec

\* When requests follow each other, the pointer and the parts of an upload are those of the
\* newest version, whatever fails; and as long as no lock is overruled and no worker fails, parts
\* that count as uploaded have their files, a merged file is one whole upload, and a large
\* document that is not locked has its file.
THEOREM UploadsCompleet == DeelSpec => []UploadsBlijven
<1>1. DeelInv => UploadsBlijven
  BY VolledigGoed DEF DeelInv, Actueel, DocActueel, UploadsBlijven
<1> QED BY <1>1, DeelInvariant, PTL

\* When requests follow each other they implement check-out, whatever fails: a lock is given to
\* one client at a time and never twice, a version is stored while the document is locked, and a
\* document that is locked is not destroyed.
THEOREM Uitgecheckt == DeelSpec => SerieelCheckout
<1>1. DeelInit => CO!Init
  BY DEF DeelInit, Init, CO!Init, NoLock
<1>2. BoundsAssumption
  BY BoundsAssumption
<1>3. IInv /\ DeelInv /\ [DeelNext]_<<vars, onderwerp>>
      => [onderwerp = "samen" \/ CO!Next]_<<CO!vars, onderwerp>>
  <2> SUFFICES ASSUME IInv, DeelInv, [DeelNext]_<<vars, onderwerp>>, onderwerp # "samen"
               PROVE  CO!Next \/ UNCHANGED <<CO!vars, onderwerp>>
    OBVIOUS
  <2>1. onderwerp' = onderwerp /\ [Next]_vars
    BY DEF DeelNext
  <2>2. [CO!Next]_(CO!vars)
    BY <1>2, <2>1, CheckoutStap DEF DeelInv
  <2> QED BY <2>1, <2>2
<1> QED BY <1>1, <1>3, DeelInvariant, PTL DEF DeelSpec, SerieelCheckout

\* The same for the requests of any behaviour that follow each other.
THEOREM ImplementeertCheckout == Spec /\ []EenTegelijk => ImplementsCheckout
<1>1. Init => CO!Init
  BY DEF Init, CO!Init, NoLock
<1>2. BoundsAssumption
  BY BoundsAssumption
<1>3. Spec /\ []EenTegelijk => []Actueel
  BY <1>2, InitActueel, ActueelStap, Invariance, PTL DEF Spec
<1> QED BY <1>1, <1>2, <1>3, CheckoutStap, Invariance, PTL DEF Spec, ImplementsCheckout, CO!Spec

-----------------------------------------------------------------------------
(* Numbers and dispatches, in any interleaving: what a request that is     *)
(* about to write may rely on although others wrote since it read.         *)

TaakVorm(t) ==
  /\ t.op \in {"maak", "wijzig"} => Len(t.nieuw) = 1 /\ t.versie < MaxVersies
  /\ t.op \in {"reserveer", "verzending"} => t.nieuw = <<>>
  /\ t.op = "verzending" => t.verz \in Verzendingen /\ t.rij \in Verzonden

\* The number of a row is free, but for an update that names it, or was taken meanwhile.
NogVrij(t) ==
  \A i \in DOMAIN t.nieuw : t.op # "wijzig" \/ ~t.nieuw[i].genoemd =>
    \A e \in Docs \ {t.nieuw[i].doc} : t.nieuw[i].sleutel \in Sleutels(e) => t.nieuw[i].sleutel \in ingehaald

\* A number that was generated is not reserved, or was reserved meanwhile.
NogOngereserveerd(t) ==
  t.op # "importeer" =>
    \A i \in DOMAIN t.nieuw : ~t.nieuw[i].genoemd /\ t.nieuw[i].sleutel \in gereserveerd =>
      t.nieuw[i].sleutel \in ingehaald

\* Numbers that are about to be reserved are unused, or were used meanwhile.
NogOngebruikt(t) == t.sleutels \cap Gebruikt \subseteq ingehaald

\* The documents of a batch are not there yet,
BatchNieuw(t) == t.op = "importeer" => \A i \in DOMAIN t.nieuw : ~Aanwezig(t.nieuw[i].doc)

\* nor do other requests write them.
Apart(t, u) ==
  t.op = "importeer" => \A i \in DOMAIN t.nieuw, j \in DOMAIN u.nieuw : t.nieuw[i].doc # u.nieuw[j].doc

NogGeldig(t) ==
  TaakVorm(t) /\ NogVrij(t) /\ NogOngereserveerd(t) /\ NogOngebruikt(t) /\ BatchNieuw(t)

RequestsKloppen ==
  /\ \A w \in Werkers : tx[w] # Niets => NogGeldig(tx[w])
  /\ \A w, v \in Werkers : w # v /\ tx[w] # Niets /\ tx[v] # Niets => Apart(tx[w], tx[v])

RegistratieInv == RegistratieTypeOK /\ NummerEenmaal /\ RequestsKloppen

-----------------------------------------------------------------------------
(* Lemmas about the operators of the registration. *)

\* The greatest of some numbers is one of them.
LEMMA GrootsteVan ==
  ASSUME NEW G \in SUBSET (0..MaxNr), G # {}
  PROVE  MaxVan(G) \in G /\ \A y \in G : y <= MaxVan(G)
<1> DEFINE Voor == {ss \in Nat \X Nat : ss[1] < ss[2]}
           Rest == {MaxNr - g : g \in G}
<1> USE RegistratieAssumption
<1>1. \A g \in G : g \in Nat /\ MaxNr - g \in Nat
  OBVIOUS
<1>2. Rest \subseteq Nat /\ Rest # {}
  BY <1>1
<1>3. IsWellFoundedOn(Voor, Nat)
  BY NatLessThanWellFounded DEF OpToRel
<1>4. PICK m \in Rest : \A n \in Rest : ~(<<n, m>> \in Voor)
  <2> HIDE DEF Voor, Rest
  <2>1. QED
    BY <1>2, <1>3, WFMin
<1>5. PICK g \in G : m = MaxNr - g
  BY <1>4
<1>6. ASSUME NEW y \in G PROVE y <= g
  <2>1. MaxNr - y \in Rest /\ MaxNr - y \in Nat /\ m \in Nat
    BY <1>1, <1>2
  <2>2. <<MaxNr - y, m>>[1] = MaxNr - y /\ <<MaxNr - y, m>>[2] = m
    OBVIOUS
  <2>3. ~(MaxNr - y < m)
    BY <1>4, <2>1, <2>2
  <2>4. QED
    BY <1>1, <1>5, <2>3
<1>7. QED
  BY <1>6 DEF MaxVan

\* Documents have numbers of the model; one that is not there has none.
LEMMA SleutelsVan ==
  ASSUME RegistratieTypeOK, NEW d \in Docs
  PROVE  /\ Sleutels(d) \subseteq Sleutel
         /\ ~Aanwezig(d) => Sleutels(d) = {}
         /\ Sleutels(d) \subseteq Gebruikt
<1>1. rijen[d] \in Seq(Sleutel)
  BY DEF RegistratieTypeOK
<1>2. \A i \in DOMAIN rijen[d] : rijen[d][i] \in Sleutel
  BY <1>1
<1>3. QED
  BY <1>1, <1>2 DEF Sleutels, Aanwezig, Gebruikt

\* No document has a number after the greatest, nor did the organisation reserve one.
LEMMA NaHoogste ==
  ASSUME RegistratieTypeOK, NEW org \in Orgs
  PROVE  /\ Hoogste(org) \in 0..MaxNr
         /\ \A k \in Gebruikt : k.nr <= Hoogste(org)
         /\ \A k \in gereserveerd : k.org = org => k.nr <= Hoogste(org)
<1> DEFINE G == Nrs(Gebruikt) \cup Nrs({k \in gereserveerd : k.org = org}) \cup {0}
<1>1. Gebruikt \subseteq Sleutel /\ gereserveerd \subseteq Sleutel
  BY SleutelsVan DEF Gebruikt, RegistratieTypeOK
<1>2. \A k \in Sleutel : k.nr \in 0..MaxNr
  BY RegistratieAssumption DEF Sleutel
<1>3. G \in SUBSET (0..MaxNr) /\ G # {}
  BY <1>1, <1>2, RegistratieAssumption DEF Nrs
<1>4. MaxVan(G) \in G /\ \A y \in G : y <= MaxVan(G)
  <2> HIDE DEF G
  <2>1. QED BY <1>3, GrootsteVan
<1>5. /\ \A k \in Gebruikt : k.nr \in G
      /\ \A k \in gereserveerd : k.org = org => k.nr \in G
  BY DEF Nrs
<1>6. Hoogste(org) = MaxVan(G)
  BY DEF Hoogste
<1> HIDE DEF G
<1>7. QED
  BY <1>3, <1>4, <1>5, <1>6

\* The import counts on from the greatest number of a document.
LEMMA NaHoogsteVanDocumenten ==
  ASSUME RegistratieTypeOK
  PROVE  HoogsteVanDocumenten \in 0..MaxNr /\ \A k \in Gebruikt : k.nr <= HoogsteVanDocumenten
<1> DEFINE G == Nrs(Gebruikt) \cup {0}
<1>1. Gebruikt \subseteq Sleutel
  BY SleutelsVan DEF Gebruikt
<1>2. \A k \in Sleutel : k.nr \in 0..MaxNr
  BY RegistratieAssumption DEF Sleutel
<1>3. G \in SUBSET (0..MaxNr) /\ G # {}
  BY <1>1, <1>2, RegistratieAssumption DEF Nrs
<1>4. MaxVan(G) \in G /\ \A y \in G : y <= MaxVan(G)
  <2> HIDE DEF G
  <2>1. QED BY <1>3, GrootsteVan
<1>5. \A k \in Gebruikt : k.nr \in G
  BY DEF Nrs
<1>6. HoogsteVanDocumenten = MaxVan(G)
  BY DEF HoogsteVanDocumenten
<1> HIDE DEF G
<1>7. QED
  BY <1>3, <1>4, <1>5, <1>6

\* A number after the greatest is not in use.
LEMMA NieuwIsVrij ==
  ASSUME RegistratieTypeOK, NEW k \in Sleutel, k.nr > HoogsteVanDocumenten
  PROVE  k \notin Gebruikt
<1>1. k.nr \in Int
  BY RegistratieAssumption DEF Sleutel
<1>2. QED
  BY <1>1, NaHoogsteVanDocumenten

\* The parts of a request.
LEMMA VanVerzoek ==
  ASSUME NEW t \in Verzoek
  PROVE  /\ t.nieuw \in Seq(Rij) /\ DOMAIN t.nieuw = 1..Len(t.nieuw)
         /\ \A i \in DOMAIN t.nieuw : /\ t.nieuw[i].doc \in Docs
                                     /\ t.nieuw[i].sleutel \in Sleutel
                                     /\ t.nieuw[i].genoemd \in BOOLEAN
         /\ t.sleutels \subseteq Sleutel
         /\ t.versie \in 0..MaxVersies
<1>1. t.nieuw \in Seq(Rij) /\ t.sleutels \subseteq Sleutel /\ t.versie \in 0..MaxVersies
  BY DEF Verzoek
<1>2. \A i \in DOMAIN t.nieuw : t.nieuw[i] \in Rij
  BY <1>1
<1>3. QED
  BY <1>1, <1>2 DEF Rij

\* What a request relies on keeps holding when another one gives numbers K to documents D and
\* reserves the numbers S, as long as the numbers they have in common are recorded.
LEMMA GeldigBlijft ==
  ASSUME NEW t \in Verzoek, NogGeldig(t), NEW D, NEW K, NEW S,
         \A e \in Docs : /\ Sleutels(e)' \subseteq Sleutels(e) \cup K
                         /\ e \notin D => Sleutels(e)' \subseteq Sleutels(e)
                         /\ e \notin D /\ Aanwezig(e)' => Aanwezig(e),
         gereserveerd' \subseteq gereserveerd \cup S,
         ingehaald \subseteq ingehaald',
         K \cap t.sleutels \subseteq ingehaald',
         \A i \in DOMAIN t.nieuw :
           /\ t.nieuw[i].sleutel \in K /\ t.nieuw[i].doc \notin D => t.nieuw[i].sleutel \in ingehaald'
           /\ t.nieuw[i].sleutel \in S => t.nieuw[i].sleutel \in ingehaald'
           /\ t.nieuw[i].doc \in D => D = {t.nieuw[i].doc} /\ t.op # "importeer"
  PROVE  NogGeldig(t)'
<1>1. TaakVorm(t)'
  BY DEF NogGeldig, TaakVorm
<1>2. NogVrij(t)'
  <2>1. SUFFICES ASSUME NEW i \in DOMAIN t.nieuw, t.op # "wijzig" \/ ~t.nieuw[i].genoemd,
                        NEW e \in Docs \ {t.nieuw[i].doc}, t.nieuw[i].sleutel \in Sleutels(e)'
                 PROVE  t.nieuw[i].sleutel \in ingehaald'
    BY Zenon DEF NogVrij
  <2>2. CASE t.nieuw[i].sleutel \in Sleutels(e)
    BY <2>1, <2>2, Zenon DEF NogGeldig, NogVrij
  <2>3. CASE t.nieuw[i].sleutel \notin Sleutels(e)
    <3>1. t.nieuw[i].sleutel \in K /\ e \in D
      BY <2>1, <2>3
    <3>2. t.nieuw[i].doc \notin D
      BY <2>1, <3>1
    <3>3. QED BY <3>1, <3>2
  <2>4. QED BY <2>2, <2>3
<1>3. NogOngereserveerd(t)'
  BY DEF NogGeldig, NogOngereserveerd
<1>4. NogOngebruikt(t)'
  BY DEF NogGeldig, NogOngebruikt, Gebruikt
<1>5. BatchNieuw(t)'
  <2>1. SUFFICES ASSUME t.op = "importeer", NEW i \in DOMAIN t.nieuw PROVE ~Aanwezig(t.nieuw[i].doc)'
    BY DEF BatchNieuw
  <2>2. t.nieuw[i].doc \in Docs
    BY VanVerzoek
  <2>3. t.nieuw[i].doc \notin D /\ ~Aanwezig(t.nieuw[i].doc)
    BY <2>1 DEF NogGeldig, BatchNieuw
  <2>4. QED BY <2>2, <2>3
<1>6. QED
  BY <1>1, <1>2, <1>3, <1>4, <1>5 DEF NogGeldig

\* The documents and the numbers that a request is going to write
DocsVan(w) == {tx[w].nieuw[i].doc : i \in DOMAIN tx[w].nieuw}
SleutelsVoor(w) == {tx[w].nieuw[i].sleutel : i \in DOMAIN tx[w].nieuw}

\* A number that two requests are going to take is recorded when the first one takes it.
LEMMA HaaltOp ==
  ASSUME NEW w \in Werkers, NEW v \in Werkers \ {w}, tx[v] # Niets, Haalt(w),
         NEW k \in SleutelsVoor(w) \cup tx[w].sleutels
  PROVE  /\ ingehaald \subseteq ingehaald'
         /\ k \in tx[v].sleutels => k \in ingehaald'
         /\ \A i \in DOMAIN tx[v].nieuw :
              tx[v].nieuw[i].sleutel = k /\ tx[v].nieuw[i].doc \notin DocsVan(w) => k \in ingehaald'
<1>1. k \in Neemt(w, {})
  BY DEF Neemt, SleutelsVoor
<1>2. v \in {u \in Werkers \ {w} : tx[u] # Niets}
  OBVIOUS
<1>3. k \in Neemt(v, DocsVan(w)) => k \in ingehaald'
  <2> DEFINE Samen(u) == Neemt(w, {}) \cap Neemt(u, DocsVan(w))
             Overige == {u \in Werkers \ {w} : tx[u] # Niets}
  <2>1. ingehaald' = ingehaald \cup UNION {Samen(u) : u \in Overige}
    BY Zenon DEF Haalt, DocsVan
  <2>2. k \in Neemt(v, DocsVan(w)) => k \in Samen(v)
    BY <1>1
  <2>3. v \in Overige
    BY <1>2
  <2> HIDE DEF Samen, Overige
  <2>4. QED BY <2>1, <2>2, <2>3
<1>4. ingehaald \subseteq ingehaald'
  BY DEF Haalt
<1>5. k \in tx[v].sleutels => k \in Neemt(v, DocsVan(w))
  BY DEF Neemt
<1>6. ASSUME NEW i \in DOMAIN tx[v].nieuw, tx[v].nieuw[i].sleutel = k,
             tx[v].nieuw[i].doc \notin DocsVan(w)
      PROVE  k \in Neemt(v, DocsVan(w))
  BY <1>6 DEF Neemt
<1>7. QED
  BY <1>3, <1>4, <1>5, <1>6

\* What is recorded are numbers.
LEMMA HaaltType ==
  ASSUME RegistratieTypeOK, NEW w \in Werkers, tx[w] # Niets, Haalt(w)
  PROVE  ingehaald \subseteq ingehaald' /\ ingehaald' \subseteq Sleutel /\ Neemt(w, {}) \subseteq Sleutel
<1> DEFINE Samen(v) == Neemt(w, {}) \cap Neemt(v, {tx[w].nieuw[i].doc : i \in DOMAIN tx[w].nieuw})
<1>1. ingehaald' = ingehaald \cup UNION {Samen(v) : v \in {u \in Werkers \ {w} : tx[u] # Niets}}
  BY Zenon DEF Haalt
<1>2. \A v \in Werkers : Samen(v) \subseteq Neemt(w, {})
  OBVIOUS
<1>3. PICK q \in Verzoek : q = tx[w]
  BY DEF RegistratieTypeOK
<1>4. Neemt(w, {}) \subseteq Sleutel
  BY <1>3, VanVerzoek DEF Neemt
<1>5. ingehaald \subseteq Sleutel
  BY DEF RegistratieTypeOK
<1> HIDE DEF Samen
<1>6. QED
  BY <1>1, <1>2, <1>4, <1>5

\* Types of the requests, when one of them starts or ends.
LEMMA TaakType ==
  ASSUME RegistratieTypeOK, NEW w \in Werkers, NEW t \in Verzoek \cup {Niets}, Met(w, t)
  PROVE  /\ DOMAIN tx' = Werkers /\ tx'[w] = t
         /\ \A v \in Werkers \ {w} : tx'[v] = tx[v]
         /\ \A v \in Werkers : tx'[v] = Niets \/ tx'[v] \in Verzoek
BY DEF RegistratieTypeOK, Met

\* w gives numbers K to documents D and reserves S; what others were going to take is recorded.
GeeftUit(w, D, K, S) ==
  /\ \A e \in Docs : /\ Sleutels(e)' \subseteq Sleutels(e) \cup K
                     /\ e \notin D => Sleutels(e)' \subseteq Sleutels(e)
                     /\ e \notin D /\ Aanwezig(e)' => Aanwezig(e)
  /\ gereserveerd' \subseteq gereserveerd \cup S
  /\ ingehaald \subseteq ingehaald'
  /\ \A v \in Werkers \ {w} : tx[v] # Niets =>
       /\ K \cap tx[v].sleutels \subseteq ingehaald'
       /\ \A i \in DOMAIN tx[v].nieuw :
            /\ tx[v].nieuw[i].sleutel \in K /\ tx[v].nieuw[i].doc \notin D =>
                 tx[v].nieuw[i].sleutel \in ingehaald'
            /\ tx[v].nieuw[i].sleutel \in S => tx[v].nieuw[i].sleutel \in ingehaald'
            /\ tx[v].nieuw[i].doc \in D => D = {tx[v].nieuw[i].doc} /\ tx[v].op # "importeer"

\* The requests that are left rely on what holds after one of them wrote.
LEMMA AnderenKloppen ==
  ASSUME RegistratieTypeOK, RequestsKloppen, NEW w \in Werkers, Met(w, Niets), NEW D, NEW K, NEW S,
         GeeftUit(w, D, K, S)
  PROVE  RequestsKloppen'
<1>1. tx'[w] = Niets /\ \A v \in Werkers \ {w} : tx'[v] = tx[v]
  BY TaakType
<1>2. ASSUME NEW v \in Werkers, tx'[v] # Niets PROVE NogGeldig(tx[v])' 
  <2>1. v # w /\ tx'[v] = tx[v] /\ tx[v] # Niets
    BY <1>1, <1>2
  <2>2. PICK t \in Verzoek : t = tx[v]
    BY <2>1 DEF RegistratieTypeOK
  <2>3. NogGeldig(t)
    BY <2>1, <2>2 DEF RequestsKloppen
  <2>4. /\ K \cap t.sleutels \subseteq ingehaald'
        /\ \A i \in DOMAIN t.nieuw :
             /\ t.nieuw[i].sleutel \in K /\ t.nieuw[i].doc \notin D => t.nieuw[i].sleutel \in ingehaald'
             /\ t.nieuw[i].sleutel \in S => t.nieuw[i].sleutel \in ingehaald'
             /\ t.nieuw[i].doc \in D => D = {t.nieuw[i].doc} /\ t.op # "importeer"
    BY <2>1, <2>2 DEF GeeftUit
  <2>5. /\ \A e \in Docs : /\ Sleutels(e)' \subseteq Sleutels(e) \cup K
                           /\ e \notin D => Sleutels(e)' \subseteq Sleutels(e)
                           /\ e \notin D /\ Aanwezig(e)' => Aanwezig(e)
        /\ gereserveerd' \subseteq gereserveerd \cup S
        /\ ingehaald \subseteq ingehaald'
    BY Zenon DEF GeeftUit
  <2>6. NogGeldig(t)'
    BY <2>3, <2>4, <2>5, GeldigBlijft
  <2>7. t = tx'[v]
    BY <2>1, <2>2
  <2>8. QED BY <2>6, <2>7
<1>3. ASSUME NEW v \in Werkers, NEW u \in Werkers, v # u, tx'[v] # Niets, tx'[u] # Niets
      PROVE  Apart(tx'[v], tx'[u])
  BY <1>1, <1>3 DEF RequestsKloppen, Apart
<1>4. QED
  BY <1>2, <1>3 DEF RequestsKloppen, Apart

\* A request that starts relies on what it read, and the others notice nothing.
LEMMA LezenHoudt ==
  ASSUME RegistratieInv, NEW w \in Werkers, NEW t \in Verzoek, Lees(w, t), NogGeldig(t),
         \A v \in Werkers \ {w} : tx[v] # Niets => Apart(t, tx[v]) /\ Apart(tx[v], t)
  PROVE  RegistratieInv'
<1>1. /\ DOMAIN tx' = Werkers /\ tx'[w] = t
      /\ \A v \in Werkers \ {w} : tx'[v] = tx[v]
      /\ \A v \in Werkers : tx'[v] = Niets \/ tx'[v] \in Verzoek
  BY TaakType DEF Lees, RegistratieInv
<1>2. UNCHANGED <<rijen, gereserveerd, verzending, ingehaald, dubbel, overgenomen, voorbij>>
  BY DEF Lees, merken
<1>3. RegistratieTypeOK'
  BY <1>1, <1>2 DEF RegistratieInv, RegistratieTypeOK, Aanwezig
<1>4. NummerEenmaal'
  BY <1>2 DEF RegistratieInv, NummerEenmaal, EenDocumentPerNummer, ReserveringVrij, Sleutels, Gebruikt
<1>5. ASSUME NEW u, NogGeldig(u) PROVE NogGeldig(u)'
  BY <1>2, <1>5 DEF NogGeldig, TaakVorm, NogVrij, NogOngereserveerd, NogOngebruikt, BatchNieuw,
                    Sleutels, Gebruikt, Aanwezig
<1>6. ASSUME NEW v \in Werkers, tx'[v] # Niets PROVE NogGeldig(tx[v])'
  <2>1. PICK u : u = tx'[v]
    OBVIOUS
  <2>2. NogGeldig(u)
    BY <1>1, <1>6, <2>1 DEF RegistratieInv, RequestsKloppen
  <2>3. NogGeldig(u)'
    BY <2>2, <1>5
  <2>4. QED BY <2>1, <2>3
<1>7. ASSUME NEW v \in Werkers, NEW u \in Werkers, v # u, tx'[v] # Niets, tx'[u] # Niets
      PROVE  Apart(tx[v], tx[u])'
  BY <1>1, <1>7 DEF RegistratieInv, RequestsKloppen, Apart
<1>8. QED
  BY <1>3, <1>4, <1>6, <1>7 DEF RegistratieInv, RequestsKloppen

-----------------------------------------------------------------------------
(* Reading. *)

\* The requests of each kind
MetRij(op, nieuw, n) == [Taak(op) EXCEPT !.nieuw = nieuw, !.versie = n]

LEMMA TaakMetRij ==
  ASSUME NEW op \in {"maak", "wijzig"}, NEW nieuw \in Seq(Rij), NEW n \in 0..MaxVersies
  PROVE  /\ MetRij(op, nieuw, n) \in Verzoek
         /\ MetRij(op, nieuw, n).op = op
         /\ MetRij(op, nieuw, n).nieuw = nieuw
         /\ MetRij(op, nieuw, n).versie = n
         /\ MetRij(op, nieuw, n).sleutels = {}
BY DEF MetRij, Taak, Verzoek

LEMMA TaakMetBatch ==
  ASSUME NEW nieuw \in Seq(Rij), NEW t, t = [Taak("importeer") EXCEPT !.nieuw = nieuw]
  PROVE  t \in Verzoek /\ t.op = "importeer" /\ t.nieuw = nieuw /\ t.sleutels = {}
BY RegistratieAssumption DEF Taak, Verzoek

LEMMA TaakMetSleutels ==
  ASSUME NEW S \in SUBSET Sleutel, NEW t, t = [Taak("reserveer") EXCEPT !.sleutels = S]
  PROVE  t \in Verzoek /\ t.op = "reserveer" /\ t.nieuw = <<>> /\ t.sleutels = S
<1>1. t.op = "reserveer" /\ t.nieuw = <<>> /\ t.sleutels = S
  BY DEF Taak
<1>2. PICK leeg : leeg = Taak("reserveer")
  OBVIOUS
<1>3. leeg \in Verzoek
  BY <1>2, RegistratieAssumption DEF Taak, Verzoek
<1>4. t \in Verzoek
  BY <1>2, <1>3 DEF Verzoek
<1>5. QED
  BY <1>1, <1>4

MetVerzending(v, r) == [Taak("verzending") EXCEPT !.verz = v, !.rij = r]

LEMMA TaakMetVerzending ==
  ASSUME NEW v \in Verzendingen, NEW r \in Verzonden
  PROVE  LET t == MetVerzending(v, r)
         IN  /\ t \in Verzoek /\ t.op = "verzending" /\ t.nieuw = <<>> /\ t.sleutels = {}
             /\ t.verz = v /\ t.rij = r
<1> DEFINE t == MetVerzending(v, r)
<1>1. t.op = "verzending" /\ t.nieuw = <<>> /\ t.verz = v /\ t.rij = r /\ t.sleutels = {}
  BY DEF MetVerzending, Taak
<1>2. PICK leeg : leeg = Taak("verzending")
  OBVIOUS
<1>3. leeg \in Verzoek
  BY <1>2, RegistratieAssumption DEF Taak, Verzoek
<1>4. t \in Verzoek
  BY <1>2, <1>3 DEF MetVerzending, Verzoek
<1>5. QED
  BY <1>1, <1>4, Zenon

\* A new version of a document that no import is going to make
LEMMA NieuweVersieHoudt ==
  ASSUME RegistratieInv, NEW w \in Werkers, NEW op \in {"maak", "wijzig"}, NEW d \in Docs,
         NEW org \in Orgs, NEW nr \in 0..MaxNr, NieuweVersie(w, op, d, org, nr),
         Len(rijen[d]) < MaxVersies,
         op = "maak" /\ nr # 0 => Vrij(Nummer(org, nr), d),
         \A v \in Werkers \ {w} : tx[v] # Niets /\ tx[v].op = "importeer" =>
           \A i \in DOMAIN tx[v].nieuw : tx[v].nieuw[i].doc # d
  PROVE  RegistratieInv'
<1>1. PICK k : k = Nummer(org, IF nr = 0 THEN Hoogste(org) + 1 ELSE nr)
  OBVIOUS
<1>2. PICK n \in 0..MaxVersies : n = Len(rijen[d])
  BY DEF RegistratieInv, RegistratieTypeOK
<1> DEFINE rij == [doc |-> d, sleutel |-> k, genoemd |-> nr # 0]
<1>3. k \in Sleutel /\ Lees(w, MetRij(op, <<rij>>, n))
  BY <1>1, <1>2, Zenon DEF NieuweVersie, VanDoc, MetRij
<1>4. rij \in Rij /\ rij.doc = d /\ rij.sleutel = k /\ rij.genoemd = (nr # 0)
  BY <1>3 DEF Rij
<1> HIDE DEF rij
<1>5. PICK rijtje \in Seq(Rij) : rijtje = <<rij>>
  <2>1. <<rij>> \in Seq(Rij)
    BY <1>4
  <2>2. QED BY <2>1, Zenon
<1>6. DOMAIN rijtje = {1} /\ rijtje[1] = rij /\ Len(rijtje) = 1
  BY <1>5
<1> DEFINE t == MetRij(op, rijtje, n)
<1>7. t \in Verzoek /\ t.op = op /\ t.versie = n /\ t.sleutels = {} /\ t.nieuw = rijtje
  BY TaakMetRij
<1>8. Lees(w, t)
  BY <1>3, <1>5
<1> HIDE DEF t
<1>9. nr = 0 => k \notin Gebruikt /\ k \notin gereserveerd
  <2>1. nr = 0 => k.nr = Hoogste(org) + 1 /\ k.org = org
    BY <1>1 DEF Nummer
  <2>2. QED BY <2>1, NaHoogste DEF RegistratieInv
<1>10. op = "maak" /\ nr # 0 => \A e \in Docs \ {d} : k \notin Sleutels(e)
  BY <1>1 DEF Vrij
<1>11. nr = 0 => \A e \in Docs : k \notin Sleutels(e)
  BY <1>9 DEF Gebruikt
<1>12. NogGeldig(t)
  <2>1. TaakVorm(t)
    BY <1>2, <1>6, <1>7 DEF TaakVorm
  <2>2. NogVrij(t)
    BY <1>4, <1>6, <1>7, <1>10, <1>11 DEF NogVrij
  <2>3. NogOngereserveerd(t) /\ NogOngebruikt(t) /\ BatchNieuw(t)
    BY <1>4, <1>6, <1>7, <1>9 DEF NogOngereserveerd, NogOngebruikt, BatchNieuw
  <2>4. QED BY <2>1, <2>2, <2>3 DEF NogGeldig
<1>13. ASSUME NEW v \in Werkers \ {w}, tx[v] # Niets PROVE Apart(t, tx[v]) /\ Apart(tx[v], t)
  BY <1>4, <1>6, <1>7, <1>13 DEF Apart
<1>14. QED
  BY <1>7, <1>8, <1>12, <1>13, LezenHoudt

\* POST
LEMMA MaakHoudt ==
  ASSUME RegistratieInv, NEW w \in Werkers, NEW d \in Docs, NEW org \in Orgs, NEW nr \in 0..MaxNr,
         Maak(w, d, org, nr)
  PROVE  RegistratieInv'
<1>1. Len(rijen[d]) < MaxVersies
  BY RegistratieAssumption DEF Maak, Ongebruikt, Aanwezig
<1>2. \A v \in Werkers \ {w} : tx[v] # Niets => \A i \in DOMAIN tx[v].nieuw : tx[v].nieuw[i].doc # d
  BY DEF Maak, Ongebruikt
<1>3. NieuweVersie(w, "maak", d, org, nr) /\ (nr # 0 => Vrij(Nummer(org, nr), d))
  BY DEF Maak
<1>4. QED
  BY <1>1, <1>2, <1>3, NieuweVersieHoudt

\* No import is going to make a document that is there.
LEMMA AanwezigApart ==
  ASSUME RegistratieInv, NEW d \in Docs, Aanwezig(d), NEW v \in Werkers, tx[v] # Niets,
         tx[v].op = "importeer", NEW i \in DOMAIN tx[v].nieuw
  PROVE  tx[v].nieuw[i].doc # d
BY DEF RegistratieInv, RequestsKloppen, NogGeldig, BatchNieuw

\* PUT
LEMMA PutHoudt ==
  ASSUME RegistratieInv, NEW w \in Werkers, NEW d \in Docs, NEW org \in Orgs, NEW nr \in 0..MaxNr,
         PutDocument(w, d, org, nr)
  PROVE  RegistratieInv'
<1>1. Aanwezig(d) /\ Len(rijen[d]) < MaxVersies /\ NieuweVersie(w, "wijzig", d, org, nr)
  BY DEF PutDocument, Wijzigbaar
<1>2. QED
  BY <1>1, AanwezigApart, NieuweVersieHoudt

\* PATCH
LEMMA PatchHoudt ==
  ASSUME RegistratieInv, NEW w \in Werkers, NEW d \in Docs, PatchDocument(w, d)
  PROVE  RegistratieInv'
<1>1. Aanwezig(d) /\ Len(rijen[d]) < MaxVersies
  BY DEF PatchDocument, Wijzigbaar
<1>2. Laatste(d) \in Sleutel
  BY <1>1 DEF RegistratieInv, RegistratieTypeOK, Laatste, Aanwezig
<1>3. PICK org \in Orgs, nr \in 0..MaxNr : org = Laatste(d).org /\ nr = Laatste(d).nr
  BY <1>2, RegistratieAssumption DEF Sleutel
<1>4. NieuweVersie(w, "wijzig", d, org, nr)
  BY <1>3 DEF PatchDocument
<1>5. QED
  BY <1>1, <1>4, AanwezigApart, NieuweVersieHoudt

\* Reserving the numbers that follow
LEMMA ReserveerHoudt ==
  ASSUME RegistratieInv, NEW w \in Werkers, NEW org \in Orgs, NEW aantal \in 1..MaxAantal,
         Reserveer(w, org, aantal)
  PROVE  RegistratieInv'
<1>1. PICK eerste \in Nat : eerste = Hoogste(org) + 1
  BY NaHoogste, RegistratieAssumption DEF RegistratieInv
<1>2. PICK laatste \in Int : laatste = eerste + aantal - 1
  BY <1>1, RegistratieAssumption
<1> DEFINE nieuw == {Nummer(org, n) : n \in eerste..laatste}
<1>3. nieuw \subseteq Sleutel /\ laatste <= MaxNr
  BY <1>1, <1>2, NaHoogste, RegistratieAssumption DEF RegistratieInv, Reserveer, Nummer, Sleutel
<1>4. \A k \in nieuw : k.nr > Hoogste(org)
  BY <1>1, <1>2, NaHoogste, RegistratieAssumption DEF RegistratieInv, Nummer
<1>5. nieuw \cap Gebruikt = {}
  <2>1. \A k \in nieuw : k.nr \in Int
    BY <1>3, RegistratieAssumption DEF Sleutel
  <2>2. QED
    BY <1>4, <2>1, NaHoogste DEF RegistratieInv
<1>6. PICK S \in SUBSET Sleutel : S = nieuw
  BY <1>3
<1> DEFINE t == [Taak("reserveer") EXCEPT !.sleutels = S]
<1>7. Lees(w, t)
  BY <1>1, <1>2, <1>6, Zenon DEF Reserveer
<1>8. t \in Verzoek /\ t.op = "reserveer" /\ t.nieuw = <<>> /\ t.sleutels = S
  BY TaakMetSleutels
<1>9. DOMAIN t.nieuw = {}
  BY <1>8
<1> HIDE DEF t, nieuw
<1>10. NogGeldig(t)
  BY <1>5, <1>6, <1>8, <1>9 DEF NogGeldig, TaakVorm, NogVrij, NogOngereserveerd, NogOngebruikt, BatchNieuw
<1>11. ASSUME NEW v \in Werkers \ {w}, tx[v] # Niets PROVE Apart(t, tx[v]) /\ Apart(tx[v], t)
  BY <1>8, <1>9 DEF Apart
<1>12. QED
  BY <1>7, <1>8, <1>10, <1>11, LezenHoudt

\* A batch of the import
LEMMA ImporteerHoudt ==
  ASSUME RegistratieInv, NEW w \in Werkers, NEW docs \in Seq(Docs), Len(docs) <= Batch,
         NEW orgs \in [DOMAIN docs -> Orgs], NEW nrs \in [DOMAIN docs -> 0..MaxNr],
         Importeer(w, docs, orgs, nrs)
  PROVE  RegistratieInv'
<1> DEFINE k(i) == Nummer(orgs[i], IF nrs[i] = 0 THEN HoogsteVanDocumenten + Batch + 1 - i ELSE nrs[i])
<1>1. PICK rijtje : rijtje = [i \in DOMAIN docs |-> VanDoc(docs[i], k(i), nrs[i] # 0)]
  OBVIOUS
<1>2. DOMAIN docs = 1..Len(docs) /\ Len(docs) \in Nat /\ \A i \in DOMAIN docs : docs[i] \in Docs
  OBVIOUS
<1>3. \A i \in DOMAIN docs : /\ Ongebruikt(docs[i]) /\ k(i) \in Sleutel
                             /\ nrs[i] # 0 => Vrij(k(i), docs[i])
  BY DEF Importeer
<1> DEFINE t == [Taak("importeer") EXCEPT !.nieuw = rijtje]
<1>4. Lees(w, t)
  BY <1>1, Zenon DEF Importeer
<1>5. \A i \in DOMAIN docs : nrs[i] = 0 => k(i) \notin Gebruikt
  <2>1. SUFFICES ASSUME NEW i \in DOMAIN docs, nrs[i] = 0 PROVE k(i) \notin Gebruikt
    OBVIOUS
  <2>2. k(i).nr = HoogsteVanDocumenten + Batch + 1 - i
    BY <2>1 DEF Nummer
  <2>3. k(i).nr > HoogsteVanDocumenten
    BY <1>2, <2>2, NaHoogsteVanDocumenten, RegistratieAssumption DEF RegistratieInv
  <2>4. k(i) \in Sleutel
    BY <1>3
  <2> HIDE DEF k
  <2>5. QED
    BY <2>3, <2>4, NieuwIsVrij DEF RegistratieInv
<1> HIDE DEF k
<1>6. /\ DOMAIN rijtje = DOMAIN docs
      /\ \A i \in DOMAIN docs : rijtje[i].doc = docs[i] /\ rijtje[i].sleutel = k(i) /\ rijtje[i] \in Rij
  BY <1>1, <1>2, <1>3 DEF VanDoc, Rij
<1>7. rijtje \in Seq(Rij)
  BY <1>1, <1>2, <1>6
<1>8. t \in Verzoek
  BY <1>7, TaakMetBatch
<1>9. t.op = "importeer" /\ t.nieuw = rijtje /\ t.sleutels = {}
  BY <1>7, TaakMetBatch
<1> HIDE DEF t
<1>10. \A i \in DOMAIN docs, e \in Docs : e # docs[i] => k(i) \notin Sleutels(e)
  BY <1>3, <1>5 DEF Vrij, Gebruikt
<1>11. NogGeldig(t)
  <2>1. NogVrij(t)
    BY <1>6, <1>9, <1>10 DEF NogVrij
  <2>2. BatchNieuw(t)
    BY <1>3, <1>6, <1>9 DEF BatchNieuw, Ongebruikt
  <2>3. QED
    BY <1>9, <2>1, <2>2 DEF NogGeldig, TaakVorm, NogOngereserveerd, NogOngebruikt
<1>12. ASSUME NEW v \in Werkers \ {w}, tx[v] # Niets PROVE Apart(t, tx[v]) /\ Apart(tx[v], t)
  BY <1>3, <1>6, <1>9, <1>12 DEF Apart, Ongebruikt
<1>13. QED
  BY <1>4, <1>8, <1>11, <1>12, LezenHoudt

\* A request for a dispatch
LEMMA VerzendingTaakHoudt ==
  ASSUME RegistratieInv, NEW w \in Werkers, NEW v \in Verzendingen, NEW d \in Docs,
         NEW K \in SUBSET Kanalen, Lees(w, VerzendingTaak(v, d, K))
  PROVE  RegistratieInv'
<1> DEFINE r == [doc |-> d, kanalen |-> K]
           t == MetVerzending(v, r)
<1>1. r \in Verzonden
  BY DEF Verzonden
<1>2. Lees(w, t)
  BY Zenon DEF VerzendingTaak, MetVerzending
<1> HIDE DEF r
<1>3. /\ t \in Verzoek /\ t.op = "verzending" /\ t.nieuw = <<>> /\ t.sleutels = {}
      /\ t.verz = v /\ t.rij = r
  BY <1>1, TaakMetVerzending, Zenon
<1>4. DOMAIN t.nieuw = {}
  BY <1>3
<1> HIDE DEF t
<1>5. NogGeldig(t)
  BY <1>1, <1>3, <1>4 DEF NogGeldig, TaakVorm, NogVrij, NogOngereserveerd, NogOngebruikt, BatchNieuw
<1>6. ASSUME NEW u \in Werkers \ {w}, tx[u] # Niets PROVE Apart(t, tx[u]) /\ Apart(tx[u], t)
  BY <1>3, <1>4 DEF Apart
<1>7. QED
  BY <1>2, <1>3, <1>5, <1>6, LezenHoudt

-----------------------------------------------------------------------------
(* Writing. *)

\* Rolling back
LEMMA AfgebrokenHoudt ==
  ASSUME RegistratieInv, NEW w \in Werkers, Afgebroken(w)
  PROVE  RegistratieInv'
<1>1. /\ UNCHANGED <<rijen, gereserveerd, verzending, ingehaald, dubbel, overgenomen, voorbij>>
      /\ Met(w, Niets)
  BY DEF Afgebroken, merken
<1>2. RegistratieTypeOK'
  BY <1>1, TaakType DEF RegistratieInv, RegistratieTypeOK, Aanwezig
<1>3. NummerEenmaal'
  BY <1>1 DEF RegistratieInv, NummerEenmaal, EenDocumentPerNummer, ReserveringVrij, Sleutels, Gebruikt
<1>4. PICK none : none = {}
  OBVIOUS
<1>5. \A e \in Docs : /\ Sleutels(e)' \subseteq Sleutels(e) \cup none
                      /\ e \notin none => Sleutels(e)' \subseteq Sleutels(e)
                      /\ e \notin none /\ Aanwezig(e)' => Aanwezig(e)
  BY <1>1 DEF Sleutels, Aanwezig
<1>6. /\ gereserveerd' \subseteq gereserveerd \cup none
      /\ ingehaald \subseteq ingehaald'
      /\ \A v \in Werkers \ {w} : tx[v] # Niets =>
           /\ none \cap tx[v].sleutels \subseteq ingehaald'
           /\ \A i \in DOMAIN tx[v].nieuw :
                /\ tx[v].nieuw[i].sleutel \in none /\ tx[v].nieuw[i].doc \notin none =>
                     tx[v].nieuw[i].sleutel \in ingehaald'
                /\ tx[v].nieuw[i].sleutel \in none => tx[v].nieuw[i].sleutel \in ingehaald'
                /\ tx[v].nieuw[i].doc \in none => none = {tx[v].nieuw[i].doc} /\ tx[v].op # "importeer"
  BY <1>1, <1>4
<1>7. RequestsKloppen'
  <2>1. RegistratieTypeOK /\ RequestsKloppen /\ Met(w, Niets)
    BY <1>1 DEF RegistratieInv
  <2>2. GeeftUit(w, none, none, none)
    BY <1>5, <1>6, Zenon DEF GeeftUit
  <2>3. QED
    BY <2>1, <2>2, AnderenKloppen
<1>8. QED
  BY <1>2, <1>3, <1>7 DEF RegistratieInv

\* A version more is a number more.
LEMMA MetVersie ==
  ASSUME NEW s \in Seq(Sleutel), NEW k \in Sleutel
  PROVE  /\ Append(s, k) \in Seq(Sleutel) /\ Len(Append(s, k)) = Len(s) + 1 /\ Append(s, k) # <<>>
         /\ {Append(s, k)[i] : i \in DOMAIN Append(s, k)} = {s[i] : i \in DOMAIN s} \cup {k}
<1>1. /\ Append(s, k) \in Seq(Sleutel) /\ Len(Append(s, k)) = Len(s) + 1
      /\ \A i \in 1..Len(s) : Append(s, k)[i] = s[i]
      /\ Append(s, k)[Len(s) + 1] = k
  OBVIOUS
<1>2. DOMAIN s = 1..Len(s) /\ Len(s) \in Nat
  OBVIOUS
<1>3. PICK r : r = Append(s, k)
  OBVIOUS
<1>4. DOMAIN r = (1..Len(s)) \cup {Len(s) + 1}
  BY <1>1, <1>2, <1>3
<1>5. {r[i] : i \in DOMAIN r} = {s[i] : i \in DOMAIN s} \cup {k}
  BY <1>1, <1>2, <1>3, <1>4
<1>6. Append(s, k) # <<>>
  <2>1. Len(<<>>) = 0 /\ Len(Append(s, k)) # 0
    BY <1>1, <1>2
  <2>2. QED BY <2>1, Zenon
<1>7. QED
  BY <1>1, <1>3, <1>5, <1>6

\* Storing a version
LEMMA SchrijfHoudt ==
  ASSUME RegistratieInv, NEW w \in Werkers, Schrijf(w)
  PROVE  RegistratieInv'
<1>1. tx[w] # Niets /\ tx[w].op \in {"maak", "wijzig"} /\ Met(w, Niets)
      /\ UNCHANGED <<verzending, dubbel, voorbij>>
  BY DEF Schrijf, Schrijft
<1>2. PICK q \in Verzoek : q = tx[w]
  BY <1>1 DEF RegistratieInv, RegistratieTypeOK
<1>3. NogGeldig(q) /\ q.op \in {"maak", "wijzig"}
  BY <1>1, <1>2 DEF RegistratieInv, RequestsKloppen
<1>4. Len(q.nieuw) = 1 /\ q.versie < MaxVersies /\ DOMAIN q.nieuw = {1}
  BY <1>3, VanVerzoek DEF NogGeldig, TaakVorm
<1>5. PICK d \in Docs, k \in Sleutel, genoemd \in BOOLEAN :
        q.nieuw[1].doc = d /\ q.nieuw[1].sleutel = k /\ q.nieuw[1].genoemd = genoemd
  BY <1>4, VanVerzoek
<1>6. CASE Len(rijen[d]) # q.versie
  <2>1. Afgebroken(w)
    BY <1>1, <1>2, <1>5, <1>6 DEF Schrijf, Afgebroken, merken
  <2>2. QED BY <2>1, AfgebrokenHoudt
<1>7. CASE Len(rijen[d]) = q.versie
  <2>1. /\ rijen' = [rijen EXCEPT ![d] = Append(@, k)]
        /\ gereserveerd' = gereserveerd \ Verbruikt(q.nieuw[1])
        /\ overgenomen' = IF q.op = "wijzig" /\ genoemd /\ ~Vrij(k, d)
                          THEN overgenomen \cup {k} ELSE overgenomen
        /\ Haalt(w)
    BY <1>1, <1>2, <1>5, <1>7 DEF Schrijf, Schrijft
  <2>2. rijen[d] \in Seq(Sleutel) /\ \A e \in Docs : rijen[e] \in Seq(Sleutel) /\ Len(rijen[e]) <= MaxVersies
    BY DEF RegistratieInv, RegistratieTypeOK
  <2>3. PICK s \in Seq(Sleutel) : s = rijen[d]
    BY <2>2
  <2>4. /\ DOMAIN rijen' = Docs /\ rijen'[d] = Append(s, k)
        /\ \A e \in Docs \ {d} : rijen'[e] = rijen[e]
    BY <2>1, <2>3 DEF RegistratieInv, RegistratieTypeOK
  <2>5. /\ Sleutels(d)' = Sleutels(d) \cup {k}
        /\ \A e \in Docs \ {d} : Sleutels(e)' = Sleutels(e)
        /\ Aanwezig(d)'
        /\ \A e \in Docs \ {d} : Aanwezig(e)' <=> Aanwezig(e)
    BY <2>3, <2>4, MetVersie, SMTT(30) DEF Sleutels, Aanwezig
  <2>6. /\ gereserveerd' \subseteq gereserveerd
        /\ genoemd => k \notin gereserveerd'
        /\ ingehaald \subseteq ingehaald' /\ ingehaald' \subseteq Sleutel
        /\ overgenomen \subseteq overgenomen' /\ overgenomen' \subseteq overgenomen \cup {k}
        /\ q.op = "wijzig" /\ genoemd /\ ~Vrij(k, d) => k \in overgenomen'
    <3>1. gereserveerd' \subseteq gereserveerd /\ (genoemd => k \notin gereserveerd')
      BY <1>5, <2>1 DEF Verbruikt
    <3>2. ingehaald \subseteq ingehaald' /\ ingehaald' \subseteq Sleutel
      BY <1>1, <2>1, HaaltType DEF RegistratieInv
    <3>3. /\ overgenomen \subseteq overgenomen' /\ overgenomen' \subseteq overgenomen \cup {k}
          /\ q.op = "wijzig" /\ genoemd /\ ~Vrij(k, d) => k \in overgenomen'
      BY <2>1
    <3>4. QED BY <3>1, <3>2, <3>3
  <2>7. RegistratieTypeOK'
    <3>1. /\ DOMAIN rijen' = Docs
          /\ \A e \in Docs : rijen'[e] \in Seq(Sleutel) /\ Len(rijen'[e]) <= MaxVersies
      <4>1. Len(s) + 1 <= MaxVersies
        BY <1>4, <1>7, <2>3, RegistratieAssumption, VanVerzoek
      <4>2. QED BY <2>2, <2>4, <4>1, MetVersie
    <3>2. /\ gereserveerd' \subseteq Sleutel
          /\ (ingehaald \cup dubbel \cup overgenomen \cup voorbij)' \subseteq Sleutel
      BY <1>1, <2>6 DEF RegistratieInv, RegistratieTypeOK
    <3>3. verzending' \in [Verzendingen -> Verzonden \cup {Niets}]
      BY <1>1 DEF RegistratieInv, RegistratieTypeOK
    <3>4. ASSUME NEW v \in Verzendingen, verzending[v] # Niets PROVE Aanwezig(verzending[v].doc)'
      <4>1. verzending[v].doc \in Docs /\ Aanwezig(verzending[v].doc)
        BY <3>4 DEF RegistratieInv, RegistratieTypeOK, Verzonden
      <4>2. PICK e \in Docs : e = verzending[v].doc
        BY <4>1
      <4>3. Aanwezig(e)'
        BY <2>5, <4>1, <4>2
      <4>4. verzending'[v].doc = verzending[v].doc
        BY <1>1
      <4>5. QED BY <1>1, <4>2, <4>3, <4>4
    <3>5. QED
      BY <1>1, <3>1, <3>2, <3>3, <3>4, TaakType DEF RegistratieInv, RegistratieTypeOK
  <2>8. \A e \in Docs \ {d} : k \in Sleutels(e) => k \in ingehaald' \cup overgenomen'
    <3>1. q.op # "wijzig" \/ ~genoemd => \A e \in Docs \ {d} : k \in Sleutels(e) => k \in ingehaald
      BY <1>3, <1>4, <1>5 DEF NogGeldig, NogVrij
    <3>2. q.op = "wijzig" /\ genoemd => \A e \in Docs \ {d} : k \in Sleutels(e) => k \in overgenomen'
      BY <2>6 DEF Vrij
    <3>3. QED BY <2>6, <3>1, <3>2
  <2>9. EenDocumentPerNummer'
    BY <1>1, <2>5, <2>6, <2>8 DEF RegistratieInv, NummerEenmaal, EenDocumentPerNummer
  <2>10. ReserveringVrij'
    <3>1. Gebruikt' \subseteq Gebruikt \cup {k}
      BY <2>5 DEF Gebruikt
    <3>2. k \in gereserveerd' => k \in ingehaald'
      BY <1>3, <1>4, <1>5, <2>6 DEF NogGeldig, NogOngereserveerd
    <3>3. QED
      BY <1>1, <2>6, <3>1, <3>2 DEF RegistratieInv, NummerEenmaal, ReserveringVrij
  <2>11. RequestsKloppen'
    <3>1. DocsVan(w) = {d} /\ SleutelsVoor(w) = {k}
      BY <1>2, <1>4, <1>5 DEF DocsVan, SleutelsVoor
    <3>2. \A v \in Werkers \ {w} : tx[v] # Niets /\ tx[v].op = "importeer" =>
            \A i \in DOMAIN tx[v].nieuw : tx[v].nieuw[i].doc # d
      BY <1>1, <1>2, <1>4, <1>5 DEF RegistratieInv, RequestsKloppen, Apart
    <3>3. PICK D, K, S : D = {d} /\ K = {k} /\ S = {}
      OBVIOUS
    <3>4. ASSUME NEW v \in Werkers \ {w}, tx[v] # Niets
          PROVE  /\ K \cap tx[v].sleutels \subseteq ingehaald'
                 /\ \A i \in DOMAIN tx[v].nieuw :
                      /\ tx[v].nieuw[i].sleutel \in K /\ tx[v].nieuw[i].doc \notin D =>
                           tx[v].nieuw[i].sleutel \in ingehaald'
                      /\ tx[v].nieuw[i].sleutel \in S => tx[v].nieuw[i].sleutel \in ingehaald'
                      /\ tx[v].nieuw[i].doc \in D =>
                           D = {tx[v].nieuw[i].doc} /\ tx[v].op # "importeer"
      <4>1. k \in SleutelsVoor(w) \cup tx[w].sleutels
        BY <3>1
      <4>2. QED BY <2>1, <3>1, <3>2, <3>3, <3>4, <4>1, HaaltOp
    <3>5. \A e \in Docs : /\ Sleutels(e)' \subseteq Sleutels(e) \cup K
                          /\ e \notin D => Sleutels(e)' \subseteq Sleutels(e)
                          /\ e \notin D /\ Aanwezig(e)' => Aanwezig(e)
      BY <2>5, <3>3
    <3>6. gereserveerd' \subseteq gereserveerd \cup S /\ ingehaald \subseteq ingehaald'
      BY <2>6
    <3>7. RegistratieTypeOK /\ RequestsKloppen /\ Met(w, Niets)
      BY <1>1 DEF RegistratieInv
    <3>8. GeeftUit(w, D, K, S)
      BY <3>4, <3>5, <3>6, Zenon DEF GeeftUit
    <3>9. QED
      BY <3>7, <3>8, AnderenKloppen
  <2>12. QED
    BY <2>7, <2>9, <2>10, <2>11 DEF RegistratieInv, NummerEenmaal
<1>8. QED BY <1>6, <1>7

\* Storing a reservation
LEMMA SchrijfReserveringHoudt ==
  ASSUME RegistratieInv, NEW w \in Werkers, SchrijfReservering(w)
  PROVE  RegistratieInv'
<1>1. /\ tx[w] # Niets /\ tx[w].op = "reserveer" /\ Met(w, Niets)
      /\ UNCHANGED <<rijen, verzending, dubbel, overgenomen, voorbij>>
  BY DEF SchrijfReservering, Schrijft
<1>2. PICK q \in Verzoek : q = tx[w]
  BY <1>1 DEF RegistratieInv, RegistratieTypeOK
<1>3. NogGeldig(q) /\ q.op = "reserveer"
  BY <1>1, <1>2 DEF RegistratieInv, RequestsKloppen
<1>4. q.nieuw = <<>> /\ DOMAIN q.nieuw = {} /\ q.sleutels \subseteq Sleutel
  BY <1>3, VanVerzoek DEF NogGeldig, TaakVorm
<1>5. CASE tx[w].sleutels \cap gereserveerd # {}
  <2>1. Afgebroken(w)
    BY <1>1, <1>5 DEF SchrijfReservering, Afgebroken, merken
  <2>2. QED BY <2>1, AfgebrokenHoudt
<1>6. CASE tx[w].sleutels \cap gereserveerd = {}
  <2>1. gereserveerd' = gereserveerd \cup q.sleutels /\ Haalt(w)
    BY <1>2, <1>6 DEF SchrijfReservering
  <2>2. ingehaald \subseteq ingehaald' /\ ingehaald' \subseteq Sleutel
    BY <1>1, <2>1, HaaltType DEF RegistratieInv
  <2>3. RegistratieTypeOK'
    BY <1>1, <1>4, <2>1, <2>2, TaakType DEF RegistratieInv, RegistratieTypeOK, Aanwezig
  <2>4. NummerEenmaal'
    <3>1. EenDocumentPerNummer'
      BY <1>1, <2>2 DEF RegistratieInv, NummerEenmaal, EenDocumentPerNummer, Sleutels
    <3>2. Gebruikt' = Gebruikt
      BY <1>1 DEF Gebruikt, Sleutels
    <3>3. q.sleutels \cap Gebruikt \subseteq ingehaald
      BY <1>3 DEF NogGeldig, NogOngebruikt
    <3>4. ReserveringVrij'
      BY <1>1, <2>1, <2>2, <3>2, <3>3 DEF RegistratieInv, NummerEenmaal, ReserveringVrij
    <3>5. QED BY <3>1, <3>4 DEF NummerEenmaal
  <2>5. RequestsKloppen'
    <3>1. DocsVan(w) = {}
      BY <1>2, <1>4 DEF DocsVan
    <3>2. PICK D, S : D = {} /\ S = q.sleutels
      OBVIOUS
    <3>3. ASSUME NEW v \in Werkers \ {w}, tx[v] # Niets
          PROVE  /\ D \cap tx[v].sleutels \subseteq ingehaald'
                 /\ \A i \in DOMAIN tx[v].nieuw :
                      /\ tx[v].nieuw[i].sleutel \in D /\ tx[v].nieuw[i].doc \notin D =>
                           tx[v].nieuw[i].sleutel \in ingehaald'
                      /\ tx[v].nieuw[i].sleutel \in S => tx[v].nieuw[i].sleutel \in ingehaald'
                      /\ tx[v].nieuw[i].doc \in D =>
                           D = {tx[v].nieuw[i].doc} /\ tx[v].op # "importeer"
      <4>1. ASSUME NEW i \in DOMAIN tx[v].nieuw, tx[v].nieuw[i].sleutel \in S
            PROVE  tx[v].nieuw[i].sleutel \in ingehaald'
        <5>1. tx[v].nieuw[i].sleutel \in SleutelsVoor(w) \cup tx[w].sleutels
          BY <1>2, <3>2, <4>1
        <5>2. tx[v].nieuw[i].doc \notin DocsVan(w)
          BY <3>1
        <5>3. QED
          BY <2>1, <3>3, <5>1, <5>2, HaaltOp
      <4>2. QED BY <3>2, <4>1
    <3>4. \A e \in Docs : /\ Sleutels(e)' \subseteq Sleutels(e) \cup D
                          /\ e \notin D => Sleutels(e)' \subseteq Sleutels(e)
                          /\ e \notin D /\ Aanwezig(e)' => Aanwezig(e)
      BY <1>1 DEF Sleutels, Aanwezig
    <3>5. gereserveerd' \subseteq gereserveerd \cup S /\ ingehaald \subseteq ingehaald'
      BY <2>1, <2>2, <3>2
    <3>6. GeeftUit(w, D, D, S)
      BY <3>3, <3>4, <3>5, Zenon DEF GeeftUit
    <3>7. RegistratieTypeOK /\ RequestsKloppen /\ Met(w, Niets)
      BY <1>1 DEF RegistratieInv
    <3>8. QED
      BY <3>6, <3>7, AnderenKloppen
  <2>6. QED
    BY <2>3, <2>4, <2>5 DEF RegistratieInv
<1>7. QED BY <1>5, <1>6

\* Storing a batch
LEMMA SchrijfBatchHoudt ==
  ASSUME RegistratieInv, NEW w \in Werkers, SchrijfBatch(w)
  PROVE  RegistratieInv'
<1>1. /\ tx[w] # Niets /\ tx[w].op = "importeer" /\ Met(w, Niets) /\ Haalt(w)
      /\ voorbij' = voorbij \cup (gereserveerd \cap Neemt(w, {}))
      /\ UNCHANGED <<gereserveerd, verzending, overgenomen>>
  BY DEF SchrijfBatch, Schrijft
<1>2. PICK q \in Verzoek : q = tx[w]
  BY <1>1 DEF RegistratieInv, RegistratieTypeOK
<1>3. NogGeldig(q) /\ q.op = "importeer"
  BY <1>1, <1>2 DEF RegistratieInv, RequestsKloppen
<1>4. PICK rijtje \in Seq(Rij) : rijtje = q.nieuw
  BY VanVerzoek
<1>5. /\ \A i \in DOMAIN rijtje : rijtje[i].doc \in Docs /\ rijtje[i].sleutel \in Sleutel
      /\ tx[w].nieuw = rijtje
  BY <1>2, <1>4, VanVerzoek
<1>6. PICK D, K : D = {rijtje[i].doc : i \in DOMAIN rijtje} /\ K = {rijtje[i].sleutel : i \in DOMAIN rijtje}
  OBVIOUS
<1>7. DocsVan(w) = D /\ SleutelsVoor(w) = K /\ K \subseteq Neemt(w, {})
  BY <1>5, <1>6 DEF DocsVan, SleutelsVoor, Neemt
<1>8. ingehaald \subseteq ingehaald' /\ ingehaald' \subseteq Sleutel /\ Neemt(w, {}) \subseteq Sleutel
  BY <1>1, HaaltType DEF RegistratieInv
<1>9. /\ DOMAIN rijen' = Docs
      /\ \A d \in Docs : d \notin D => rijen'[d] = rijen[d]
      /\ \A d \in D : \E i \in DOMAIN rijtje : rijtje[i].doc = d /\ rijen'[d] = <<rijtje[i].sleutel>>
  <2> DEFINE van(d) == {i \in DOMAIN tx[w].nieuw : tx[w].nieuw[i].doc = d}
  <2>1. rijen' = [d \in Docs |-> IF van(d) = {} THEN rijen[d]
                                 ELSE <<tx[w].nieuw[CHOOSE i \in van(d) : TRUE].sleutel>>]
    BY Zenon DEF SchrijfBatch
  <2>2. \A d \in Docs : d \in D <=> van(d) # {}
    BY <1>5, <1>6
  <2>3. ASSUME NEW d \in D
        PROVE  \E i \in DOMAIN rijtje : rijtje[i].doc = d /\ rijen'[d] = <<rijtje[i].sleutel>>
    <3>1. d \in Docs /\ van(d) # {}
      BY <1>5, <1>6, <2>2
    <3>2. PICK i : i = CHOOSE j \in van(d) : TRUE
      OBVIOUS
    <3>3. i \in van(d)
      BY <3>1, <3>2
    <3>4. rijen'[d] = <<rijtje[i].sleutel>>
      BY <1>5, <2>1, <3>1, <3>2
    <3>5. QED BY <1>5, <3>3, <3>4
  <2>4. \A d \in Docs : d \notin D => rijen'[d] = rijen[d]
    BY <2>1, <2>2
  <2>5. QED BY <2>1, <2>3, <2>4
<1>10. \A d \in D : \E i \in DOMAIN rijtje : rijtje[i].doc = d /\ Sleutels(d)' = {rijtje[i].sleutel}
  <2>1. \A d, k : rijen'[d] = <<k>> => Sleutels(d)' = {k}
    BY DEF Sleutels
  <2>2. QED BY <1>9, <2>1
<1>11. /\ \A e \in Docs \ D : Sleutels(e)' = Sleutels(e) /\ (Aanwezig(e)' <=> Aanwezig(e))
       /\ \A e \in D : Aanwezig(e)' /\ Sleutels(e)' \subseteq K
  <2>1. \A e \in Docs \ D : Sleutels(e)' = Sleutels(e) /\ (Aanwezig(e)' <=> Aanwezig(e))
    BY <1>9 DEF Sleutels, Aanwezig
  <2>2. \A e \in D : Sleutels(e)' \subseteq K
    BY <1>6, <1>10
  <2>3. \A x : <<x>> # <<>>
    OBVIOUS
  <2>4. ASSUME NEW e \in D PROVE Aanwezig(e)'
    <3>1. PICK i \in DOMAIN rijtje : rijen'[e] = <<rijtje[i].sleutel>>
      BY <1>9
    <3>2. QED BY <2>3, <3>1 DEF Aanwezig
  <2>5. QED BY <2>1, <2>2, <2>4
<1>12. \A i, j \in DOMAIN rijtje :
         rijtje[i].sleutel = rijtje[j].sleutel /\ i # j => rijtje[i].sleutel \in dubbel'
  <2>1. dubbel' = dubbel \cup {k \in Neemt(w, {}) : \E i, j \in DOMAIN tx[w].nieuw :
                                 i # j /\ tx[w].nieuw[i].sleutel = k /\ tx[w].nieuw[j].sleutel = k}
    BY Zenon DEF SchrijfBatch
  <2>2. SUFFICES ASSUME NEW i \in DOMAIN rijtje, NEW j \in DOMAIN rijtje, i # j,
                        NEW k, k = rijtje[i].sleutel, k = rijtje[j].sleutel
                 PROVE  k \in dubbel'
    OBVIOUS
  <2>3. k \in Neemt(w, {})
    BY <1>6, <1>7, <2>2
  <2>4. QED BY <1>5, <2>1, <2>2, <2>3
<1>13. dubbel \subseteq dubbel' /\ dubbel' \subseteq dubbel \cup Neemt(w, {})
  BY DEF SchrijfBatch
<1>14. RegistratieTypeOK'
  <2>1. \A d \in Docs : rijen'[d] \in Seq(Sleutel) /\ Len(rijen'[d]) <= MaxVersies
    <3>1. \A k \in Sleutel : <<k>> \in Seq(Sleutel) /\ Len(<<k>>) <= MaxVersies
      BY RegistratieAssumption
    <3>2. \A d \in Docs : rijen[d] \in Seq(Sleutel) /\ Len(rijen[d]) <= MaxVersies
      BY DEF RegistratieInv, RegistratieTypeOK
    <3>3. ASSUME NEW d \in Docs PROVE rijen'[d] \in Seq(Sleutel) /\ Len(rijen'[d]) <= MaxVersies
      <4>1. CASE d \notin D
        BY <1>9, <3>2, <4>1
      <4>2. CASE d \in D
        <5>1. PICK i \in DOMAIN rijtje : rijen'[d] = <<rijtje[i].sleutel>>
          BY <1>9, <4>2
        <5>2. PICK k \in Sleutel : k = rijtje[i].sleutel
          BY <1>5
        <5>3. QED BY <3>1, <5>1, <5>2
      <4>3. QED BY <4>1, <4>2
    <3>4. QED BY <3>3
  <2>2. /\ gereserveerd' \subseteq Sleutel
        /\ (ingehaald \cup dubbel \cup overgenomen \cup voorbij)' \subseteq Sleutel
    BY <1>1, <1>8, <1>13 DEF RegistratieInv, RegistratieTypeOK
  <2>3. \A v \in Verzendingen : verzending[v] # Niets => Aanwezig(verzending[v].doc)'
    <3>1. SUFFICES ASSUME NEW v \in Verzendingen, verzending[v] # Niets
                   PROVE  Aanwezig(verzending[v].doc)'
      OBVIOUS
    <3>2. verzending[v].doc \in Docs /\ Aanwezig(verzending[v].doc)
      BY <3>1 DEF RegistratieInv, RegistratieTypeOK, Verzonden
    <3>3. PICK e \in Docs : e = verzending[v].doc
      BY <3>2
    <3>4. Aanwezig(e)'
      BY <1>11, <3>2, <3>3
    <3>5. verzending'[v].doc = verzending[v].doc
      BY <1>1
    <3>6. QED BY <3>3, <3>4, <3>5
  <2>4. QED
    BY <1>1, <1>9, <2>1, <2>2, <2>3, TaakType DEF RegistratieInv, RegistratieTypeOK
<1>15. \A i \in DOMAIN rijtje : \A e \in Docs \ {rijtje[i].doc} :
         rijtje[i].sleutel \in Sleutels(e) => rijtje[i].sleutel \in ingehaald
  BY <1>3, <1>4 DEF NogGeldig, NogVrij
<1>16. EenDocumentPerNummer'
  <2>1. SUFFICES ASSUME NEW d \in Docs, NEW e \in Docs, d # e,
                        NEW k \in Sleutel, k \in Sleutels(d)', k \in Sleutels(e)'
                 PROVE  k \in (ingehaald \cup dubbel \cup overgenomen)'
    <3>1. \A f \in Docs : Sleutels(f)' \subseteq Sleutel
      <4>1. \A f \in Docs : rijen'[f] \in Seq(Sleutel)
        BY <1>14 DEF RegistratieTypeOK
      <4>2. QED BY <4>1 DEF Sleutels
    <3>2. QED
      BY <3>1 DEF EenDocumentPerNummer
  <2>2. CASE d \notin D /\ e \notin D
    BY <1>1, <1>8, <1>11, <1>13, <2>1, <2>2 DEF RegistratieInv, NummerEenmaal, EenDocumentPerNummer
  <2>3. CASE d \in D /\ e \notin D
    BY <1>8, <1>10, <1>11, <1>15, <2>1, <2>3
  <2>4. CASE d \notin D /\ e \in D
    BY <1>8, <1>10, <1>11, <1>15, <2>1, <2>4
  <2>5. CASE d \in D /\ e \in D
    BY <1>10, <1>12, <2>1, <2>5
  <2>6. QED BY <2>2, <2>3, <2>4, <2>5
<1>17. ReserveringVrij'
  <2>1. Gebruikt' \subseteq Gebruikt \cup K
    BY <1>6, <1>11 DEF Gebruikt
  <2>2. gereserveerd' \cap K \subseteq voorbij'
    BY <1>1, <1>7
  <2>3. QED
    BY <1>1, <1>8, <2>1, <2>2 DEF RegistratieInv, NummerEenmaal, ReserveringVrij
<1>18. RequestsKloppen'
  <2>1. PICK S : S = {}
    OBVIOUS
  <2>2. ASSUME NEW v \in Werkers \ {w}, tx[v] # Niets
        PROVE  /\ K \cap tx[v].sleutels \subseteq ingehaald'
               /\ \A i \in DOMAIN tx[v].nieuw :
                    /\ tx[v].nieuw[i].sleutel \in K /\ tx[v].nieuw[i].doc \notin D =>
                         tx[v].nieuw[i].sleutel \in ingehaald'
                    /\ tx[v].nieuw[i].sleutel \in S => tx[v].nieuw[i].sleutel \in ingehaald'
                    /\ tx[v].nieuw[i].doc \in D =>
                         D = {tx[v].nieuw[i].doc} /\ tx[v].op # "importeer"
    <3>1. \A i \in DOMAIN tx[v].nieuw : tx[v].nieuw[i].doc \notin D
      BY <1>1, <1>5, <1>6, <2>2 DEF RegistratieInv, RequestsKloppen, Apart
    <3>2. \A k \in K : /\ k \in tx[v].sleutels => k \in ingehaald'
                       /\ \A i \in DOMAIN tx[v].nieuw :
                            tx[v].nieuw[i].sleutel = k /\ tx[v].nieuw[i].doc \notin D => k \in ingehaald'
      BY <1>1, <1>7, <2>2, HaaltOp
    <3>3. QED BY <2>1, <3>1, <3>2
  <2>3. \A e \in Docs : /\ Sleutels(e)' \subseteq Sleutels(e) \cup K
                        /\ e \notin D => Sleutels(e)' \subseteq Sleutels(e)
                        /\ e \notin D /\ Aanwezig(e)' => Aanwezig(e)
    BY <1>11
  <2>4. gereserveerd' \subseteq gereserveerd \cup S /\ ingehaald \subseteq ingehaald'
    BY <1>1, <1>8
  <2>5. GeeftUit(w, D, K, S)
    BY <2>2, <2>3, <2>4, Zenon DEF GeeftUit
  <2>6. RegistratieTypeOK /\ RequestsKloppen /\ Met(w, Niets)
    BY <1>1 DEF RegistratieInv
  <2>7. QED
    BY <2>5, <2>6, AnderenKloppen
<1>19. QED
  BY <1>14, <1>16, <1>17, <1>18 DEF RegistratieInv, NummerEenmaal

\* Storing a dispatch
LEMMA SchrijfVerzendingHoudt ==
  ASSUME RegistratieInv, NEW w \in Werkers, SchrijfVerzending(w)
  PROVE  RegistratieInv'
<1>1. /\ tx[w] # Niets /\ tx[w].op = "verzending" /\ Met(w, Niets)
      /\ UNCHANGED <<rijen, gereserveerd, ingehaald, dubbel, overgenomen, voorbij>>
      /\ verzending' = IF Aanwezig(tx[w].rij.doc)
                       THEN [verzending EXCEPT ![tx[w].verz] = tx[w].rij] ELSE verzending
  BY DEF SchrijfVerzending, Schrijft, merken
<1>2. tx[w].verz \in Verzendingen /\ tx[w].rij \in Verzonden
  BY <1>1 DEF RegistratieInv, RequestsKloppen, NogGeldig, TaakVorm
<1>3. verzending \in [Verzendingen -> Verzonden \cup {Niets}]
  BY DEF RegistratieInv, RegistratieTypeOK
<1>4. verzending' \in [Verzendingen -> Verzonden \cup {Niets}]
  BY <1>1, <1>2, <1>3
<1>5. \A v \in Verzendingen : verzending'[v] # Niets => Aanwezig(verzending'[v].doc)
  BY <1>1, <1>2, <1>3 DEF RegistratieInv, RegistratieTypeOK
<1>6. RegistratieTypeOK'
  BY <1>1, <1>4, <1>5, TaakType DEF RegistratieInv, RegistratieTypeOK, Aanwezig
<1>7. NummerEenmaal'
  BY <1>1 DEF RegistratieInv, NummerEenmaal, EenDocumentPerNummer, ReserveringVrij, Sleutels, Gebruikt
<1>8. PICK none : none = {}
  OBVIOUS
<1>9. \A e \in Docs : /\ Sleutels(e)' \subseteq Sleutels(e) \cup none
                      /\ e \notin none => Sleutels(e)' \subseteq Sleutels(e)
                      /\ e \notin none /\ Aanwezig(e)' => Aanwezig(e)
  BY <1>1 DEF Sleutels, Aanwezig
<1>10. GeeftUit(w, none, none, none)
  BY <1>1, <1>8, <1>9 DEF GeeftUit
<1>11. RequestsKloppen'
  BY <1>1, <1>10, AnderenKloppen DEF RegistratieInv
<1>12. QED
  BY <1>6, <1>7, <1>11 DEF RegistratieInv

\* Deleting a document frees its numbers, and takes its dispatches along.
LEMMA VerwijderHoudt ==
  ASSUME RegistratieInv, NEW d \in Docs, Verwijder(d)
  PROVE  RegistratieInv'
<1>1. /\ UNCHANGED <<gereserveerd, tx, ingehaald, dubbel, overgenomen, voorbij>>
      /\ rijen' = [rijen EXCEPT ![d] = <<>>]
      /\ verzending' = [v \in Verzendingen |->
           IF verzending[v] # Niets /\ verzending[v].doc = d THEN Niets ELSE verzending[v]]
  BY DEF Verwijder, merken
<1>2. /\ DOMAIN rijen' = Docs /\ rijen'[d] = <<>>
      /\ \A e \in Docs \ {d} : rijen'[e] = rijen[e]
  BY <1>1 DEF RegistratieInv, RegistratieTypeOK
<1>3. /\ \A e \in Docs : Sleutels(e)' \subseteq Sleutels(e)
      /\ \A e \in Docs : Aanwezig(e)' => Aanwezig(e)
      /\ \A e \in Docs \ {d} : Aanwezig(e)' <=> Aanwezig(e)
  BY <1>2 DEF Sleutels, Aanwezig
<1>4. RegistratieTypeOK'
  <2>1. \A e \in Docs : rijen'[e] \in Seq(Sleutel) /\ Len(rijen'[e]) <= MaxVersies
    <3>1. \A e \in Docs : rijen[e] \in Seq(Sleutel) /\ Len(rijen[e]) <= MaxVersies
      BY DEF RegistratieInv, RegistratieTypeOK
    <3>2. <<>> \in Seq(Sleutel) /\ Len(<<>>) = 0 /\ 0 <= MaxVersies
      BY RegistratieAssumption
    <3>3. PICK leeg \in Seq(Sleutel) : leeg = <<>> /\ Len(leeg) <= MaxVersies
      BY <3>2
    <3>4. QED BY <1>2, <3>1, <3>3
  <2>2. verzending' \in [Verzendingen -> Verzonden \cup {Niets}]
    BY <1>1 DEF RegistratieInv, RegistratieTypeOK
  <2>3. ASSUME NEW v \in Verzendingen, verzending'[v] # Niets
        PROVE  rijen'[verzending'[v].doc] # <<>>
    <3>1. verzending'[v] = verzending[v] /\ verzending[v] # Niets /\ verzending[v].doc # d
      BY <1>1, <2>3
    <3>2. verzending[v].doc \in Docs /\ Aanwezig(verzending[v].doc)
      BY <3>1 DEF RegistratieInv, RegistratieTypeOK, Verzonden
    <3>3. PICK e \in Docs \ {d} : e = verzending[v].doc
      BY <3>1, <3>2
    <3>4. rijen'[e] # <<>>
      BY <1>3, <3>2, <3>3 DEF Aanwezig
    <3>5. e = verzending'[v].doc
      BY <3>1, <3>3
    <3>6. QED BY <3>4, <3>5
  <2>4. QED
    BY <1>1, <1>2, <2>1, <2>2, <2>3 DEF RegistratieInv, RegistratieTypeOK, Aanwezig
<1>5. NummerEenmaal'
  <2>1. Gebruikt' \subseteq Gebruikt
    BY <1>3 DEF Gebruikt
  <2>2. EenDocumentPerNummer'
    BY <1>1, <1>3 DEF RegistratieInv, NummerEenmaal, EenDocumentPerNummer
  <2>3. ReserveringVrij'
    BY <1>1, <2>1 DEF RegistratieInv, NummerEenmaal, ReserveringVrij
  <2>4. QED BY <2>2, <2>3 DEF NummerEenmaal
<1>6. PICK none : none = {}
  OBVIOUS
<1>7. ASSUME NEW w \in Werkers, tx[w] # Niets PROVE NogGeldig(tx[w])'
  <2>1. PICK t \in Verzoek : t = tx[w]
    BY <1>7 DEF RegistratieInv, RegistratieTypeOK
  <2>2. NogGeldig(t)
    BY <1>7, <2>1 DEF RegistratieInv, RequestsKloppen
  <2>3. \A e \in Docs : /\ Sleutels(e)' \subseteq Sleutels(e) \cup none
                        /\ e \notin none => Sleutels(e)' \subseteq Sleutels(e)
                        /\ e \notin none /\ Aanwezig(e)' => Aanwezig(e)
    BY <1>3
  <2>4. /\ gereserveerd' \subseteq gereserveerd \cup none /\ ingehaald \subseteq ingehaald'
        /\ none \cap t.sleutels \subseteq ingehaald'
    BY <1>1, <1>6
  <2>5. \A i \in DOMAIN t.nieuw :
          /\ t.nieuw[i].sleutel \in none /\ t.nieuw[i].doc \notin none => t.nieuw[i].sleutel \in ingehaald'
          /\ t.nieuw[i].sleutel \in none => t.nieuw[i].sleutel \in ingehaald'
          /\ t.nieuw[i].doc \in none => none = {t.nieuw[i].doc} /\ t.op # "importeer"
    BY <1>6
  <2>6. NogGeldig(t)'
    BY <2>2, <2>3, <2>4, <2>5, GeldigBlijft
  <2>7. QED BY <1>1, <2>1, <2>6
<1>8. RequestsKloppen'
  BY <1>1, <1>7 DEF RegistratieInv, RequestsKloppen, Apart
<1>9. QED
  BY <1>4, <1>5, <1>8 DEF RegistratieInv

\* Steps that leave documents, reservations and requests alone
LEMMA NietsBlijft ==
  ASSUME RegistratieInv, UNCHANGED <<rijen, gereserveerd, tx, ingehaald, dubbel, overgenomen, voorbij>>
  PROVE  NummerEenmaal' /\ RequestsKloppen'
<1>1. NummerEenmaal'
  BY DEF RegistratieInv, NummerEenmaal, EenDocumentPerNummer, ReserveringVrij, Sleutels, Gebruikt
<1>2. RequestsKloppen'
  BY DEF RegistratieInv, RequestsKloppen, Apart, NogGeldig, TaakVorm, NogVrij, NogOngereserveerd,
         NogOngebruikt, BatchNieuw, Sleutels, Gebruikt, Aanwezig
<1>3. QED BY <1>1, <1>2

\* Deleting a dispatch
LEMMA VerwijderVerzendingHoudt ==
  ASSUME RegistratieInv, NEW v \in Verzendingen, VerwijderVerzending(v)
  PROVE  RegistratieInv'
<1>1. /\ UNCHANGED <<rijen, gereserveerd, tx, ingehaald, dubbel, overgenomen, voorbij>>
      /\ verzending' = [verzending EXCEPT ![v] = Niets]
  BY DEF VerwijderVerzending, merken
<1>2. RegistratieTypeOK'
  BY <1>1 DEF RegistratieInv, RegistratieTypeOK, Aanwezig
<1>3. QED
  BY <1>1, <1>2, NietsBlijft DEF RegistratieInv

\* A step of a request about a dispatch
LEMMA VerzendingNextHoudt ==
  ASSUME RegistratieInv, NEW w \in Werkers, VerzendingNext(w)
  PROVE  RegistratieInv'
<1>1. CASE SchrijfVerzending(w)
  BY <1>1, SchrijfVerzendingHoudt
<1>2. ASSUME NEW v \in Verzendingen, NEW K \in SUBSET Kanalen, NEW d \in Docs,
             MaakVerzending(w, v, d, K) \/ PutVerzending(w, v, d, K)
      PROVE  RegistratieInv'
  BY <1>2, VerzendingTaakHoudt DEF MaakVerzending, PutVerzending
<1>3. ASSUME NEW v \in Verzendingen, NEW K \in SUBSET Kanalen, NEW uit \in SUBSET (Kanalen \ K),
             PatchVerzending(w, v, K, uit)
      PROVE  RegistratieInv'
  <2>1. PICK d, L : d = verzending[v].doc /\ L = (verzending[v].kanalen \cup K) \ uit
    OBVIOUS
  <2>2. d \in Docs /\ L \in SUBSET Kanalen
    BY <1>3, <2>1 DEF PatchVerzending, RegistratieInv, RegistratieTypeOK, Verzonden
  <2>3. Lees(w, VerzendingTaak(v, d, L))
    BY <1>3, <2>1, Zenon DEF PatchVerzending
  <2>4. QED
    BY <2>2, <2>3, VerzendingTaakHoudt
<1>4. QED
  BY <1>1, <1>2, <1>3 DEF VerzendingNext

\* A step of a request about numbers
LEMMA NummerNextHoudt ==
  ASSUME RegistratieInv, NEW w \in Werkers, NummerNext(w)
  PROVE  RegistratieInv'
<1>1. ASSUME NEW org \in Orgs, NEW d \in Docs, NEW nr \in 0..MaxNr,
             Maak(w, d, org, nr) \/ PutDocument(w, d, org, nr)
      PROVE  RegistratieInv'
  BY <1>1, MaakHoudt, PutHoudt
<1>2. ASSUME NEW org \in Orgs, NEW aantal \in 1..MaxAantal, Reserveer(w, org, aantal)
      PROVE  RegistratieInv'
  BY <1>2, ReserveerHoudt
<1>3. ASSUME NEW d \in Docs, PatchDocument(w, d) PROVE RegistratieInv'
  BY <1>3, PatchHoudt
<1>4. ASSUME NEW docs \in Rijtjes(Docs), Len(docs) <= Batch,
             NEW orgs \in [DOMAIN docs -> Orgs], NEW nrs \in [DOMAIN docs -> 0..MaxNr],
             Importeer(w, docs, orgs, nrs)
      PROVE  RegistratieInv'
  <2>1. docs \in Seq(Docs)
    <3>1. \A x, y \in Docs : <<x>> \in Seq(Docs) /\ <<x, y>> \in Seq(Docs)
      OBVIOUS
    <3>2. (\E x \in Docs : docs = <<x>>) \/ (\E x, y \in Docs : docs = <<x, y>>)
      <4>1. Rijtjes(Docs) = {<<x>> : x \in Docs} \cup {<<x, y>> : x, y \in Docs}
        BY DEF Rijtjes
      <4>2. docs \in {<<x>> : x \in Docs} \/ docs \in {<<x, y>> : x, y \in Docs}
        BY <4>1
      <4>3. QED BY <4>2
    <3>3. CASE \E x \in Docs : docs = <<x>>
      BY <3>1, <3>3, Zenon
    <3>4. CASE \E x, y \in Docs : docs = <<x, y>>
      BY <3>1, <3>4, Zenon
    <3>5. QED BY <3>2, <3>3, <3>4
  <2>2. QED BY <1>4, <2>1, ImporteerHoudt
<1>5. CASE Schrijf(w) \/ SchrijfReservering(w) \/ SchrijfBatch(w)
  BY <1>5, SchrijfHoudt, SchrijfReserveringHoudt, SchrijfBatchHoudt
<1>6. QED
  BY <1>1, <1>2, <1>3, <1>4, <1>5, Zenon DEF NummerNext

\* The invariant holds whatever interleaves.
LEMMA RegistratieAlways == RegistratieSpec => []RegistratieInv
<1>1. RegistratieInit => RegistratieInv
  <2>1. SUFFICES ASSUME RegistratieInit PROVE RegistratieInv
    OBVIOUS
  <2>2. \A d \in Docs : ~Aanwezig(d) /\ Sleutels(d) = {}
    BY <2>1 DEF RegistratieInit, Aanwezig, Sleutels
  <2>3. \A d \in Docs : rijen[d] \in Seq(Sleutel) /\ Len(rijen[d]) <= MaxVersies
    <3>1. PICK leeg \in Seq(Sleutel) : leeg = <<>> /\ Len(leeg) = 0
      <4>1. <<>> \in Seq(Sleutel) /\ Len(<<>>) = 0
        OBVIOUS
      <4>2. QED BY <4>1, Zenon
    <3>2. QED BY <2>1, <3>1, RegistratieAssumption DEF RegistratieInit
  <2>4. RegistratieTypeOK
    BY <2>1, <2>3 DEF RegistratieInit, RegistratieTypeOK
  <2>5. NummerEenmaal
    BY <2>1, <2>2 DEF RegistratieInit, NummerEenmaal, EenDocumentPerNummer, ReserveringVrij
  <2>6. RequestsKloppen
    BY <2>1 DEF RegistratieInit, RequestsKloppen
  <2>7. QED BY <2>4, <2>5, <2>6 DEF RegistratieInv
<1>2. RegistratieInv /\ [RegistratieNext]_registratieVars => RegistratieInv'
  <2>1. SUFFICES ASSUME RegistratieInv, [RegistratieNext]_registratieVars PROVE RegistratieInv'
    OBVIOUS
  <2>2. CASE \E w \in Werkers : NummerNext(w) \/ VerzendingNext(w) \/ Afgebroken(w)
    BY <2>1, <2>2, NummerNextHoudt, VerzendingNextHoudt, AfgebrokenHoudt
  <2>3. CASE \E d \in Docs : Verwijder(d)
    BY <2>1, <2>3, VerwijderHoudt
  <2>4. CASE \E v \in Verzendingen : VerwijderVerzending(v)
    BY <2>1, <2>4, VerwijderVerzendingHoudt
  <2>5. CASE UNCHANGED registratieVars
    <3>1. UNCHANGED <<rijen, gereserveerd, verzending, tx, ingehaald, dubbel, overgenomen, voorbij>>
      BY <2>5 DEF registratieVars, merken
    <3>2. RegistratieTypeOK'
      BY <2>1, <3>1 DEF RegistratieInv, RegistratieTypeOK, Aanwezig
    <3>3. QED BY <2>1, <3>1, <3>2, NietsBlijft DEF RegistratieInv
  <2>6. QED
    BY <2>1, <2>2, <2>3, <2>4, <2>5, Zenon DEF RegistratieNext
<1>3. QED BY <1>1, <1>2, PTL DEF RegistratieSpec

\* Numbers, reservations, dispatches and requests keep their types, and a dispatch is of a
\* document that is there, whatever interleaves.
THEOREM RegistratieTypeCorrect == RegistratieSpec => []RegistratieTypeOK
<1>1. RegistratieInv => RegistratieTypeOK
  BY DEF RegistratieInv
<1>2. QED BY <1>1, RegistratieAlways, PTL

\* A number is of one document or of one reservation that nobody used yet, unless it was taken
\* after another request read that it was free, an import gave it twice or passed over the
\* reservation, or an update took it from another document.
THEOREM NumbersOfDocuments == RegistratieSpec => []NummerEenmaal
<1>1. RegistratieInv => NummerEenmaal
  BY DEF RegistratieInv
<1>2. QED BY <1>1, RegistratieAlways, PTL

=============================================================================
