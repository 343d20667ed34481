----------------------------- MODULE Documenten -----------------------------
(***************************************************************************)
(* One document of the Documenten API of Open Zaak: its canonical row (the *)
(* check-out lock and the pointer to the latest version), its versions,    *)
(* the part files of a large upload, its usage rights and the relations    *)
(* that point at it.                                                       *)
(*                                                                         *)
(* Web workers serve requests concurrently.  The database runs at READ     *)
(* COMMITTED, nothing in the component takes a row lock, and `lock`,       *)
(* `unlock` and the part upload are not wrapped in a transaction by their  *)
(* views.  So a handler is a read (fetch the rows, validate the request)   *)
(* followed by one or more writes, and each write stores what the handler  *)
(* read: Model.save() writes every column of the row.  Handlers run in     *)
(* worker processes that may be killed between two writes.                 *)
(***************************************************************************)
EXTENDS Integers, FiniteSets

CONSTANTS
  Requests,     \* requests being served at the same time
  Ops,          \* the operations clients call in this instance
  MaxVersie,    \* bound: versions per document
  MaxLock,      \* bound: lock identifiers handed out
  MaxUploads,   \* bound: part files received
  MaxRechten,   \* bound: usage rights
  MaxFaults,    \* bound: workers killed and transactions rolled back
  NumDelen      \* parts a large file is split into

AllOps == {"lock", "unlock", "force_unlock", "patch", "put", "upload", "recht",
           "recht_wis", "relatie", "relatie_wis", "destroy"}

ASSUME BoundsAssumption ==
  /\ MaxVersie \in Nat \ {0}
  /\ MaxLock \in Nat \ {0}
  /\ MaxUploads \in Nat
  /\ MaxRechten \in Nat
  /\ MaxFaults \in Nat
  /\ NumDelen \in Nat \ {0}
  /\ Ops \subseteq AllOps

VARIABLES
  canonical,     \* [stand, lock, latest]: EnkelvoudigInformatieObjectCanonical
  eio,           \* version number -> row of EnkelvoudigInformatieObject
  delen,         \* volgnummer -> row of BestandsDeel
  weg,           \* part files deleted from storage
  uploads,       \* number of part files received
  rechten,       \* Gebruiksrechten rows, by primary key
  rechtIds,      \* primary keys of Gebruiksrechten given out
  relaties,      \* ZaakInformatieObject / BesluitInformatieObject rows
  req,           \* what each request has read and has still to do
  locks,         \* lock identifiers handed out so far
  uitgegeven,    \* history: locks a client was given and nobody unlocked
  fouten,        \* history: what went wrong in a handler
  faults         \* number of faults so far

vars == <<canonical, eio, delen, weg, uploads, rechten, rechtIds, relaties, req,
          locks, uitgegeven, fouten, faults>>

fileVars  == <<delen, weg, uploads>>
docVars   == <<eio, fileVars>>
rightVars == <<rechten, rechtIds, relaties>>
auxVars   == <<locks, uitgegeven, fouten, faults>>

-----------------------------------------------------------------------------
Versie  == 1..MaxVersie
Deel    == 1..NumDelen
NoLock  == 0                              \* canonical.lock = ""

\* bestandsomvang: None, a size of an inline file, or the size of a file that
\* has to be uploaded in parts.
Omvang  == {"onbekend", "klein", "groot"}

\* What the inhoud column refers to: nothing, the file of the request, or the
\* merge of parts, each of the version it was uploaded for.
Inhoud  == [soort : {"geen", "inline", "merged"}, delen : SUBSET (Versie \X Deel)]
Geen    == [soort |-> "geen", delen |-> {}]
Inline  == [soort |-> "inline", delen |-> {}]

Row     == [omvang : Omvang, inhoud : Inhoud, indicatie : BOOLEAN]

\* A BestandsDeel row: the version it was created for stands for its primary
\* key; file is 0 while nothing was uploaded.
DeelRow == [gen : Versie, file : 0..MaxUploads]

NoDelen == [n \in {} |-> [gen |-> 1, file |-> 0]]
LegeRij == [omvang |-> "onbekend", inhoud |-> Geen, indicatie |-> FALSE]

\* What a request remembers: its phase, the lock and pointer of the canonical
\* row, a version and its row, part rows, the key of the part or right it is
\* about, and whether it is a PUT, an administrator, or deletes the last right.
Idle == [fase |-> "vrij", lock |-> NoLock, latest |-> 0, versie |-> 1,
         rij |-> LegeRij, delen |-> NoDelen, pk |-> 1, opt |-> FALSE]

Fases == {"vrij", "lock_save", "unlock_save", "merge", "parts", "wipe",
          "update_save", "upload_save", "recht_save", "recht_delete", "delete"}

MaxOf(S) == CHOOSE x \in S : \A y \in S : y <= x

Bestaat    == canonical.stand = "bestaat"
Recentste  == MaxOf(DOMAIN eio)            \* ORDER BY versie DESC LIMIT 1

\* Add or replace one row of a table.
Put(table, k, row) ==
  [x \in DOMAIN table \cup {k} |-> IF x = k THEN row ELSE table[x]]
Without(table, ks) == [x \in DOMAIN table \ ks |-> table[x]]

\* Mutant: the trigger is missing.
NoTrigger(c, table) == c

\* The database trigger set_latest_version, after every write to a version row.
Trigger(c, table) == [c EXCEPT !.latest = MaxOf(DOMAIN table)]

\* Model.save() of a loaded canonical row: every column, as it was read.
SaveCanonical(lock, latest) ==
  canonical' = [canonical EXCEPT !.lock = lock, !.latest = latest]

\* Mutant: numbers from 0.
ZeroBasedDelen(v) == [n \in 0..(NumDelen - 1) |-> [gen |-> v, file |-> 0]]

\* The parts _create_bestandsdeel makes for a version.
NewDelen(v) == [n \in Deel |-> [gen |-> v, file |-> 0]]

NeedsDelen(row) == row.inhoud.soort = "geen" /\ row.omvang = "groot"

EmptyBestandsdelen(table) == \A n \in DOMAIN table : table[n].file = 0
CompleteUpload(table)     == \A n \in DOMAIN table : table[n].file # 0

\* Rows of table that still are the rows in snap (same primary key).
SameRows(table, snap) ==
  {n \in DOMAIN table \cap DOMAIN snap : table[n].gen = snap[n].gen}
Files(table) == {table[n].file : n \in DOMAIN table} \ {0}

Start(r, fase, snap) == req' = [req EXCEPT ![r] = [snap EXCEPT !.fase = fase]]
Continue(r, fase)    == req' = [req EXCEPT ![r].fase = fase]
Finish(r)            == req' = [req EXCEPT ![r] = Idle]

\* get_object(): the canonical row and the newest version joined with it; the
\* part rows are prefetched.
FetchedCanonical == [Idle EXCEPT !.lock = canonical.lock, !.latest = canonical.latest]
FetchedDocument  == [FetchedCanonical EXCEPT !.versie = Recentste, !.rij = eio[Recentste]]
FetchedAll       == [FetchedDocument EXCEPT !.delen = delen]

Ready(r, op) == Bestaat /\ op \in Ops /\ req[r].fase = "vrij"

-----------------------------------------------------------------------------
Init ==
  /\ canonical = [stand |-> "nieuw", lock |-> NoLock, latest |-> 0]
  /\ eio = [v \in {} |-> LegeRij]
  /\ delen = NoDelen
  /\ weg = {}
  /\ uploads = 0
  /\ rechten = {}
  /\ rechtIds = 0
  /\ relaties = {}
  /\ req = [r \in Requests |-> Idle]
  /\ locks = 0
  /\ uitgegeven = {}
  /\ fouten = {}
  /\ faults = 0

\* POST of a document.  One transaction: the canonical row, version 1, and for
\* a large file its empty parts and a lock that the creator gets back.
Create(omvang) ==
  LET row   == [LegeRij EXCEPT !.omvang = omvang,
                               !.inhoud = IF omvang = "klein" THEN Inline ELSE Geen]
      large == NeedsDelen(row)
  IN /\ canonical.stand = "nieuw"
     /\ eio' = Put(eio, 1, row)
     /\ delen' = IF large THEN NewDelen(1) ELSE NoDelen
     /\ locks' = IF large THEN 1 ELSE 0
     /\ uitgegeven' = IF large THEN {1} ELSE {}
     /\ canonical' = [stand |-> "bestaat", lock |-> locks', latest |-> 1]
     /\ UNCHANGED <<weg, uploads, rightVars, req, fouten, faults>>

-----------------------------------------------------------------------------
(* lock *)

\* Fetch the document; a document that is already locked is refused.
LockRead(r) ==
  /\ Ready(r, "lock")
  /\ canonical.lock = NoLock
  /\ Start(r, "lock_save", FetchedCanonical)
  /\ UNCHANGED <<canonical, docVars, rightVars, auxVars>>

\* Store a fresh lock with the whole canonical row.  If the document was
\* destroyed in the meantime, the insert that save() falls back to breaks the
\* foreign key of latest_version.
LockSave(r) ==
  /\ req[r].fase = "lock_save"
  /\ Finish(r)
  /\ IF Bestaat
       THEN /\ locks < MaxLock
            /\ locks' = locks + 1
            /\ uitgegeven' = uitgegeven \cup {locks'}
            /\ SaveCanonical(locks', req[r].latest)
       ELSE UNCHANGED <<canonical, locks, uitgegeven>>
  /\ UNCHANGED <<docVars, rightVars, fouten, faults>>

-----------------------------------------------------------------------------
(* unlock *)

\* Mutant: a document whose file was never uploaded may be unlocked.
UnlockReadNoFileCheck(r, lock) ==
  /\ Ready(r, "unlock")
  /\ lock = canonical.lock
  /\ CompleteUpload(delen) \/ EmptyBestandsdelen(delen)
  /\ Start(r, "unlock_save", FetchedDocument)
  /\ UNCHANGED <<canonical, docVars, rightVars, auxVars>>

\* The checks of the unlock serializer: the right lock, all parts or none, and
\* without parts a file, else the size is compared with 0 (which refuses the
\* request, and raises a TypeError when the size is None).
UnlockRead(r, lock) ==
  /\ Ready(r, "unlock")
  /\ lock = canonical.lock
  /\ CompleteUpload(delen) \/ EmptyBestandsdelen(delen)
  /\ IF EmptyBestandsdelen(delen) /\ eio[Recentste].inhoud.soort = "geen"
       THEN /\ eio[Recentste].omvang = "onbekend"
            /\ fouten' = fouten \cup {"unlock_typeerror"}
            /\ UNCHANGED req
       ELSE /\ Start(r, "unlock_save", FetchedDocument)
            /\ UNCHANGED fouten
  /\ UNCHANGED <<canonical, docVars, rightVars, locks, uitgegeven, faults>>

\* With the scope to force it there are no checks.
ForceUnlockRead(r) ==
  /\ Ready(r, "force_unlock")
  /\ Start(r, "unlock_save", [FetchedDocument EXCEPT !.opt = TRUE])
  /\ UNCHANGED <<canonical, docVars, rightVars, auxVars>>

\* Clear the lock, with the whole canonical row; committed at once.  A client
\* gives back the lock it named, an administrator takes every lock.
UnlockSave(r) ==
  /\ req[r].fase = "unlock_save"
  /\ IF Bestaat
       THEN /\ SaveCanonical(NoLock, req[r].latest)
            /\ uitgegeven' = IF req[r].opt THEN {} ELSE uitgegeven \ {req[r].lock}
            /\ Continue(r, "merge")
       ELSE Finish(r) /\ UNCHANGED <<canonical, uitgegeven>>
  /\ UNCHANGED <<docVars, rightVars, locks, fouten, faults>>

\* Save the row of version v, every column; the trigger follows.
SaveVersie(v, row) ==
  /\ eio' = [eio EXCEPT ![v] = row]
  /\ canonical' = Trigger(canonical, eio)

\* No part was uploaded: done.
UnlockEmpty(r) ==
  /\ req[r].fase = "merge"
  /\ EmptyBestandsdelen(delen)
  /\ Finish(r)
  /\ UNCHANGED <<canonical, docVars, rightVars, auxVars>>

\* All parts were uploaded: they are merged into the version that was fetched,
\* which is saved with the columns it had then.  A missing file is an error.
UnlockMerge(r) ==
  LET merged == [soort |-> "merged",
                 delen |-> {<<delen[n].gen, n>> : n \in DOMAIN delen}]
  IN /\ req[r].fase = "merge"
     /\ ~EmptyBestandsdelen(delen)
     /\ CompleteUpload(delen)
     /\ IF Files(delen) \cap weg = {}
          THEN /\ SaveVersie(req[r].versie, [req[r].rij EXCEPT !.inhoud = merged])
               /\ req' = [req EXCEPT ![r].fase = "wipe", ![r].delen = delen]
               /\ UNCHANGED fouten
          ELSE /\ fouten' = fouten \cup {"bestand_weg"}
               /\ Finish(r)
               /\ UNCHANGED <<canonical, eio>>
     /\ UNCHANGED <<fileVars, rightVars, locks, uitgegeven, faults>>

\* Some parts were uploaded (only an administrator gets here without a race):
\* the size is forgotten.
UnlockForget(r) ==
  /\ req[r].fase = "merge"
  /\ ~EmptyBestandsdelen(delen)
  /\ ~CompleteUpload(delen)
  /\ SaveVersie(req[r].versie, [req[r].rij EXCEPT !.omvang = "onbekend"])
  /\ Continue(r, "parts")
  /\ UNCHANGED <<fileVars, rightVars, auxVars>>

\* wipe() runs the query for the parts, which the merge already did.
UnlockParts(r) ==
  /\ req[r].fase = "parts"
  /\ req' = [req EXCEPT ![r].fase = "wipe", ![r].delen = delen]
  /\ UNCHANGED <<canonical, docVars, rightVars, auxVars>>

\* wipe(): one part at a time, by number, every statement committed by itself.
WipeNext(r, n) ==
  /\ req[r].fase = "wipe"
  /\ n \in DOMAIN req[r].delen
  /\ \A m \in DOMAIN req[r].delen : n <= m

UnlockWipe(r, n) ==
  LET todo == req[r].delen
  IN /\ WipeNext(r, n)
     /\ weg' = weg \cup ({todo[n].file} \ {0})
     /\ delen' = Without(delen, {n} \cap SameRows(delen, todo))
     /\ req' = [req EXCEPT ![r].delen = Without(todo, {n})]
     /\ UNCHANGED <<canonical, eio, uploads, rightVars, auxVars>>

UnlockDone(r) ==
  /\ req[r].fase = "wipe"
  /\ DOMAIN req[r].delen = {}
  /\ Finish(r)
  /\ UNCHANGED <<canonical, docVars, rightVars, auxVars>>

\* The worker is killed inside wipe(), when the file of a part is deleted and
\* its row is not, or only cleared.
CrashInWipe(r, n, cleared) ==
  LET todo == req[r].delen
  IN /\ WipeNext(r, n)
     /\ faults < MaxFaults
     /\ faults' = faults + 1
     /\ weg' = weg \cup ({todo[n].file} \ {0})
     /\ delen' = IF cleared /\ n \in SameRows(delen, todo)
                   THEN [delen EXCEPT ![n].file = 0] ELSE delen
     /\ Finish(r)
     /\ UNCHANGED <<canonical, eio, uploads, rightVars, locks, uitgegeven, fouten>>

-----------------------------------------------------------------------------
(* update and partial_update *)

\* Mutant: no lock is asked for.
UpdateReadNoLock(r, lock, op) ==
  /\ Ready(r, op)
  /\ Recentste < MaxVersie
  /\ lock = canonical.lock
  /\ Start(r, "update_save", [FetchedAll EXCEPT !.opt = (op = "put")])
  /\ UNCHANGED <<canonical, docVars, rightVars, auxVars>>

\* Fetch the newest version and its parts, and check the lock.
UpdateRead(r, lock, op) ==
  /\ Ready(r, op)
  /\ Recentste < MaxVersie
  /\ canonical.lock # NoLock
  /\ lock = canonical.lock
  /\ Start(r, "update_save", [FetchedAll EXCEPT !.opt = (op = "put")])
  /\ UNCHANGED <<canonical, docVars, rightVars, auxVars>>

\* The row of the new version: the fetched row with the file that the request
\* names.  A PATCH that names neither inhoud nor bestandsomvang ("zelfde") keeps
\* both.  A PUT carries over no field that it leaves out: it drops the
\* indication, and the file it does not name.
NewRow(rij, put, file) ==
  LET kept == IF file = "zelfde"
                THEN rij
                ELSE [rij EXCEPT !.omvang = file,
                                 !.inhoud = IF file = "klein" THEN Inline ELSE Geen]
  IN IF put THEN [kept EXCEPT !.indicatie = FALSE] ELSE kept

\* Mutant: a number is skipped.
SkipVersie(v) == v + 2

\* validated_data["versie"] += 1
NextVersie(v) == v + 1

\* One transaction: insert version + 1 (unique per uuid and versie), wipe the
\* parts that were fetched, make new ones (unique per volgnummer).  A broken
\* constraint rolls the rows back, but the part files are gone by then.
UpdateSave(r, file) ==
  LET q       == req[r]
      new     == NextVersie(q.versie)
      row     == NewRow(q.rij, q.opt, file)
      cleared == Without(delen, SameRows(delen, q.delen))
      clash   == NeedsDelen(row) /\ DOMAIN cleared # {}
  IN /\ q.fase = "update_save"
     /\ q.opt => file # "zelfde"
     /\ Finish(r)
     /\ IF ~Bestaat \/ new \in DOMAIN eio
          THEN UNCHANGED <<canonical, eio, delen, weg>>
          ELSE /\ weg' = weg \cup Files(q.delen)
               /\ IF clash
                    THEN UNCHANGED <<canonical, eio, delen>>
                    ELSE /\ eio' = Put(eio, new, row)
                         /\ delen' = IF NeedsDelen(row) THEN NewDelen(new) ELSE cleared
                         /\ canonical' = Trigger(canonical, eio')
     /\ UNCHANGED <<uploads, rightVars, auxVars>>

\* The audit trail or the notification of the update fails after the wipe:
\* everything but the deleted files is rolled back.
UpdateRollback(r) ==
  /\ req[r].fase = "update_save"
  /\ Bestaat
  /\ faults < MaxFaults
  /\ faults' = faults + 1
  /\ weg' = weg \cup Files(req[r].delen)
  /\ Finish(r)
  /\ UNCHANGED <<canonical, eio, delen, uploads, rightVars, locks, uitgegeven, fouten>>

-----------------------------------------------------------------------------
(* bestandsdelen *)

\* Fetch one part and check the lock of its document.
UploadRead(r, lock, nr) ==
  /\ Ready(r, "upload")
  /\ nr \in DOMAIN delen
  /\ lock # NoLock
  /\ lock = canonical.lock
  /\ Start(r, "upload_save", [Idle EXCEPT !.pk = nr, !.delen = Put(NoDelen, nr, delen[nr])])
  /\ UNCHANGED <<canonical, docVars, rightVars, auxVars>>

\* Save the part that was fetched.  If it was wiped in the meantime, save()
\* inserts it again, unless another row took its volgnummer.
UploadSave(r) ==
  LET nr  == req[r].pk
      gen == req[r].delen[nr].gen
      ok  == Bestaat /\ (nr \in DOMAIN delen => delen[nr].gen = gen)
  IN /\ req[r].fase = "upload_save"
     /\ uploads < MaxUploads
     /\ uploads' = uploads + 1
     /\ delen' = IF ok THEN Put(delen, nr, [gen |-> gen, file |-> uploads']) ELSE delen
     /\ Finish(r)
     /\ UNCHANGED <<canonical, eio, weg, rightVars, auxVars>>

-----------------------------------------------------------------------------
(* gebruiksrechten *)

\* The version that the latest_version pointer names.
FetchedLatest == [Idle EXCEPT !.versie = canonical.latest,
                              !.rij = eio[canonical.latest]]

RechtRead(r) ==
  /\ Ready(r, "recht")
  /\ Start(r, "recht_save", FetchedLatest)
  /\ UNCHANGED <<canonical, docVars, rightVars, auxVars>>

\* Set the indication on the version that was read, with all its columns, and
\* insert the right.
RechtSave(r) ==
  /\ req[r].fase = "recht_save"
  /\ Finish(r)
  /\ IF Bestaat
       THEN /\ rechtIds < MaxRechten
            /\ rechtIds' = rechtIds + 1
            /\ rechten' = rechten \cup {rechtIds'}
            /\ IF req[r].rij.indicatie
                 THEN UNCHANGED <<canonical, eio>>
                 ELSE SaveVersie(req[r].versie, [req[r].rij EXCEPT !.indicatie = TRUE])
       ELSE UNCHANGED <<canonical, eio, rechten, rechtIds>>
  /\ UNCHANGED <<fileVars, relaties, auxVars>>

\* Delete one right; the committed others and the version are read first.
RechtDeleteRead(r, pk) ==
  /\ Ready(r, "recht_wis")
  /\ pk \in rechten
  /\ Start(r, "recht_delete",
           [FetchedLatest EXCEPT !.pk = pk, !.opt = (rechten = {pk})])
  /\ UNCHANGED <<canonical, docVars, rightVars, auxVars>>

\* The last one clears the indication.
RechtDelete(r) ==
  /\ req[r].fase = "recht_delete"
  /\ Finish(r)
  /\ rechten' = rechten \ {req[r].pk}
  /\ IF Bestaat /\ req[r].opt
       THEN SaveVersie(req[r].versie, [req[r].rij EXCEPT !.indicatie = FALSE])
       ELSE UNCHANGED <<canonical, eio>>
  /\ UNCHANGED <<fileVars, rechtIds, relaties, auxVars>>

-----------------------------------------------------------------------------
(* relations and destroy *)

\* A zaak (PROTECT) or a besluit (CASCADE) relates the document.  The foreign
\* key makes the insert fail when the document is gone.
Relate(r, object) ==
  /\ Ready(r, "relatie")
  /\ relaties' = relaties \cup {object}
  /\ UNCHANGED <<canonical, docVars, rechten, rechtIds, req, auxVars>>

Unrelate(r, object) ==
  /\ Ready(r, "relatie_wis")
  /\ object \in relaties
  /\ relaties' = relaties \ {object}
  /\ UNCHANGED <<canonical, docVars, rechten, rechtIds, req, auxVars>>

\* Refused while there are relations or a lock.
DestroyRead(r) ==
  /\ Ready(r, "destroy")
  /\ relaties = {}
  /\ canonical.lock = NoLock
  /\ Start(r, "delete", Idle)
  /\ UNCHANGED <<canonical, docVars, rightVars, auxVars>>

\* Mutant: on_delete=CASCADE for the relation with a zaak.
NotProtected == FALSE

\* on_delete=PROTECT of ZaakInformatieObject.
Protected == "zaak" \in relaties

\* canonical.delete(): the relation of a zaak stops it, everything else that
\* refers to the document goes with it, a relation or a lock included that came
\* after the check.
Destroy(r) ==
  /\ req[r].fase = "delete"
  /\ Finish(r)
  /\ IF Bestaat /\ ~Protected
       THEN /\ canonical' = [stand |-> "vernietigd", lock |-> NoLock, latest |-> 0]
            /\ eio' = [v \in {} |-> LegeRij]
            /\ delen' = NoDelen
            /\ rechten' = {}
            /\ relaties' = {}
            /\ uitgegeven' = {}
            /\ fouten' = IF relaties = {} /\ canonical.lock = NoLock
                         THEN fouten ELSE fouten \cup {"destroy_unchecked"}
       ELSE UNCHANGED <<canonical, eio, delen, rechten, relaties, uitgegeven, fouten>>
  /\ UNCHANGED <<weg, uploads, rechtIds, locks, faults>>

-----------------------------------------------------------------------------
\* A worker is killed: its open transaction is rolled back, what it committed
\* stays.
Crash(r) ==
  /\ req[r].fase # "vrij"
  /\ faults < MaxFaults
  /\ faults' = faults + 1
  /\ Finish(r)
  /\ UNCHANGED <<canonical, docVars, rightVars, locks, uitgegeven, fouten>>

\* A client may name any lock, and for an unlock none.
Lock == 0..MaxLock

Next ==
  \/ \E omvang \in Omvang : Create(omvang)
  \/ \E r \in Requests :
       \/ LockRead(r) \/ LockSave(r)
       \/ \E lock \in Lock : UnlockRead(r, lock)
       \/ ForceUnlockRead(r)
       \/ UnlockSave(r)
       \/ UnlockEmpty(r) \/ UnlockMerge(r) \/ UnlockForget(r)
       \/ UnlockParts(r) \/ UnlockDone(r)
       \/ \E n \in Deel : UnlockWipe(r, n)
       \/ \E lock \in Lock, op \in {"patch", "put"} : UpdateRead(r, lock, op)
       \/ \E file \in Omvang \cup {"zelfde"} : UpdateSave(r, file)
       \/ \E lock \in Lock, nr \in Deel : UploadRead(r, lock, nr)
       \/ UploadSave(r)
       \/ RechtRead(r) \/ RechtSave(r)
       \/ \E pk \in rechten : RechtDeleteRead(r, pk)
       \/ RechtDelete(r)
       \/ \E object \in {"zaak", "besluit"} : Relate(r, object) \/ Unrelate(r, object)
       \/ DestroyRead(r) \/ Destroy(r)
       \/ UpdateRollback(r) \/ Crash(r)
       \/ \E n \in Deel, cleared \in BOOLEAN : CrashInWipe(r, n, cleared)

Spec == Init /\ [][Next]_vars

-----------------------------------------------------------------------------
(* Properties *)

IsTable(table, K, R) == DOMAIN table \subseteq K /\ table \in [DOMAIN table -> R]

Tables(K, R) == UNION {[D -> R] : D \in SUBSET K}

ReqType == [fase : Fases, lock : Lock, latest : 0..MaxVersie, versie : Versie,
            rij : Row, delen : Tables(Deel, DeelRow), pk : Nat, opt : BOOLEAN]

\* Every variable has its type, and the rows that exist fit the life of the
\* document: no version, part, right or relation without its canonical row.
TypeOK ==
  /\ canonical \in [stand : {"nieuw", "bestaat", "vernietigd"}, lock : Lock,
                    latest : 0..MaxVersie]
  /\ IsTable(eio, Versie, Row)
  /\ IsTable(delen, Deel, DeelRow)
  /\ weg \subseteq 1..MaxUploads
  /\ uploads \in 0..MaxUploads
  /\ rechtIds \in 0..MaxRechten
  /\ rechten \subseteq 1..rechtIds
  /\ relaties \subseteq {"zaak", "besluit"}
  /\ req \in [Requests -> ReqType]
  /\ locks \in Lock
  /\ uitgegeven \subseteq 1..locks
  /\ fouten \subseteq {"unlock_typeerror", "bestand_weg", "destroy_unchecked"}
  /\ faults \in 0..MaxFaults

\* The versions of a document are numbered 1, 2, ... without a gap, whatever
\* updates, unlocks and usage rights race: no update is lost by two requests
\* that store the same version.  (The relations and the audit trail address a
\* version by this number.)
VersionsContiguous == Bestaat => \E n \in Versie : DOMAIN eio = 1..n

\* latest_version names the newest version (the list endpoint, the usage rights
\* and the part uploads find the document through it).
LatestIsNewest == Bestaat => canonical.latest = Recentste

\* A lock that was handed out stays the lock of the document until it is given
\* back, and a document is only locked with a lock somebody was given.
LockHolder == Bestaat => uitgegeven = {canonical.lock} \ {NoLock}

\* The part rows belong to the newest version: those of an older version never
\* get mixed into its file.
PartsOfNewest == \A n \in DOMAIN delen : delen[n].gen = Recentste

\* A file merged from parts holds all the parts of one upload.
MergedComplete ==
  \A v \in DOMAIN eio :
    eio[v].inhoud.soort = "merged" =>
      \E g \in Versie : eio[v].inhoud.delen = {<<g, n>> : n \in Deel}

\* A part that counts as uploaded has its file.
PartsHaveFiles == Files(delen) \cap weg = {}

\* indicatie_gebruiksrecht of the newest version says whether there are usage
\* rights.
IndicatieMatches == Bestaat => (eio[Recentste].indicatie <=> rechten # {})

\* A new version is only stored for a request that named a lock which had been
\* handed out.
VersionsNeedLock ==
  [][\A v \in DOMAIN eio' \ (DOMAIN eio \cup {1}) :
       \E r \in Requests : /\ req[r].fase = "update_save"
                           /\ req[r].lock \in 1..locks
                           /\ req[r].versie + 1 = v]_vars

\* A document that a zaak refers to is not destroyed, even when the relation is
\* made between the check and the delete.
ZaakKeepsDocument == [][Bestaat /\ "zaak" \in relaties => Bestaat']_vars

\* Destroying a document takes no relation with it and no lock that is out: "All
\* relations to the document must be destroyed before destroying the document",
\* "Locked objects cannot be destroyed".
DestroyChecked == "destroy_unchecked" \notin fouten

\* Once no request is busy, a document that is not locked and has the size of a
\* large file has that file: unlocking demands the upload, and the upload is not
\* lost afterwards.
UnlockedHasFile ==
  (/\ Bestaat
   /\ canonical.lock = NoLock
   /\ \A r \in Requests : req[r].fase = "vrij")
  => ~NeedsDelen(eio[Recentste])

\* Uploads end complete: parts have their files, what is merged is one upload, and a
\* document that nobody edits has its file.
UploadsComplete == PartsHaveFiles /\ MergedComplete /\ UnlockedHasFile

\* However requests race, the versions form an append-only log.
Log == INSTANCE VersionLog WITH
         versies <- DOMAIN eio, weg <- (canonical.stand = "vernietigd")
ImplementsVersionLog == Log!Spec

\* Served one at a time, the requests implement check-out.
CO == INSTANCE Checkout WITH
        stand <- canonical.stand, lock <- canonical.lock, given <- locks,
        versies <- DOMAIN eio
ImplementsCheckout == CO!Spec

=============================================================================
