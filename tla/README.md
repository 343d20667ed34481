# Open Zaak: verification of the core

TLA+ models of the parts of Open Zaak that keep state and that several requests,
workers, tasks and installations work on at the same time, with TLC runs on small
instances and TLAPS proofs for all instances.

1. [The system](#1-the-system) · 2. [Inventory](#2-inventory) ·
3. [The models](#3-the-models) · 4. [The runs](#4-the-runs) ·
5. [Where the code does not do what it says](#5-where-the-code-does-not-do-what-it-says) ·
6. [The proofs](#6-the-proofs) · 7. [What is not modelled](#7-what-is-not-modelled) ·
8. [Plan](#8-plan)

All source paths are relative to `src/openzaak/` of the repository unless they start
with `docs/`. Names of operators follow the code, which is in part Dutch: *zaak* (case),
*deelzaak* and *hoofdzaak* (sub case and its main case), *besluit* (decision), *rol* (role),
*rij* (row), *spiegel* (mirror), *einddatum* (end date), *afleidingswijze* (the way the start
of the archiving is derived), *gebruiksrechten* (usage rights), *bestandsdelen* (parts of a
file), *verzending* (dispatch), *koppelen* and *ontkoppelen* (to relate, to unrelate).

## 1. The system

Open Zaak is a Django application that offers the Dutch APIs for case management: Zaken,
Documenten, Besluiten, Catalogi and Autorisaties, on one PostgreSQL database, with Redis
as cache and message broker and Celery for one long task. What matters for the models:

- **Several web workers** serve requests at the same time. There is no
  `ATOMIC_REQUESTS`; the library mixins for notifications and audit trails wrap the save
  of create, update and destroy in a transaction, and serializers open their own. Actions
  such as `lock` and `unlock` of a document, and the views that call another installation,
  run without a transaction.
- **READ COMMITTED, no row locks.** The code never uses `select_for_update`. The only
  locks are an advisory lock of PostgreSQL around the generator of case numbers
  (`utils/db.py`) and a key in the cache around the bulk import
  (`import_data/utils.py`). A handler validates what it reads and stores its result
  later; nothing holds in between but the constraints of the database.
- **`Model.save()` writes every column** of the row as it was read, unless
  `update_fields` is given, and inserts the row when it is gone. What a request read long ago
  is what it stores.
- **Worker processes are killed** (deploys, memory limits, timeouts), so a handler that
  writes without a transaction can stop between two writes. Celery acknowledges a message
  before it runs the task, so that a worker that dies takes the task with it.
- **Other installations** keep the other half of relations with documents, besluiten,
  contactmomenten and verzoeken. They are called while a request is served, and what was done
  is undone by hand when a call fails.

So a handler is modelled as a *read* (fetch the rows, validate, stop on an error)
followed by one or more *writes* (one per transaction, or one per statement where there is
no transaction or where statements of two transactions wait for each other). A state in
between belongs to the request: what it read, kept in `req` or `tx`.

## 2. Inventory

`PROJECT.json` lists the components with their sources and status. In short:

| component | state | operations | hard | must hold |
|---|---|---|---|---|
| Documents (`components/documenten`) | canonical row with lock and pointer to the newest version, versions, parts of an upload, files, usage rights, relations | create, lock, unlock, forced unlock, PUT/PATCH, upload a part, add/remove usage rights, relate, destroy | no transaction around lock and unlock; whole-row saves; a database trigger; files are not transactional; the unlock merges and wipes in many statements | versions are an append-only log; one lock at a time; a version needs a lock; a large document that is unlocked has its whole file; a related document stays |
| Document numbers and dispatches (`components/documenten`) | numbers of documents, reservations, dispatches | name, generate, reserve, import, update, destroy | a generator without a lock or a constraint; reservations that an update or import may take; five channels and one address | one document per number; a reservation can be used |
| Bulk import (`import_data`, `components/documenten/tasks.py`) | import rows and counters, task queue, cache lock, documents, files | create, upload, report, destroy, daily removal; task with batches | checks and saves of views apart; lock that expires; dropped and lost tasks; rollback of a batch against counters and files | one import at a time; a row at most once; statistics and files match; the import ends |
| Case numbers (`components/zaken/models/identification*.py`) | rows of numbers, advisory lock | generate, register, reserve, name, delete | generator reads the maximum; lock until the end of the transaction; a number exists before its zaak | numbers are unique; nobody waits for ever |
| Closing and archiving (`components/zaken`) | zaken, statuses, results, dates of archiving, documents of a zaak | set a status, PATCH, add/remove a result, eigenschappen, besluiten | two definitions of "closed"; validation before the transaction; dates in two time zones; recalculation of derived dates; deelzaken | closed means the same everywhere; deelzaken close first; archiving follows from the result |
| Relations and roles of zaken, combined endpoints (`components/zaken`) | relations with their reverses, roles, zaakobjecten | create, PATCH, delete; register and update a zaak in one request | reverses made in signal handlers that look first; limits that are counted before an insert; statements of two transactions that wait for each other | both sides of a relation exist; one initiator |
| Relations with other installations (`components/zaken`, `components/besluiten`) | rows here, mirrors there | relate, unrelate, create, move and delete a besluit | commit, call, compensate; a call that is answered after it was given up; the other side asks back | both sides agree |
| Catalogi (`components/catalogi`) | types with concept flag and period of validity, their relations and parts | create, publish, end, change, delete, new version, import; in the API and the admin | overlap check before save; publication against changes of related types | versions of a type do not overlap; a published type stays complete and as it was |
| Cloud events (`utils/cloudevents.py`, `zaken/signals.py`, `zaken/api/cloudevents.py`) | registry per worker of scheduled events, callbacks; linked objects | schedule, send on commit; webhook that links and unlinks | registry outlives transactions; callbacks that fail; messages delivered again | one event per changed zaak and transaction; links follow the messages |
| Autorisaties (`components/autorisaties`) | applicaties with client ids, autorisaties for types (by URL) and for catalogi; credentials | POST, PUT, PATCH, DELETE; forms of the admin; signal handlers when types come and go; a command; notifications | checks before writes; no foreign key from an autorisatie to its type and no constraint on client ids; three places that save; a form compares with what it read long ago | an applicatie stays manageable; a client id belongs to one; subscribers know what an applicatie can do |
| Auth filters, loose foreign keys, remote data (`utils`, `loaders.py`) | none | query rewriting; permissions | a list filter and a permission class that decide the same thing from different sources | list and detail page agree |
| Caching and ETags | ETag columns | recompute on save | stale ETags | – |
| Admin, configuration, accounts; selectielijst, BAG, verzoeken; Celery app, commands; front end | settings rows, none | edited by hand | – | – |

How they interact: documents are related to zaken and besluiten by
`ZaakInformatieObject`/`BesluitInformatieObject`, whose signal handlers keep
`ObjectInformatieObject` rows on the side of the document; closing a zaak looks at the
locks and usage rights of its documents; the bulk import creates documents and relations
in bulk; besluiten and eigenschappen move the archiving of their zaak; zaken, documents and
besluiten refer to types that are published; saving a zaak or what belongs to it schedules a
cloud event; all components send notifications when a transaction commits and ask
Autorisaties what a client may do.

The hazards of this code, each at its line and with the properties that would catch it,
are in `PROJECT.json` under "hazards".

## 3. The models

Each component is one module with its state, one action per handler step, its properties,
and (before the definition it belongs to) a few *mutants*: operators named in a comment as
such, which state how a plausible bug would change that definition. They are used by no
specification; each is a version of the code that must violate a property, so that the
property is known to say something. `PROJECT.json` "map" gives the lines that every
definition stands for.

Several properties only hold as long as nothing of a certain kind happened: two requests
about one row at the same time, a call that was lost, a number that a client took over.
The module then keeps a *history variable*, which no action reads, with the rows it happened to
(`geraakt`, `samen`, `herhaald`, `ingehaald`, `afgeweken`, ...), and the property excuses
those rows and no others. Section 5 shows what becomes of the rows it excuses.

### Documents: `Documenten`, `Checkout`, `VersionLog`

One document. State and code: `canonical` is `EnkelvoudigInformatieObjectCanonical`
(lock, pointer `latest_version`), `eio` the rows of `EnkelvoudigInformatieObject` by
version, `delen` the rows of `BestandsDeel`, `weg` the part files that were deleted from
the storage, `rechten` and `relaties` the usage rights and the relations, `req` what each
request holds. `uitgegeven` and `fouten` are history variables.

| action | code |
|---|---|
| `Create` | `serializers.py` `create()`: small file, no file, or a large file with lock and empty parts |
| `LockRead`, `LockSave` | lock serializer: check, then save of the whole canonical row |
| `UnlockRead`, `ForceUnlockRead`, `UnlockSave`, `UnlockEmpty`, `UnlockMerge`, `UnlockForget`, `UnlockParts`, `UnlockWipe`, `UnlockDone` | unlock serializer: checks; save of the canonical row; then either forget the empty parts, or merge, save the file and wipe the part files and rows one statement at a time |
| `UpdateRead`, `UpdateSave`, `UpdateRollback` | PUT and PATCH: checks on lock and indication; then one transaction with version n + 1, the trigger that moves `latest_version`, new parts |
| `UploadRead`, `UploadSave` | `BestandsDeelSerializer`: lock and size, then save of the part's row |
| `RechtRead`, `RechtSave`, `RechtDeleteRead`, `RechtDelete` | `Gebruiksrechten.save()`/`delete()`: whole-row save of the version that was read |
| `Relate`, `Unrelate` | relation with a zaak or a besluit |
| `DestroyRead`, `Destroy` | `perform_destroy()`: checks, then delete with its cascade; `Protected` is the foreign key of a zaak |
| `Crash`, `CrashInWipe` | the worker dies before or between writes, in the wipe also between the delete of a file and of its row |

Data are abstracted to what the properties tell apart: a file is absent, whole, or the set
of parts it was merged from; an upload is tagged with the version it was made for; a lock
is the n-th lock. Titles, hashes, formats, audit trail and notifications are left out.
`Checkout` is the abstract promise of check-out and `VersionLog` that of the history;
`Documenten` instantiates both with a refinement mapping (`ImplementsCheckout`,
`ImplementsVersionLog`).

### Document numbers and dispatches: `DocumentRegistratie`

The numbers of the versions of each document (`rijen`), the rows of `ReservedDocument`
(`gereserveerd`), the dispatches (`verzending`) and what each request read and is going to
write (`tx`). `Hoogste` is `generate_document_identificatie()`, `Vrij` the uniqueness validator,
`Verbruikt` what the save of a document does with a reservation.

| action | code |
|---|---|
| `Maak`, `PutDocument`, `PatchDocument` | create or register a document, new version with or without a number of its own: read and validate |
| `Schrijf` | the transaction that stores the version and deletes the reservation of a named number |
| `Reserveer`, `SchrijfReservering` | reserve one or more numbers |
| `Importeer`, `SchrijfBatch` | the bulk import gives a batch its numbers, then `bulk_create` without the saves of the models |
| `Verwijder` | destroy with its dispatches |
| `MaakVerzending`, `PutVerzending`, `PatchVerzending`, `SchrijfVerzending`, `VerwijderVerzending` | dispatches, with the validator of their channels (`Geldig`, `PatchGeldig`) |
| `Afgebroken` | rollback, a worker that dies |

The year is fixed, as for zaken; a dispatch is its document and the set of channels it has an
address for.

### Bulk import: `DocumentImport`

Imports, the message queue, the cache lock, Celery workers with the task each runs,
documents per row, and files. `CreateCheck`/`CreateInsert`, `UploadCheck`/`UploadSave`/
`Dispatch`, `DestroyCheck`/`Destroy` are the views (check, then save); `RemoveImport` the
daily task; `TaskReceive` to `TaskEnd` the task `import_documents`: take the lock or be
dropped, read rows until a batch is stored (`FlushAt`), store it in one transaction
(`BatchCreate`, or `BatchFails`/`BatchRaises`; to note the failure of a batch on an import that is gone
raises and ends the task), count it and clean up its files (`FinishBatch`), finish, release the lock. `WorkerCrash`, `LockExpires` and `RequestFails` are
what goes wrong around it. What can go wrong in a batch is a constant: `bulk` (a
`bulk_create` fails), `koppel` (the relation of a row fails), `commit`, `zaak_weg`
(`Zaak.DoesNotExist` in a signal handler, which nothing catches). The row's kind is
invalid, without a zaak, or with one. The report file is represented by the counters it is
written from; uuids are left out, and the numbers of documents are in `DocumentRegistratie`;
counters and cleanup of a batch are one step because nothing else reads them in between.

### Case numbers: `ZaakIdentificatie`

`ids` are the committed rows of `zaken_zaakidentificatie`, `zaken` those with a zaak,
`lock` the holder of the advisory lock. `Request` is the start of a POST of a zaak, a
registration (`_registreren`) or a reservation; `Acquire`, `ReadCurrent` and `Insert` are
`generate_bulk()` under the lock; `ZaakSave` stores the zaak. A POST commits its number
first and releases the lock; a registration keeps number and lock in its transaction until
the end (`Uncommitted`). `RequestExplicit` is a client that names the number, which takes
no lock; `Delete` deletes a zaak with its number; `Abort` is any rollback or worker that
dies. An identification is its number and a suffix that a client may have appended
(`Sleutel`); the year is fixed, since the generator starts again for each year.

### Closing and archiving: `ZaakAfhandeling`

Zaken with their einddatum and archiving columns, statuses, results, the dates that
archiving may start from, documents and their relations. `StatusRead`/`StatusWrite` are
`StatusSerializer.validate()` and `create()`: the four validators (`DocumentsReady`,
`DeelzakenReady`, `ResultaatReady`, `HoofdzaakReady`), then einddatum, archiving
(`Calculate`, `Archived`) and the update of deelzaken (`UpdateDeelzaak`) in one
transaction. `PatchRead`, `PatchCheck`, `PatchWrite` are a PATCH of the zaak with its
whole-row save, `ResultaatCreate`, `ResultaatUpdate` and `ResultaatDelete` those of a result (a PUT or PATCH
archives its zaak again, operation "herzien", or takes the result to another zaak, operation "verplaats"),
`EigenschapSave`, `ObjectSave`, `BesluitSave` the models that recalculate, `KenmerkDelete` and `BesluitDelete` what is deleted,
which recalculates nothing, `Relate` and `DocumentChange` what happens to documents.

The combined endpoints that close, update, suspend or extend a zaak are `SamenRead` (the row
is read, a closed zaak is refused), `SamenSave` (the row and, if it closes, the result are saved, the
status is validated against them), `SamenWrite` (the status is stored and all of it committed)
and `SamenFails` (a validator undoes it). From the save to the commit the row is locked, and
whatever writes that zaak waits (`Vast`); what others read is the row before. Suspending and
extending validate the status before they save, which is the same here: what they save is not
looked at. Storing the status is one operator, `StoreStatus`, for both ways to give one.

Abstractions: the zaken and which of them are deelzaken are given at the start (a PATCH may
change it, operation "hoofdzaak"); a date is a number and a term a number of days; a status
around midnight has a date in UTC one less (`Utc`); all afleidingswijzen are modelled
(`GetBrondatum`), with one eigenschap, one besluit and one zaakobject for each zaak, one period
for the procedure (`Procestermijn`) and the related zaken given at the start (`Relevant`); a
request on a result, eigenschap, zaakobject, besluit or document is one step, since it is the status and the PATCH whose halves are far apart.
`Geforceerd`, `Chronologisch` and `Gelijktijdig` say what clients do: work on closed zaken
with the scope for it, date statuses in order, and overlap.

### Relations and roles of zaken: `ZaakDossier`

`stand` says of each zaak whether it is there, `rijen` are the rows of `ZaakRelatie` (a zaak
may be related to itself, then the row is its own reverse) and `Rol`, `tx` the transaction of each request. This is the one module where the statements of
a transaction are separate steps, since what goes wrong lies between them: a statement
sees what is committed and what its own transaction wrote (`Zicht`), and waits for a
transaction that deleted the same row (`Vrij`), wrote the same zaak, or inserted the same
unique pair (`VrijPaar`).

| action | code |
|---|---|
| `PostZaak`, `PatchZaak`, `DeleteZaak`, `Registreren`, `Bijwerken`, `RolPost`, `RolPut`, `RolDelete` | the request reads and validates |
| `Opslaan` | the row of the zaak is written, or inserted when it is gone |
| `GetOrCreate`, `Omgekeerd`, `OmgekeerdInsert`, `Overige` | `get_or_create` of a relation; the signal handler that looks for the reverse and inserts it; the relations that are no longer wanted |
| `Verzamel`, `Wis`, `WisOmgekeerd` | the collector of a deletion, the DELETE, and the signal handler that deletes the reverse |
| `RolOpslaan`, `RolSchrijf` | the roles of a combined request, which ends when a rol that it names is gone or was moved away meanwhile (`existing_rol_uuids.remove` raises a KeyError); a single rol |
| `Commit`, `CommitDelete`, `Afgebroken` | end of the transaction, with the foreign keys that are checked then |

### Relations with another installation: `ExterneRelaties`

Installation A has the relations (`rij`), installation B, where the other end is, keeps a
mirror of each (`spiegel`). `req` is what A serves, `aanroep` the call it makes of B
meanwhile. A *koppeling* is a relation of a zaak or besluit with a document, or of a zaak
with a contactmoment or verzoek; a besluit refers to a zaak of A or of B.

| action | code |
|---|---|
| `Koppel`, `KoppelJa`, `KoppelNee` | save the relation, call B, keep the url of the mirror or delete the relation again |
| `OntkoppelLees`, `Ontkoppel`, `OntkoppelJa`, `OntkoppelNee` | delete the relation, call B, put it back when B refuses |
| `BesluitMaak`, `BesluitLees`, `Wacht`, `Verplaats`, `Verwijder`, `BesluitJa`, `VerplaatsVerder`, `VerwijderJa`, `BesluitNee` | a besluit with its zaakbesluit, in this installation (signal handlers, `Gelijkgetrokken`) or in B; a move is two calls |
| `Controle`, `Weiger`, `Maak`, `Wis`, `Vervalt` | B looks back at A, answers, does what is asked; an answer nobody waits for any more |
| `ZaakbesluitWis` | a client deletes a zaakbesluit by itself |
| `Crash` | the worker of A dies; a timeout is an answer "no" while B goes on |

### Types: `Catalogi`, `Publicatie`

Zaaktypen, informatieobjecttypen and besluittypen (`rij`: concept, name, begin and end of
validity), their relations and the parts of a zaaktype (`rel`, a set of pairs), and what each
request is going to write (`req`).

| action | code |
|---|---|
| `Create`, `Update`, `PatchEinde`, `Publish`, `Destroy` | the API of the three kinds of types; `Schrijfbaar`, `UpdateRelated`, `DestroyRelated` and `MagWijzigen` are the relations that a serializer and the concept checks look at |
| `CreateOnderdeel`, `UpdateOnderdeel`, `DestroyOnderdeel` | statustypen, roltypen, resultaattypen |
| `CreateZiot`, `UpdateZiot`, `DestroyZiot` | the relation of a zaaktype and an informatieobjecttype |
| `AdminSave`, `AdminReset`, `AdminResultaattype`, `AdminDeleteType`, `AdminDeleteVerband`, `AdminPublish`, `AddVersion` | the admin: forms, "reset selectielijst", publish, new version |
| `Import` | import of a zaaktype with its related types |
| `Schrijf`, `Faalt` | the transaction, with cascades and foreign keys; a request that fails |

`Gelijktijdig`, `Geforceerd` and `Beheer` say what is used: overlapping requests, the forced
scopes, the admin and the import. `Publicatie` is the abstract promise: publishing leaves a type
as it is, and from then on it stays (`ImplementsPublicatie`).

### Cloud events: `Gebeurtenissen`

Outgoing: `register` is the registry that `utils/cloudevents.py` keeps in a context variable,
`wacht` the callbacks of the transaction. `Begin`, `Wijzig`, `Maak`, `Verwijder`, `Meld`,
`Commit`, `Rollback` are a request or a batch of the import; `Roep`, `RoepFaalt`, `Verder`,
`Klaar` run the callbacks after the commit. `achterstand` counts the committed changes that are
not announced yet. Incoming: `log` are the messages of the provider, `aanvaard` how many were
accepted; `Stuur`, `Ontvang`, `Gekoppeld`, `GekoppeldGemuteerd`, `Ontkoppeld`, `Geweigerd` are
the provider and the webhook, which runs in autocommit. `Crash` is a worker that dies.

### What applications may do: `Autorisaties`

`apps` are the rows of `Applicatie` with those of `Autorisatie` (`rijen`) and
`CatalogusAutorisatie` (`cats`), `secrets` the identifiers of `JWTSecret`, `typen` the types of
this installation, `tx` what each request read and is going to write. `bekend` is what the last
notification told of an applicatie.

| action | code |
|---|---|
| `Post`, `Patch`, `Schrijf`, `Delete` | the API: validators (`UniekeIds`, `EenVanBeide`), then the save of the whole row with its credentials, its autorisaties replaced when they are given, and the notification |
| `BeheerMaakt`, `BeheerLeest`, `BeheerBewaart`, `BeheerWist` | the admin page of an applicatie with its credentials |
| `FormulierGaatIn`, `FormulierLeest`, `FormulierBewaart` | the admin page of its autorisaties: the forms are validated (`FormulierGeldig`), `save()` reads what the applicatie can do, then the forms are saved and the result is compared with what was read to decide on a notification (`Gelijk`) |
| `TypeMaakt`, `Sync`, `SyncMeldt` | a type is created; after the commit, `CatalogusAutorisatie.sync()` looks up whose autorisaties it extends and tells one applicatie after another, so that a worker can die halfway |
| `TypeWist`, `TypeGewist` | the signal handler after the deletion of a type deletes its autorisaties, and applicaties that have none left |
| `Opdracht` | the command `sync_autorisaties` |
| `Afgebroken` | a refusal, rollback, deadlock, or a worker that dies |

`Inhoud` is what an applicatie can do, with the virtual autorisaties of a catalogus. `Lijst` is the
list of zaken: `MagLijst` is the permission for it, and the filter (`utils/query.py`) sorts the URLs of
the autorisaties and the types it found and pairs them. `Plaats` and `ObjectVan` are that pairing, `Lukt`
says when it does not raise a KeyError, and `Groepen` are the types with their level for which a condition
is added to the filter. Without any group the filter is an empty `Q()` and the list has every zaak, which
happens to a client with autorisaties for nothing but catalogi without types (`ZonderTypen`).
`MagZien` is the permission for one zaak. Types are numbered in the order of their
paths; the URLs of this installation have one host. Of an autorisatie its type, its
confidentiality and one scope (zaken.lezen) are kept. The history variables are `beheerd`,
`gelijktijdig`, `dubbel` and `stil`.

## 4. The runs

Every run takes less than five minutes with two workers. Deadlock is not checked in any of
them: locks, versions, primary keys, dates and imports are bounded, and a document or
import may be gone for good, so that every instance has states where it rightly stops.

| run | states | instance | what it shows |
|---|---|---|---|
| `document` | 931,422 | one request at a time: all operations, 3 versions, 3 locks, 3 uploads in 2 parts, 2 rights, 2 faults; or 2 requests: lock, forced unlock, PATCH, rights, one relation, destroy | `TypeOK`, `UploadsBlijven` (uploads end complete, their parts are those of the newest version, and the pointer names it) and the refinement `SerieelCheckout`: any order of calls, and any crash between two writes, leaves a consistent document; `VersionsNeedLock`, `ZaakKeepsDocument` and the refinement `ImplementsVersionLog` under every interleaving |
| `document_registratie` | 228,873 | 2 documents, 2 organisations, 1 dispatch, 4 channels, 2 requests, numbers 1..4, 2 versions, batches of 2 | `RegistratieTypeOK`, `NummerEenmaal`: which numbers may be shared or lose their reservation, and no other |
| `ident_generate` | 291,410 | 2 requests, 2 organisations, numbers 1..2, reservations of 1 or 2, deletions or named numbers | `TypeOK`, `GeneratedDistinct`, `ZakenDistinct`, `NoClash` and, under fairness, `GenerationEnds` |
| `zaak_afhandeling` | 508,804 | a hoofdzaak and a zaak that may be its deelzaak, or a zaak with an eigenschap, a zaakobject, a besluit, a document or a related zaak; dates 1..3, one request at a time, single or combined, forced updates | `TypeOK`, `EindstatusCloses`, `DeelzakenClosed`, `ArchivingFollows`, `BewaartermijnBegint` (archiving starts at the date that the result says, in deelzaken when their hoofdzaak closes), `ClosesWithDocumentsReady` over closing, reopening and closing again |
| `import_serial` | 121,630 | 2 imports, 1 worker, up to 3 rows in batches of 2, one fault (a failing batch, a zaak that is gone, a dead request or worker, an expired lock) | `ImportTypeOK`, `StatisticsMatch`, `DocumentsHaveFiles` and, under fairness, `ImportEnds` |
| `zaak_dossier` | 925,897 | 2 zaken, 1 zaak elsewhere, 2 requests, 4 rows, 2 new roles | `TypeOK`, `RelatiesHeel` (relations have their reverse and are there once), `EenRol` with two transactions interleaved per statement |
| `relaties_extern` | 834,917 | 1 relation and 1 besluit, a zaak here and one there, 2 requests, 2 failures, 4 rows, 3 mirrors | `TypeOK`, `RelatiesKloppen` (a relation and its mirror, a besluit and its zaakbesluit) under crashes, timeouts and refusals |
| `catalogi_versies` | 711,031 | 2 versions of a zaaktype with parts, dates 1..2, forced scopes, admin and import, one request at a time | `EenVersieGeldig` |
| `catalogi_relaties` | 648,955 | 1 zaaktype with its parts, 2 informatieobjecttypen, 1 besluittype, API without forced scopes | `TypeOK`, `GepubliceerdCompleet` and the refinement `ImplementsPublicatie` |
| `gebeurtenissen` | 240,615 | a hoofdzaak and a deelzaak, 2 web workers, 1 Celery worker, 2 messages, 2 faults | `TypeOK`, `EenBerichtPerWijziging`, `KoppelingVolgtBericht` |
| `autorisaties` | 417,872 | 2 applicaties, 2 client ids, 2 types in 2 catalogi and 1 elsewhere, 2 levels of confidentiality, 2 requests | `TypeOK`, `BlijftInApi`, `EenApplicatie`, `LijstKlopt`, `Gemeld` |
| `autorisaties_lijst` | – | as `autorisaties` | `LijstAlleenToegestaan`, violated: see section 5 |

**What a behaviour is about.** Some MC modules add a variable that is chosen at the start and
kept (`onderwerp`, `klanten`) and conjoin to the next-state relation of the component
what such a behaviour leaves out: relations *or* roles, outgoing events *or* the webhook, documents
used by one request at a time *or* by two, client ids *or* autorisaties *or* the notifications for a new
type ("melden"), relations of a zaak with itself ("zelf").
The run covers all choices; combinations of them, where the parts share no state, are not
explored. The definitions of the component are not changed.

**Bounds.** Two parts are enough for an upload to be partial; three versions for a version
that is neither first nor newest; three locks for a lock that was given back and one that
replaced another; three uploads for an upload that is replaced, two where requests fail; a relation
with a besluit where there are two requests and no rights. Two requests give every race
of two. Three dates give a close, a reopen and a second close of one zaak in order; two dates
and an open end give periods that meet, overlap or contain each other. Three rows in batches
of two give a full batch and one that is not; two imports give one that waits for the other.
Two versions of a type are what an overlap needs; two statustypen, a roltype and a
resultaattype are what a zaaktype needs to be published, and none is more than that. A
relation between two zaken has two rows, so four rows let it be made, removed and made again.
Two messages about a zaak and an object are a link and its removal, in either order, each delivered
any number of times. Two types in two catalogi, one of them named twice or gone, are what the pairing of
URLs and types needs to go wrong; two applicaties share a client id or not; one applicatie with one
level of confidentiality per catalogus is enough for what the forms do, in behaviours where type 1 is there
from the start, the catalogus is that of the other type, and the form of the applicatie itself is left to the behaviours about client ids. Documents, relations, and zaken of different families, do not share state
except the numbers, so that one or two of them suffice. Requests are interchangeable:
symmetry is used in the runs without liveness that have more than one request (also where a
behaviour uses one of them), and for the types, zaken and documents that no definition names.

**One request at a time.** Where a behaviour has one request, or `Gelijktijdig` is FALSE, the
run states what the handlers promise when they do not overlap. Several of these properties
do not hold when they do, and section 5 says which and how; they are kept separate so
that the sequential logic is still checked.

**Fairness.** `ident_generate` assumes weak fairness of the steps of a request that is being
served, since a web worker goes on with its request, and strong fairness of `Acquire`,
since PostgreSQL grants an advisory lock in the order of the requests. `import_serial`
assumes weak fairness of the dispatch of an upload and of the steps of the task on each
worker: Celery workers keep taking messages and run a task to its end. Nothing is assumed of
clients, of faults, or of the daily removal. `ImportEnds` excuses the imports that a dead
request, a dead worker or an uncaught exception leaves active, which is what the code does.
The other components promise nothing that must happen: a request that dies is not resumed.

## 5. Where the code does not do what it says

One disagreement is a run that must find its violation, and is listed as a finding in
`PROJECT.json`:

- `autorisaties_lijst` (`LijstAlleenToegestaan`): `zaken/query.py:22-28` says of the list that zaken
  "are included if, and only if" the autorisaties of the client provide their type, scope and level. The filter
  starts as an empty `Q()` and a condition is added to it for each group of types (`utils/query.py:148-153`);
  without a group it restricts nothing (line 63), so that a client with autorisaties for nothing but catalogi
  without types is listed every zaak, none of which it can open.

The following configurations are demonstrations: `tlc -config <name>.cfg <module>` gives
the counterexample. They show the properties that fail because the code does something else than
a doc, a test or a comment says, those that hold one request at a time and fail when requests
overlap, and those that hold only for a certain use.

| module | configuration | property | counterexample |
|---|---|---|---|
| `Documenten` | `put_drops_indication` | `IndicatieMatches` | a PUT copies nothing from the version before, so one without `indicatieGebruiksrecht` stores a version without indication although there are usage rights |
| | `lock_overwritten` | `LockHolder` | two requests lock at the same time, both get a lock and only the second is valid (`documenten/api/serializers.py:781`) |
| | `merge_after_crash` | `MergedComplete` | a worker dies while it wipes merged parts; the rest is merged over the file by the next unlock (`serializers.py:869`) |
| | `upload_lost` | `UnlockedHasFile` | usage rights save the version they read over the file that an unlock merged (`documenten/models.py:618`) |
| | `destroy_race` | `DestroyChecked` | a besluit is related, or a lock taken, between check and delete (`documenten/api/viewsets.py:304`) |
| `DocumentRegistratie` | `verzending_kanaal` | `EenKanaal` | the validator of dispatches says that a dispatch "can have only one attribute filled" of the addresses and channels (`documenten/api/validators.py:208-222`); it counts the telephone number twice and the fax number never (line 240), so that a fax number beside another channel is accepted, and a fax number or a telephone number alone is refused |
| `DocumentImport` | `import_statistics` | `StatisticsMatch` | when the relation of a row fails, the rows before it are rolled back too but stay marked as succeeded; they are counted and reported as imported |
| | `import_dropped` | `ImportEnds` | with two workers, a task is dropped because the task before it finished its import but has not released the lock yet |
| `ZaakIdentificatie` | `ident_suffix` | `NoClash` | a client may name `ZAAK-2026-0000000002-1`; it matches the regular expression and is the greatest text, so the generator counts on from its last part and hands out a number that exists |
| `ZaakAfhandeling` | `deelzaak_reopen_race` | `DeelzakenClosed` | a deelzaak is reopened while its hoofdzaak is being closed (`zaken/api/validators.py:367`) |
| `MCZaakDossier` | `dossier_relatie` | `WederkerigAltijd` | a relation that is made again while another request removes it loses its reverse (`zaken/signals.py:133`) |
| | `dossier_rol` | `EenRolAltijd` | two requests each add an initiator, or one moves an initiator to the zaak (`zaken/api/validators.py:75`) |
| `ExterneRelaties` | `relaties_besluit` | `ZaakbesluitHeeftBesluit` | moving a besluit deletes the zaakbesluit of the new zaak, not of the old one (`zaken/query.py:84`) |
| `Catalogi` | `catalogi_concept_again` | `ImplementsPublicatie` | an update that read a concept, which another request published since, saves it as a concept again |
| `MCGebeurtenissen` | `gebeurtenissen_taak` | `TaakMeldt` | a Celery worker keeps its registry after a batch that was rolled back, and does not announce what later batches change of the same zaak (`utils/cloudevents.py:24`) |

Some runs of section 4 fail when requests are allowed to overlap: `document`'s `LatestIsNewest` (a part of
`UploadsBlijven`), when an unlock that read the row before an update committed puts `latest_version` back
(`documenten/api/serializers.py:836`); `zaak_afhandeling`'s
`EindstatusCloses`, when a PATCH saves the row as it was before the zaak was closed
(`zaken/api/viewsets.py:494`); `catalogi_versies`' `EenVersieGeldig`, when two versions are published
or their end dates moved at the same time, although `catalogi/api/filters.py:37-40` says that one version
is valid on a date (`Gelijktijdig` TRUE, two `Werkers`); `gebeurtenissen`'s `KoppelingVolgtBericht`, when
a "zaak-gekoppeld" that is delivered again and handled late makes a link that was removed (`Overlap` TRUE).
The hazards of `PROJECT.json` that name no property are those which the code does not prevent: a note says
what the model lets happen and where TLC shows it. No run of section 4 would catch them getting worse.

More was met while reading the code for the models; these have no run of their own, most
because a definition of a model says them directly:

- *Documents.* A number is generated without a lock (`documenten/api/utils.py:67`), so two
  requests can get the same one. The number of a destroyed document is handed out again,
  although `documenten/api/viewsets.py:1068-1073` says that it is not. A PUT without a number
  gives the new version a new number. An update may take the number of another document,
  since `documenten/api/serializers.py:683-685` removes the validator. The import numbers after the
  documents only (`documenten/tasks.py:398-414`): it may take reserved numbers, leaves
  reservations of named numbers, and two rows of a batch can share a number. An unlock of
  a document without file and size compares None with 0 (`serializers.py:819`).
- *Import.* Two uploads can pass their check together. When rows share a file name, the cleanup
  of a failed row takes the file of another (`import_data/utils.py:146`).
- *Closing.* A second end status moves einddatum but not the start of the archiving; einddatum is the
  date of the client, the start of the archiving that in UTC (`zaken/brondatum.py:34`, `:45`).
  Deleting an eigenschap, zaakobject or besluit recalculates nothing, nor does a related zaak
  that is closed or reopened later. Reopening a hoofdzaak clears the archiving of an archived deelzaak
  (`zaken/api/serializers/zaken.py:1057`). A PATCH may move a result to another zaak: whether a zaak is closed is
  asked of the one it leaves, which keeps the dates of a result it no longer has (`ArchivingFollows` fails with
  "verplaats" in `Ops`). A locked document may be related between the
  validation of an end status and its transaction.
- *Relations of zaken.* A PATCH makes a zaak with deelzaken a deelzaak (`zaken/api/validators.py:119`).
  A PATCH of a zaak that another request deletes inserts it again.
- *Roles.* A combined update cannot replace the initiator in one request, although
  `zaken/api/viewsets.py:2344-2353` says that the existing roles are overwritten: the limit is
  counted with the old ones. When a rol is moved, only the zaak it comes from is checked for being closed.
- *Other installations.* Of two DELETEs of one relation the second is refused by the other side and puts
  the relation back, with the url of a mirror that is gone (`zaken/api/viewsets.py:1034`). The mirrors
  of the contactmomenten and verzoeken of a deleted zaak are not removed.
- *Types.* The filter on validity counts the end date in (`catalogi/api/filters.py:70-75`), the
  overlap check does not. A relation of a zaaktype and an informatieobjecttype may be made when
  either is a concept (`catalogi/api/serializers/relatieklassen.py:89`); the description of the
  endpoint (`catalogi/api/viewsets/relatieklassen.py:41-44`) asks that the zaaktype is. The
  admin resets the selectielijst of a published zaaktype, whose resultaattypen then lack what
  publication asks for (`catalogi/admin/zaaktypen.py:423`). A new version of a
  zaaktype copies its eigenschappen and zaakobjecttypen with their statustype, which stays one of the
  old version (`catalogi/admin/side_effects.py:80-93`), although the API refuses a statustype of
  another zaaktype (`catalogi/api/validators.py:428-454`); a statustype moved to another concept
  leaves its eigenschappen behind in the same way. The reference cascades
  (`catalogi/models/eigenschap.py:214-219`), so deleting such a statustype deletes eigenschappen of
  another zaaktype, published or not. Eigenschappen are not modelled (§7).
- *Events.* Deleting a zaak registers the removal of remote relations first, so that a call that
  fails skips the events of a deletion that is committed (`zaken/api/viewsets.py:534`). Moving a besluit
  announces its new zaak only, and deelzaken that are closed with their hoofdzaak are updated in a
  query that sends no signal. The webhook checks for archived zaken when it links and not when
  it unlinks, and a message that links twice links twice.
- *Autorisaties.* When two types are deleted at the same time, each transaction still sees the
  autorisaties of the other type, and an applicatie with both is left without any. A PATCH that read
  an applicatie inserts it again after its deletion. Deleting an applicatie in the API leaves its
  credentials, in the admin it does not. No notification is sent when autorisaties go with their
  type or by the command, nor by the admin page of an applicatie; a form that is saved after
  another change compares with what it had read. The list of zaken raises a KeyError when an
  autorisatie names a type that is gone, or a type that another one names as well (`Lukt`), and it leaves out zaken
  of types of another installation that a client with autorisaties for a catalogus can open one by one.

## 6. The proofs

TLAPS checks every step of the following, for any number of requests, workers, versions, zaken,
documents, types, messages, dates, faults and bounds. The assumptions are those named in the modules
(`BoundsAssumption`, `IdentificatieAssumption`, `AfhandelingAssumption`, `CatalogiAssumption`,
`AutorisatiesAssumption`, `ExterneRelatiesAssumption`, `DossierAssumption`,
`GebeurtenissenAssumption`, `ImportAssumption`: constants have their types, sets that are counted are finite;
`SoortenAssumption`, `GeenAssumption`: values of different kinds are different) and, where it says so, an assumption of the theorem. An assumption of a theorem is
a constant of the module that the run of the same property sets likewise, and each is needed:
without it TLC finds the property violated (section 5, or the last lines of the paragraph).

**`DocumentenProofs`**: `TypeCorrect`, `Contiguous`, `LockNeeded`, `KeptForZaak`,
`IsVersionLog`. `TypeOK` alone is not inductive: what an update stores depends on what it
read before others ran. `IInv` adds `Coherent`: the versions are 1..n, the pointer names one of
them, a destroyed document has no rows, no lock is greater than the last one handed out, and
each request still relies on something true (an update about to store version v + 1 read a
version v that existed and a lock that had been handed out, and so on). `Invariance` proves
it action by action; `NextVersionStep` then says what any step does to the set of
versions (keep, create, append under a lock, destroy), and the action properties and
the refinement of `VersionLog` follow from that lemma.
`UploadsCompleet`, `Uitgecheckt` and `ImplementeertCheckout` are about requests that do not overlap
(`DeelSpec`, as the run has it, or `Spec` with `EenTegelijk` always): then the pointer and the parts are
those of the newest version, what the one request read still holds (`Actueel`), and each step of the
component is a step of `Checkout` or none. That uploads also end complete needs that no lock is overruled and
nothing fails (`GeenDwang`); `Volledig` says that parts come and go together, each with a file of its own,
and that a large document without its file is locked or about to be merged.
`RegistratieTypeCorrect` and `NumbersOfDocuments` are about `DocumentRegistratie`, in any interleaving
and for any number of requests, documents, organisations and numbers. Its inductive invariant `RegistratieInv` adds to
the types what the requests under way rely on (`RequestsKloppen`): what each kind of request holds
(`TaakVorm`), that the number it validated is still free, or counts as taken since
(`NogVrij`, `NogOngereserveerd`, `NogOngebruikt`), that the numbers of a batch or a reservation are new ones and
each is there once (`BatchNieuw`, `Apart`). `Hoogste`, the greatest number of an organisation, is found by a CHOOSE: that it exists is the well-foundedness of
the numbers (`GrootsteVan`).

**`ZaakIdentificatieProofs`**: `TypeCorrect`; `NumbersOfZakenDistinct`, from the unique constraint
(`KeyInv`), primary keys that belong to one row (`PkInv`) and requests that are about
one row (`SingleInv`); and `NumbersGeneratedOnce`, which needs the argument about the lock:
who reads or inserts holds it (`LockInv`), what the holder read is still the greatest
generated number (`ReadInv`), a registration that is not committed has a number of its
own (`RegisterInv`), and numbers committed ahead of their zaak stay (`PendingInv`). It assumes
`Regular`: clients append no suffix (else see `ident_suffix`), and do not both name numbers
and delete zaken, since deleting the zaak with the greatest number lets the generator hand it
out again.
`GenerationNeverClashes` says, with the same assumption, that the insert of a generated number never meets the unique
constraint because of a number generated before: only one that a client named after the generator had read
can be in the way (`InTheWay`). That is what the lock is for, and `ident_suffix` shows that `Regular` is needed.

**`ZaakAfhandelingProofs`**: `TypeCorrect`; `EinddatumOfEindstatus`, in any interleaving,
because statuses are never deleted, so that also a row read long ago has an einddatum
of an end status (`EinddatumInv`); `ClosedByEindstatus`, for one request at a time and statuses in
order (`OneAtATime`: nobody else is between read and write, and what was read still holds);
`HoofdzaakClosesLast`, under the same assumptions and with deelzaken that stay with their
hoofdzaak (`Found`: what the validators found still holds at the write); and `ArchiveringVolgt`,
also with clients that write no archiving dates themselves. Its invariant `ArchiefInv` says of each zaak
(`Goed`) that its archiving fits its result and closing, and that an open zaak of which the start of the
retention is not decided has none, and of the one request that what it is about to write does the same
(`Aanvraag`): a handler that computes the dates from one row and saves another breaks it. All of it is
also about the combined endpoints, of which the invariants say the same between their save and their
commit. Without these assumptions they are false, as section 5 shows.
`SluitMetDocumenten` needs one request at a time only: its invariant `Gereed` says that the documents of the zaak are still
what the validator of an end status found, until the status is stored, and its lemma
`GereedStap` that a step which closes a zaak closes it so. `BewaartermijnVolgt` has two parts. `StartVanKenmerk` is about the date that the result names:
`KenmerkInv` says of each closed zaak, and of what a request is about to write, that its start is the date
which its eigenschap, zaakobject or besluit has now (`VanKenmerk`). `VolgInv` says of a deelzaak that follows its hoofdzaak
that it has the start of the hoofdzaak, or will when the status under way is stored (`Volgend`). The
code does not recalculate deelzaken when a date of a closed hoofdzaak changes or its result is removed, so the
theorem assumes `VasteBron` unless there are no hoofdzaken: with both, TLC finds a deelzaak that
keeps the old start. The three theorems on archiving also assume that no result is moved to another zaak
("verplaats"), after which the zaak that it left is archived without a result. `VasteBron` also says that no
result is stored again ("herzien"): a deelzaak whose hoofdzaak has no start then starts at the close of its
hoofdzaak, which `DeelzaakFollows` admits and the run has.

**`CatalogiProofs`**: `TypeCorrect`, in any interleaving: relations are between rows that exist,
because `Schrijf` filters what a deletion leaves behind; and `EenVersie`, for one request at a
time, with the forced scopes, the admin and the import. Its invariant `VersieInv` says that
published versions of a name do not overlap (`OverlapVrij`), that this also holds after what a
request is going to write, and that there is one request. Whether a check is made at every
place where a period or the concept flag changes is what its lemmas go through, one per action.
`CompleetGepubliceerd` and `HoudtBelofte` are for one request at a time without the forced scopes, the
admin and the import, which are there to change what is published. `BelofteInv` says that a published
zaaktype is complete and its relations are to published types, and that what the request is going to write
leaves published types and their relations as they are and publishes only what is complete (`Behoudt`,
`Ontziet`, `Publiceert`). The refinement of `Publicatie` follows.

**`AutorisatiesProofs`**: `TypeCorrect`, in any interleaving. Its invariant `TInv` adds what requests
hold (`Vast`): one applicatie each, and different types for those that delete types, which is why the
rows that one of them is going to delete outlive the other. `ApplicatiesBlijven`, also in any
interleaving: an applicatie that neither the admin nor the command wrote, and that no two requests
had to do with at a time, is a superuser or has autorisaties. `BInv` says this of the rows, and of every
request of the API that what it validated is what it is going to write. Both invariants are
preserved by one lemma about any write (`NaWijziging`, `SchrijftGoed`), whose
conditions the lemmas of the actions establish. `ClientIdsUniek` and `AbonneesBekend` hold in any
interleaving as well, with the exceptions that the properties name (`dubbel`, `stil`). `CInv` says that a
client id which a request is going to write belongs to no other applicatie, and has a credential if the
admin read it; without it two requests one after the other could not be told from two at a time. `GInv`
says that subscribers know what an applicatie may do, or that a notification for a new type is still under
way, and that an applicatie which does not exist yet was told to nobody (`BekendBlijft`,
`EenBekend`: requests that tell of none and of one). `LijstEnDetail` needs no more than the types: for every client
but those of `ZonderTypen`, for whom the filter is empty, it goes
through what the list filter pairs, how often a type is counted and when a type of another installation or one
that is gone makes the pairing fail or shift, against what the permission of a single zaak looks up; that
applicaties, types and levels are finite is what lets it count.

**`ExterneRelatiesProofs`**: `TypeCorrect` and `BeideZijden`, in any interleaving and whatever is refused,
times out or dies. That keys stay within their bound is not inductive without `Grenzen`: the keys handed out and
the requests and calls under way together fit. `RelatieInv` is about the relations that no two requests used at
a time (`samen`): one request is busy with each (`Enig`), the row is what that request read, gone or not yet
there, as its phase has it (`Ongewijzigd`), and relation and mirror agree up to the one call that is under way, of
which the remote side may or may not have done its part (`Verwacht`, `SpiegelInv`).

**`GebeurtenissenProofs`**: `TypeCorrect` and `Aangekondigd`, in any interleaving with any faults.
`IInv` says of each worker what its registry, its callbacks and its transaction have to do with each other:
in a transaction the registry holds what it held before (`stil`) and what the transaction touched (`moet`),
the callbacks announce exactly the touched events that are not `stil`, each once; after it the events left to announce
are among the callbacks still to be called (`Werker`); open transactions touch different zaken
(`Sloten`); a message that is handled was sent, and zaakobjecten about to be deleted are still there
(`Berichten`). `Boekt` is how one step of one worker changes the count of what is announced and of what is
open; each action's lemma establishes it, and the sums over the workers follow once (`StapTelling`). `Gevolgd` assumes that a
message is not delivered again while it is being handled (`Overlap` FALSE; otherwise an old message
is carried out after a new one). Its `VInv` says that a zaak and an object are handled by one worker
(`Alleen`), what each phase knows of their zaakobjecten (`Behandeling`), and that the last message accepted,
or the one after it that is still being handled, is carried out (`Bijgewerkt`).

The second part of the module is about `DocumentImport`. `ImportTypeCorrect` holds in any interleaving.
`StatistiekKlopt` and `BestandBlijft` are for requests that follow each other (`Gelijktijdig` FALSE), with any number
of workers, imports and rows, workers that die, locks that expire and batches that fail or raise; no
relation and no commit fails, because what those roll back stays marked as succeeded (section 5).
`ImportsKloppen` says that one request at most is under way (`EenVerzoek`) and what it knows of
its import (`VerzoekKlopt`); that an import has one message or one task at most, and nothing counted or stored
before its task begins (`ImportKlopt`); and what a task did so far (`TaakKlopt`): the counters are those of
the row of the import, they and its batch make up the rows that were read, and the rows stored are the
successful ones and those that are marked in the batch (`Meegeteld`). The proof does not use the lock of the task: while requests
follow each other, no import is sent twice. `BestandBlijft` also assumes that the rows of a
file name different files (`Gedeeld` FALSE): `FilesKloppen` adds that the rows a batch is about to store have
their files.

**`ZaakDossierProofs`**: `TypeCorrect`, `RelatiesEnKeerzijde` and `RollenEenmaal`, all in any interleaving.
`TypeInv` adds to `TypeOK` what a request has in each of its phases (`Vorm`), that the keys it took are its own
(`SleutelInv`), that what it read under a key is still the same relation or the same kind of rol
(`BekendInv`), and that one request at a time has the lock of a zaak (`SlotInv`; a zaak is deleted without it).
`RelatieInv` is about rows that are there and rows that are written but not committed, together: they are
already unique (`Uniek`), what a request makes gets its reverse before it commits (`Maakt`), and what it
removes goes with its reverse (`Verwijdert`). Pairs in `herhaald` are excused from that: the signal handler
finds the reverse that another request is about to remove. `EenRolInv` says that what a request sees of
its zaak has each limited role once, or will when it commits (`RolGoed`), that a rol which was read is
still at its zaak (`PlaatsVan`, `PlaatsApart`), and that of two requests with the same zaak none is
about a single rol (`RaaktApart`), unless the zaak is counted in `samen` or `verplaatst`. Each part of a
state has a lemma on what a step of one request does to it (`StapRelaties`, `StapRollen`) and one on its commit
(`CommitRelaties`, `CommitRollen`); each action has a lemma that establishes their conditions.

**Only model-checked**: the liveness properties (TLAPS proves neither liveness under fairness
nor ENABLED). No module declares a RECURSIVE operator, and
nothing rests on induction over data, which the provers cannot do.

## 7. What is not modelled

- Documents: descriptive fields, storage backends, the audit trail. A PUT that itself names
  `indicatieGebruiksrecht` (`documenten/api/serializers.py:444-464` accepts true when there are usage rights):
  the PUT of the model names none, which is the case that loses the indication. That the delete of a part's file
  saves the part's row again (`FieldFile.delete()`), which can bring a row back that another request wiped, or be
  refused because a new part has its number: the wipe of the model just goes on.
- Closing: several besluiten or zaakobjecten of a zaak, related zaken that change, a
  besluit that moves to another zaak, types and documents in other systems.
- Zaken: notes, the details of betrokkenen, objects and contact: rows with a foreign key and no
  state of their own.
- Types: eigenschappen, zaakobjecttypen, related zaaktypen (which follow the same concept checks as the
  parts that are modelled), and the attributes of a catalogus.
- Autorisaties: requests in the other models are those that are authorised. The client ids that
  the list of applicaties in the admin edits, and the endpoint that tells a consumer its
  applicatie, are left out. Of the filters and permissions those of zaken are modelled; the ones of
  documenten and besluiten have the same form and are not.
- Notifications: sent by a library; the cloud events have the same life and are modelled.
- Loose foreign keys and expansion are functions of a request over
  the rows and keep no state. Caches, admin pages (but those of types and applicaties), configuration, accounts,
  clients of external registers, commands and the front end have no logic of this kind. Migrations,
  admin pages and settings are about a third of the lines of the repository.
- PostgreSQL, Redis, Celery, the storage, other installations and the notification library are external;
  they are modelled by how the code uses them (one row write, one delete, one transaction, a queue that
  acknowledges early, a key that expires, a call that is answered, refused or given up).

## 8. Plan

Done: all components of section 3, and the theorems of section 6. Next:

- Eigenschappen and zaakobjecttypen in `Catalogi`, with the copies that a new version makes.
