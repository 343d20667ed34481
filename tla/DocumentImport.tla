---------------------------- MODULE DocumentImport ----------------------------
(***************************************************************************)
(* The bulk import of documents.  A client creates an import, uploads a    *)
(* csv file, and a Celery task imports its rows in batches, one            *)
(* transaction per batch.  Only one import is meant to be going on.        *)
(*                                                                         *)
(* The views check first and save later, without a lock or a transaction   *)
(* around the two.  The task runs under a lock in the cache: a task that   *)
(* finds it taken is dropped.  A worker takes a message off the queue      *)
(* before it runs the task, so that a worker that dies takes the task with *)
(* it; its lock stays until it expires.                                    *)
(***************************************************************************)
EXTENDS Integers, FiniteSets

CONSTANTS
  Imports,       \* imports that are ever created
  Requests,      \* requests being served at the same time
  Workers,       \* Celery workers
  None,          \* the lock is free
  Dood,          \* the lock is held by a worker that died
  Gelijktijdig,  \* requests run at the same time
  Gedeeld,       \* all rows name files with the same name
  Fouten,        \* what goes wrong in the transaction of a batch
  BatchSize,     \* IMPORT_DOCUMENTEN_BATCH_SIZE
  MaxRijen,      \* bound: rows in a file
  MaxFaults      \* bound: kinds of things that go wrong

\* bulk: a bulk_create fails; koppel: the relation of a row with its zaak
\* fails; commit: the commit fails; zaak_weg: the zaak of a row is gone.
AllFouten == {"bulk", "koppel", "commit", "zaak_weg"}

ASSUME ImportAssumption ==
  /\ None \notin Workers /\ Dood \notin Workers /\ None # Dood
  /\ Gelijktijdig \in BOOLEAN /\ Gedeeld \in BOOLEAN
  /\ Fouten \subseteq AllFouten
  /\ BatchSize \in Nat \ {0} /\ MaxRijen \in Nat \ {0} /\ MaxFaults \in Nat

VARIABLES
  imp,       \* rows of Import
  verzoek,   \* what each request has checked and has still to do
  queue,     \* messages for the task, by import
  lock,      \* the lock of the task in the cache
  worker,    \* the task that each worker runs
  docs,      \* documents that were imported, by import and row
  files,     \* files in the storage, by the row they came from
  faults     \* what went wrong so far, each kind at most once

importVars == <<imp, verzoek, queue, lock, worker, docs, files, faults>>

-----------------------------------------------------------------------------
Rij == 1..MaxRijen
Soorten == {"ongeldig", "los", "zaak"}     \* invalid; valid, without or with a zaak

\* Import.  "nieuw" and "weg": the row does not exist yet, or no longer.
Stand == {"nieuw", "pending", "active", "finished", "error", "weg"}
Import == [status : Stand, rijen : 0..MaxRijen, total : 0..MaxRijen, processed : Nat,
           successfully : Nat, invalid : Nat]

\* ImportStatusChoices
StartedChoices == {"pending", "active"}
ReportChoices == {"finished", "error"}
DeletionChoices == {"finished", "error", "pending"}

Bestaat(i) == imp[i].status \notin {"nieuw", "weg"}

\* The name under which the file of a row is stored.
Naam(i, rij) == IF Gedeeld THEN "gedeeld" ELSE <<i, rij>>

IdleReq == [fase |-> "vrij", imp |-> None]

\* A task: its import, the size of the file it opened, the counters in memory, the
\* rows read, and of the batch the kind of its rows, the rows marked as succeeded,
\* and whether the import stops after it.
IdleWorker == [fase |-> "vrij", imp |-> None, total |-> 0, processed |-> 0, successfully |-> 0,
               invalid |-> 0, gelezen |-> 0, batch |-> <<>>, gelukt |-> {}, stop |-> FALSE]

Finish(r) == verzoek' = [verzoek EXCEPT ![r] = IdleReq]
MayStart == Gelijktijdig \/ \A r \in Requests : verzoek[r] = IdleReq
Start(r, fase, i) == MayStart /\ verzoek[r] = IdleReq
                       /\ verzoek' = [verzoek EXCEPT ![r] = [fase |-> fase, imp |-> i]]

Mislukt(kind) ==
  /\ kind \notin faults
  /\ Cardinality(faults) < MaxFaults
  /\ faults' = faults \cup {kind}

\* validate_existing_imports()
NoOtherStarted(i) == \A j \in Imports \ {i} : imp[j].status \notin StartedChoices

ImportInit ==
  /\ imp = [i \in Imports |-> [status |-> "nieuw", rijen |-> 0, total |-> 0, processed |-> 0,
                               successfully |-> 0, invalid |-> 0]]
  /\ verzoek = [r \in Requests |-> IdleReq]
  /\ queue = [i \in Imports |-> 0]
  /\ lock = None
  /\ worker = [w \in Workers |-> IdleWorker]
  /\ docs = [i \in Imports |-> [rij \in Rij |-> 0]]
  /\ files = {}
  /\ faults = {}

-----------------------------------------------------------------------------
(* The views. *)

CreateCheck(r) ==
  /\ \A i \in Imports : imp[i].status \notin StartedChoices
  /\ \E i \in Imports : imp[i].status = "nieuw"
  /\ Start(r, "create", None)
  /\ UNCHANGED <<imp, queue, lock, worker, docs, files, faults>>

CreateInsert(r, i) ==
  /\ verzoek[r].fase = "create"
  /\ imp[i].status = "nieuw"
  /\ imp' = [imp EXCEPT ![i].status = "pending"]
  /\ Finish(r)
  /\ UNCHANGED <<queue, lock, worker, docs, files, faults>>

UploadCheck(r, i) ==
  /\ imp[i].status = "pending"
  /\ NoOtherStarted(i)
  /\ Start(r, "upload", i)
  /\ UNCHANGED <<imp, queue, lock, worker, docs, files, faults>>

\* save(update_fields=["status", "import_file"]), which fails when the row is gone.
UploadSave(r, rijen) ==
  LET i == verzoek[r].imp
  IN /\ verzoek[r].fase = "upload"
     /\ IF Bestaat(i)
          THEN /\ imp' = [imp EXCEPT ![i].status = "active", ![i].rijen = rijen]
               /\ verzoek' = [verzoek EXCEPT ![r].fase = "dispatch"]
          ELSE Finish(r) /\ UNCHANGED imp
     /\ UNCHANGED <<queue, lock, worker, docs, files, faults>>

\* import_documents.delay(), for an import that is still there
Dispatch(r) ==
  LET i == verzoek[r].imp
  IN /\ verzoek[r].fase = "dispatch"
     /\ queue' = IF Bestaat(i) THEN [queue EXCEPT ![i] = @ + 1] ELSE queue
     /\ Finish(r)
     /\ UNCHANGED <<imp, lock, worker, docs, files, faults>>

\* The web worker dies, or the broker is not there.
RequestFails(r) ==
  /\ verzoek[r] # IdleReq
  /\ Mislukt("verzoek")
  /\ Finish(r)
  /\ UNCHANGED <<imp, queue, lock, worker, docs, files>>

DestroyCheck(r, i) ==
  /\ imp[i].status \in DeletionChoices
  /\ Start(r, "delete", i)
  /\ UNCHANGED <<imp, queue, lock, worker, docs, files, faults>>

\* The row is fetched again and deleted, whatever its status is by then.
Destroy(r) ==
  /\ verzoek[r].fase = "delete"
  /\ imp' = [imp EXCEPT ![verzoek[r].imp].status = "weg"]
  /\ Finish(r)
  /\ UNCHANGED <<queue, lock, worker, docs, files, faults>>

\* The daily task remove_imports
RemoveImport(i) ==
  /\ imp[i].status \in ReportChoices
  /\ imp' = [imp EXCEPT ![i].status = "weg"]
  /\ UNCHANGED <<verzoek, queue, lock, worker, docs, files, faults>>

-----------------------------------------------------------------------------
(* The task. *)

Busy(w) == worker[w].fase # "vrij"
Step(w, changed) == worker' = [worker EXCEPT ![w] = changed]

\* A message is taken from the queue; without the lock the task is dropped.
TaskReceive(w, i) ==
  /\ ~Busy(w)
  /\ queue[i] > 0
  /\ queue' = [queue EXCEPT ![i] = @ - 1]
  /\ IF lock = None
       THEN lock' = w /\ Step(w, [IdleWorker EXCEPT !.fase = "start", !.imp = i])
       ELSE UNCHANGED <<lock, worker>>
  /\ UNCHANGED <<imp, verzoek, docs, files, faults>>

\* The import is fetched, and saved as active with the size of its file.  The
\* task fails when the row is gone.
TaskStart(w) ==
  LET t == worker[w]
      i == t.imp
  IN /\ t.fase = "start"
     /\ IF Bestaat(i)
          THEN /\ imp' = [imp EXCEPT ![i].status = "active", ![i].total = imp[i].rijen]
               /\ Step(w, [t EXCEPT !.fase = "lees", !.total = imp[i].rijen,
                                    !.processed = imp[i].processed,
                                    !.successfully = imp[i].successfully,
                                    !.invalid = imp[i].invalid])
          ELSE Step(w, [t EXCEPT !.fase = "vrijgeven"]) /\ UNCHANGED imp
     /\ UNCHANGED <<verzoek, queue, lock, docs, files, faults>>

\* Mutant: only full batches are stored.
FullBatches(t) == {n \in 1..(t.total - t.gelezen) : n = BatchSize}

\* The lengths at which a batch is stored: it is full, or the file was read to
\* its end according to the counters.
FlushAt(t) ==
  {n \in 1..(t.total - t.gelezen) : n % BatchSize = 0 \/ t.processed + n = t.total}

Geldig(batch) == {n \in DOMAIN batch : batch[n] # "ongeldig"}

\* Rows are validated, and the files of the valid ones copied, until the batch
\* is stored.  What is left at the end of the file without being stored is
\* forgotten.
ReadBatch(w, soorten) ==
  LET t     == worker[w]
      flush == FlushAt(t)
      n     == IF flush = {} THEN t.total - t.gelezen
               ELSE CHOOSE x \in flush : \A y \in flush : x <= y
      batch == [x \in 1..n |-> soorten[x]]
  IN /\ t.fase = "lees"
     /\ t.gelezen < t.total
     /\ files' = files \cup {Naam(t.imp, t.gelezen + x) : x \in Geldig(batch)}
     /\ Step(w, [t EXCEPT !.gelezen = @ + n,
                          !.batch = IF flush = {} THEN <<>> ELSE batch,
                          !.fase = IF flush = {} THEN "klaar" ELSE "bewaar"])
     /\ UNCHANGED <<imp, verzoek, queue, lock, docs, faults>>

\* The end of the file.
ReadEnd(w) ==
  /\ worker[w].fase = "lees"
  /\ worker[w].gelezen >= worker[w].total
  /\ Step(w, [worker[w] EXCEPT !.fase = "klaar"])
  /\ UNCHANGED <<imp, verzoek, queue, lock, docs, files, faults>>

\* The row of the file that the n-th row of the batch is.
RowOf(t, n) == t.gelezen - Cardinality(DOMAIN t.batch) + n

\* _batch_create_eios(): all documents and relations are stored in one transaction.
BatchCreate(w) ==
  LET t == worker[w]
  IN /\ t.fase = "bewaar"
     /\ docs' = [docs EXCEPT ![t.imp] =
          [rij \in Rij |-> IF \E n \in Geldig(t.batch) : RowOf(t, n) = rij
                             THEN @[rij] + 1 ELSE @[rij]]]
     /\ Step(w, [t EXCEPT !.fase = "tel", !.gelukt = Geldig(t.batch)])
     /\ UNCHANGED <<imp, verzoek, queue, lock, files, faults>>

\* Mutant: every row of a batch that fails is marked as succeeded.
AllMarked(t, fout, k) == DOMAIN t.batch

\* The transaction is rolled back.  A failing bulk_create leaves no row marked as
\* succeeded, the relation of row k leaves the rows before it marked, and a failing
\* commit all of them.
MarkedAfter(t, fout, k) ==
  CASE fout = "bulk"   -> {}
    [] fout = "koppel" -> {n \in Geldig(t.batch) : n < k}
    [] fout = "commit" -> Geldig(t.batch)

\* An IntegrityError goes on with the next batch, but fails to save its comment when the row of
\* the import is gone; another DatabaseError stops the import.
BatchFails(w, fout, k, stop) ==
  LET t == worker[w]
  IN /\ t.fase = "bewaar"
     /\ fout \in Fouten \ {"zaak_weg"}
     /\ k \in Geldig(t.batch)
     /\ fout = "koppel" => t.batch[k] = "zaak"
     /\ Mislukt(fout)
     /\ IF stop \/ Bestaat(t.imp)
          THEN Step(w, [t EXCEPT !.fase = "tel", !.gelukt = MarkedAfter(t, fout, k), !.stop = stop])
          ELSE Step(w, [t EXCEPT !.fase = "vrijgeven"])
     /\ UNCHANGED <<imp, verzoek, queue, lock, docs, files>>

\* A zaak was deleted after the task read the zaken: Zaak.DoesNotExist in a signal
\* handler, which nothing catches.
BatchRaises(w, k) ==
  LET t == worker[w]
  IN /\ t.fase = "bewaar"
     /\ "zaak_weg" \in Fouten
     /\ k \in Geldig(t.batch) /\ t.batch[k] = "zaak"
     /\ Mislukt("zaak_weg")
     /\ Step(w, [t EXCEPT !.fase = "vrijgeven"])
     /\ UNCHANGED <<imp, verzoek, queue, lock, docs, files>>

\* Mutant: the files of all rows.
CleanupAll(t) == {Naam(t.imp, RowOf(t, n)) : n \in Geldig(t.batch)}

\* cleanup_import_files(): the files of rows that did not succeed.
Cleanup(t) == {Naam(t.imp, RowOf(t, n)) : n \in Geldig(t.batch) \ t.gelukt}

\* finish_batch(): the counters, which are only logged when the row is gone, and
\* the files.
FinishBatch(w) ==
  LET t    == worker[w]
      i    == t.imp
      done == [t EXCEPT !.processed = @ + Cardinality(DOMAIN t.batch),
                        !.successfully = @ + Cardinality(t.gelukt),
                        !.invalid = @ + Cardinality(DOMAIN t.batch \ t.gelukt)]
  IN /\ t.fase = "tel"
     /\ imp' = IF Bestaat(i)
                 THEN [imp EXCEPT ![i].processed = done.processed,
                                  ![i].successfully = done.successfully,
                                  ![i].invalid = done.invalid]
                 ELSE imp
     /\ files' = files \ Cleanup(t)
     /\ Step(w, [done EXCEPT !.fase = IF t.stop THEN "klaar" ELSE "lees", !.batch = <<>>,
                             !.gelukt = {}])
     /\ UNCHANGED <<verzoek, queue, lock, docs, faults>>

\* finish_import()
FinishImport(w) ==
  LET t == worker[w]
  IN /\ t.fase = "klaar"
     /\ imp' = IF Bestaat(t.imp)
                 THEN [imp EXCEPT ![t.imp].status = IF t.stop THEN "error" ELSE "finished"]
                 ELSE imp
     /\ Step(w, [t EXCEPT !.fase = "vrijgeven"])
     /\ UNCHANGED <<verzoek, queue, lock, docs, files, faults>>

\* Mutant: the lock stays until it expires.
TaskKeepsLock(w) ==
  /\ worker[w].fase = "vrijgeven"
  /\ Step(w, IdleWorker)
  /\ UNCHANGED <<imp, verzoek, queue, lock, docs, files, faults>>

\* The lock is deleted at the end of the task, unless it expired.
TaskEnd(w) ==
  /\ worker[w].fase = "vrijgeven"
  /\ lock' = IF lock = w THEN None ELSE lock
  /\ Step(w, IdleWorker)
  /\ UNCHANGED <<imp, verzoek, queue, docs, files, faults>>

\* The worker dies.
WorkerCrash(w) ==
  /\ Busy(w)
  /\ Mislukt("worker")
  /\ Step(w, IdleWorker)
  /\ lock' = IF lock = w THEN Dood ELSE lock
  /\ UNCHANGED <<imp, verzoek, queue, docs, files>>

\* The lock expires, 24 hours after it was taken.
LockExpires ==
  /\ lock # None
  /\ Mislukt("verlopen")
  /\ lock' = None
  /\ UNCHANGED <<imp, verzoek, queue, worker, docs, files>>

-----------------------------------------------------------------------------
Web ==
  \/ \E r \in Requests :
       \/ CreateCheck(r)
       \/ \E i \in Imports : CreateInsert(r, i) \/ UploadCheck(r, i) \/ DestroyCheck(r, i)
       \/ \E rijen \in Rij : UploadSave(r, rijen)
       \/ Dispatch(r) \/ Destroy(r) \/ RequestFails(r)
  \/ \E i \in Imports : RemoveImport(i)

Task ==
  \E w \in Workers :
    \/ \E i \in Imports : TaskReceive(w, i)
    \/ TaskStart(w)
    \/ \E soorten \in [1..BatchSize -> Soorten] : ReadBatch(w, soorten)
    \/ ReadEnd(w) \/ BatchCreate(w)
    \/ \E fout \in Fouten, k \in 1..BatchSize, stop \in BOOLEAN : BatchFails(w, fout, k, stop)
    \/ \E k \in 1..BatchSize : BatchRaises(w, k)
    \/ FinishBatch(w) \/ FinishImport(w) \/ TaskEnd(w)
    \/ WorkerCrash(w)

ImportNext == Web \/ Task \/ LockExpires

ImportSpec == ImportInit /\ [][ImportNext]_importVars

\* A request that is being served and a task that runs go on, and a worker takes
\* the messages that are there.
Fairness ==
  /\ \A r \in Requests : WF_importVars(Dispatch(r))
  /\ \A w \in Workers :
       WF_importVars(\/ \E i \in Imports : TaskReceive(w, i)
               \/ TaskStart(w)
               \/ \E soorten \in [1..BatchSize -> Soorten] : ReadBatch(w, soorten)
               \/ ReadEnd(w) \/ BatchCreate(w) \/ FinishBatch(w) \/ FinishImport(w) \/ TaskEnd(w))

FairImportSpec == ImportSpec /\ Fairness

-----------------------------------------------------------------------------
(* Properties *)

\* The variables have their types, and a worker that runs a task knows its import.
ImportTypeOK ==
  /\ imp \in [Imports -> Import]
  /\ \A r \in Requests : /\ verzoek[r].fase \in {"vrij", "create", "upload", "dispatch", "delete"}
                         /\ verzoek[r].imp \in IF verzoek[r].fase \in {"vrij", "create"} THEN {None} ELSE Imports
  /\ queue \in [Imports -> Nat]
  /\ lock \in Workers \cup {None, Dood}
  /\ \A w \in Workers :
       /\ worker[w].fase \in {"vrij", "start", "lees", "bewaar", "tel", "klaar", "vrijgeven"}
       /\ worker[w].imp \in IF Busy(w) THEN Imports ELSE {None}
       /\ worker[w].gelezen \in 0..MaxRijen
       /\ worker[w].gelukt \subseteq Geldig(worker[w].batch)
  /\ docs \in [Imports -> [Rij -> Nat]]
  /\ faults \subseteq AllFouten \cup {"verzoek", "worker", "verlopen"}

Imported(i) == {rij \in Rij : docs[i][rij] > 0}

\* No row is imported twice, however often its import is uploaded or its task delivered, and
\* what an import reports when it ended is what it did: the rows that count as successful
\* are the documents that exist, and a finished import handled every row.
StatisticsMatch ==
  \A i \in Imports :
    /\ \A rij \in Rij : docs[i][rij] <= 1
    /\ imp[i].status \in ReportChoices =>
         /\ imp[i].successfully = Cardinality(Imported(i))
         /\ imp[i].processed = imp[i].successfully + imp[i].invalid
         /\ imp[i].status = "finished" => imp[i].processed = imp[i].total

\* A document that was imported has its file: the cleanup after a failed row or
\* batch leaves the files of documents alone.
DocumentsHaveFiles ==
  \A i \in Imports : \A rij \in Imported(i) : Naam(i, rij) \in files

\* An import whose file was accepted ends, also when batches fail or the lock
\* expires; only a request or a worker that dies, or an exception that is not
\* caught, leaves it active.
ImportEnds ==
  \A i \in Imports :
    imp[i].status = "active" ~>
      imp[i].status # "active" \/ faults \cap {"verzoek", "worker", "zaak_weg"} # {}

=============================================================================
