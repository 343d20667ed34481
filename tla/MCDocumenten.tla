---------------------------- MODULE MCDocumenten ----------------------------
\* Model-checking instances of Documenten.
EXTENDS Documenten, TLC

\* Requests are interchangeable; no property used with it names one.
Symmetry == Permutations(Requests)

CONSTANT Onderwerpen  \* what the behaviours of an instance are about

VARIABLE onderwerp    \* what one behaviour is about

\* A document with its rights and relations, of clients that never overrule a lock and workers
\* that never fail; its versions, locks and uploads with administrators, PUTs and faults; or
\* requests at the same time, without uploads and faults.
DeelInit == Init /\ onderwerp \in Onderwerpen \cap {"document", "fouten", "samen"}

\* No two requests are between a read and a write.
EenTegelijk ==
  \A r, s \in Requests : req[r].fase # "vrij" /\ req[s].fase # "vrij" => r = s

DeelNext ==
  /\ Next
  /\ onderwerp # "samen" => EenTegelijk'
  /\ onderwerp = "document" =>
       /\ faults' = 0 /\ locks' <= 2 /\ relaties' \subseteq {"zaak"}
       /\ \A r \in Requests : req'[r].opt => req'[r].fase = "recht_delete"
  /\ onderwerp = "fouten" =>
       /\ UNCHANGED rightVars /\ uploads' <= 2
       /\ \A r \in Requests : req'[r].fase \notin {"recht_save", "recht_delete", "delete"}
  /\ onderwerp = "samen" =>
       /\ faults' = 0 /\ uploads' = 0 /\ locks' <= 2 /\ rechtIds' <= 1
       /\ "unlock_typeerror" \notin fouten'
       /\ relaties' # {"zaak", "besluit"} /\ ("besluit" \in relaties' => rechtIds' = 0)
       /\ Bestaat' => relaties \subseteq relaties'
       /\ \A r \in Requests :
            /\ req'[r].fase \notin {"upload_save", "recht_delete"}
            /\ req'[r].fase = "unlock_save" => req'[r].opt
            /\ req'[r].fase = "update_save" => ~req'[r].opt
  /\ UNCHANGED onderwerp

DeelSpec == DeelInit /\ [][DeelNext]_<<vars, onderwerp>>

\* When requests follow each other, the pointer and the parts of an upload are those of the
\* newest version, whatever fails: parts of an older version never get mixed into its file.  As
\* long as no lock is overruled and no worker fails, uploads end complete.
UploadsBlijven ==
  /\ onderwerp # "samen" => LatestIsNewest /\ PartsOfNewest
  /\ onderwerp = "document" => UploadsComplete

\* Requests that follow each other implement check-out, whatever fails.
SerieelCheckout ==
  CO!Init /\ [][onderwerp = "samen" \/ CO!Next]_<<CO!vars, onderwerp>>

=============================================================================
