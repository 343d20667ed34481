-------------------------- MODULE MCDocumentImport --------------------------
(* DocumentImport for TLC. *)
EXTENDS DocumentImport

=============================================================================
