--------------------------- MODULE MCDocumentExports ---------------------------
(* Two documents and pages of one row: a document changes between the pages  *)
(* of a file, between the file and its completion, and after it.             *)
EXTENDS DocumentExports

MCSymmetry == Permutations(Documents)
=============================================================================
