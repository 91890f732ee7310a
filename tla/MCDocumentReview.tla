--------------------------- MODULE MCDocumentReview ---------------------------
(***************************************************************************)
(* DocumentReview for TLC.  Three runs: a first reading, one of another    *)
(* model version or a retry, and a reprocessing, in any order.             *)
(***************************************************************************)
EXTENDS DocumentReview
=============================================================================
