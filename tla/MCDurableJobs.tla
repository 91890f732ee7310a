---------------------------- MODULE MCDurableJobs ----------------------------
(* The job store with an export of tasks that has two attempts and an OCR   *)
(* job that has two: every step of one job meets every step of the other.   *)
EXTENDS DurableJobs, TLC

CONSTANTS export, scan

MCJobs == {export, scan}
MCExportJobs == {export}
MCMaxAttempts == [j \in MCJobs |-> 2]
MCDelays == {1, 2}
=============================================================================
