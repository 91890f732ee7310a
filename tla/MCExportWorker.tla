---------------------------- MODULE MCExportWorker ----------------------------
(* One export of two attempts and two workers: the second attempt always    *)
(* meets whatever the first one left behind.                                *)
EXTENDS ExportWorker, TLC

CONSTANTS export, w1, w2

MCJobs == {export}
MCMaxAttempts == [j \in MCJobs |-> 2]
MCDelays == {1}
MCWorkers == {w1, w2}
=============================================================================
