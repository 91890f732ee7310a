----------------------------- MODULE ExportWorker -----------------------------
(***************************************************************************)
(* The export protocol: the job store of DurableJobs, the worker processes *)
(* of cmd/jobworker, the upload handler of internal/httpapi/job_routes.go  *)
(* and the object store the artifacts are put in.                          *)
(*                                                                         *)
(* What can go wrong is explicit: a claim whose answer is lost, a worker   *)
(* that dies anywhere, an API server that dies in the middle of an upload, *)
(* a PUT that the worker gives up on while the server still works on it,   *)
(* an object store that refuses, a fail report that never arrives, and a   *)
(* COMMIT that succeeds although the handler is told that it failed.       *)
(***************************************************************************)
EXTENDS DurableJobs

CONSTANTS
  Workers,           \* the worker processes
  Pages,             \* pages of rows an export has
  MaxBeats,          \* background heartbeats an attempt lives to send (bounds the model)
  CommitMayBeLost    \* whether a COMMIT may succeed and be reported as failed

ASSUME ProtocolAssumption ==
  /\ Pages \in Nat \ {0}
  /\ MaxBeats \in Nat
  /\ CommitMayBeLost \in BOOLEAN

VARIABLES
  worker,            \* what each process does, and for which attempt
  uploads,           \* the PUT requests the API server is working on
  objects            \* the keys that exist in the object store

protocolVars == <<worker, uploads, objects>>
exportVars == <<vars, protocolVars>>

NoJob == 0

(* A worker that is not "idle" is at one of the two calls made for each    *)
(* page, "beat" and "read"; has the whole file ("upload") and its PUT      *)
(* under way ("waiting"); or is about to report `code` ("failing").        *)
Idle == [pc |-> "idle", job |-> NoJob, attempt |-> 0, pages |-> 0, beats |-> 0,
         code |-> "none"]

ObjectKeyPerJob(j, a) == <<j, 1>>        \* defect: attempts share a key
ObjectKey(j, a) == <<j, a>>

(* Process w moves on to `pc`.                                             *)
Go(w, pc) == worker' = [worker EXCEPT ![w].pc = pc]
Report(w, code) == worker' = [worker EXCEPT ![w].pc = "failing", ![w].code = code]
Stop(w) == worker' = [worker EXCEPT ![w] = Idle]

Busy(w) == worker[w].pc # "idle"
Mine(w, stamp) == HoldsLease(worker[w].job, worker[w].attempt, stamp)

-----------------------------------------------------------------------------
ExportInit ==
  /\ Init
  /\ worker = [w \in Workers |-> Idle]
  /\ uploads = {}
  /\ objects = {}

Request(j) == Enqueue(j) /\ UNCHANGED protocolVars

(* main asks for one job at a time and works on it until process returns.  *)
Claim(w) ==
  /\ ~Busy(w)
  /\ \E claimed \in SUBSET ExportJobs :
       /\ Cardinality(claimed) <= 1
       /\ ClaimJobs(now, claimed)
       /\ \/ worker' = worker                      \* nothing to do, or the answer is lost
          \/ \E j \in claimed :
               worker' = [worker EXCEPT ![w] =
                 [Idle EXCEPT !.pc = "beat", !.job = j, !.attempt = attemptCount[j] + 1]]
  /\ UNCHANGED <<uploads, objects>>

(* A payload of no known format, or no local file to write the rows to.    *)
PrepareFails(w) ==
  /\ worker[w].pc = "beat"
  /\ worker[w].pages = 0
  /\ \E code \in {"unsupported_format", "artifact_upload_failed"} : Report(w, code)
  /\ UNCHANGED <<vars, uploads, objects>>

(* A heartbeat before each page.  When it is refused or its answer lost,   *)
(* process returns without reporting anything: the lease runs out.         *)
PageHeartbeat(w) ==
  /\ worker[w].pc = "beat"
  /\ \/ /\ HeartbeatJob(worker[w].job, worker[w].attempt, now)
        /\ Go(w, "read") \/ Stop(w)
     \/ /\ UNCHANGED vars
        /\ Stop(w)
  /\ UNCHANGED <<uploads, objects>>

(* ReadExportPage needs the lease.  A read that fails, rows that do not    *)
(* fit the request and a local file that cannot be written each end in a   *)
(* report of their own.                                                    *)
ReadPage(w) ==
  /\ worker[w].pc = "read"
  /\ \/ /\ Mine(w, now)
        /\ IF worker[w].pages + 1 < Pages
           THEN worker' = [worker EXCEPT ![w].pc = "beat", ![w].pages = @ + 1]
           ELSE Go(w, "upload")
     \/ \E code \in {"temporary_upstream", "invalid_input", "artifact_upload_failed"} :
          Report(w, code)
  /\ UNCHANGED <<vars, uploads, objects>>

(* The PUT: its handler reads the clock before it reads the body.          *)
StartUpload(w) ==
  /\ worker[w].pc = "upload"
  /\ \/ /\ Go(w, "waiting")
        /\ uploads' = uploads \cup
             {[job |-> worker[w].job, attempt |-> worker[w].attempt, stamp |-> now,
               stored |-> FALSE]}
     \/ /\ Report(w, "artifact_upload_failed")
        /\ UNCHANGED uploads
  /\ UNCHANGED <<vars, objects>>

(* The ticker renews the lease in the background; a refusal or a lost      *)
(* answer cancels the whole attempt, and its report with it.               *)
BackgroundHeartbeat(w) ==
  /\ Busy(w)
  /\ \/ /\ worker[w].beats < MaxBeats
        /\ HeartbeatJob(worker[w].job, worker[w].attempt, now)
        /\ worker' = [worker EXCEPT ![w].beats = @ + 1]
     \/ /\ UNCHANGED vars
        /\ Stop(w)
  /\ UNCHANGED <<uploads, objects>>

(* The client gives up on its PUT; the server goes on with it.             *)
UploadTimeout(w) ==
  /\ worker[w].pc = "waiting"
  /\ Report(w, "artifact_upload_failed")
  /\ UNCHANGED <<vars, uploads, objects>>

(* The report reaches the API, where it counts only with the lease, or it  *)
(* is lost; either way the process asks for its next job.                  *)
ReportFailure(w) ==
  /\ worker[w].pc = "failing"
  /\ Stop(w)
  /\ \/ \E delay \in RetryDelays :
          FailJob(worker[w].job, worker[w].attempt, now, worker[w].code, delay)
     \/ UNCHANGED vars
  /\ UNCHANGED <<uploads, objects>>

WorkerDies(w) ==
  /\ Busy(w)
  /\ Stop(w)
  /\ UNCHANGED <<vars, uploads, objects>>

-----------------------------------------------------------------------------
(* The handler's answer to upload u reaches whoever still waits for it: on *)
(* success the process is done, otherwise it reports the failed upload.    *)
Answer(u, ok) ==
  /\ uploads' = uploads \ {u}
  /\ worker' = [w \in Workers |->
       IF /\ worker[w].pc = "waiting"
          /\ worker[w].job = u.job
          /\ worker[w].attempt = u.attempt
       THEN IF ok THEN Idle
                  ELSE [worker[w] EXCEPT !.pc = "failing", !.code = "artifact_upload_failed"]
       ELSE worker[w]]

(* Delete is tried once and its error ignored.                             *)
DeleteObject(j, a) ==
  \/ objects' = objects \ {ObjectKey(j, a)}
  \/ objects' = objects

StoreObject(u) ==
  /\ ~u.stored
  /\ \/ /\ objects' = objects \cup {ObjectKey(u.job, u.attempt)}
        /\ uploads' = (uploads \ {u}) \cup {[u EXCEPT !.stored = TRUE]}
        /\ UNCHANGED worker
     \/ /\ DeleteObject(u.job, u.attempt)          \* Put failed
        /\ Answer(u, FALSE)
  /\ UNCHANGED vars

(* Defect: an upload publishes without a look at the lease.                *)
PublishUnchecked(u) ==
  /\ u.stored
  /\ Finish(u.job, u.attempt)
  /\ artifact' = [artifact EXCEPT ![u.job] = u.attempt]
  /\ legacy' = [legacy EXCEPT ![u.job] = "Completed"]
  /\ Answer(u, TRUE)
  /\ UNCHANGED objects

(* CompleteExport runs with the clock reading from before the upload.      *)
PublishArtifact(u) ==
  /\ u.stored
  /\ CompleteExport(u.job, u.attempt, u.stamp)
  /\ \/ Answer(u, TRUE) /\ UNCHANGED objects
     \/ /\ CommitMayBeLost
        /\ DeleteObject(u.job, u.attempt)
        /\ Answer(u, FALSE)

(* The lease is no longer current, or the export's snapshot is not.        *)
RefuseArtifact(u) ==
  /\ u.stored
  /\ DeleteObject(u.job, u.attempt)
  /\ Answer(u, FALSE)
  /\ UNCHANGED vars

(* The API server dies with the request.                                   *)
UploadDies(u) ==
  /\ Answer(u, FALSE)
  /\ UNCHANGED <<vars, objects>>

(* An upload is answered within MaxLag.                                    *)
Clock ==
  /\ \A u \in uploads : now < u.stamp + MaxLag
  /\ Tick
  /\ UNCHANGED protocolVars

WorkerStep(w) ==
  \/ PrepareFails(w)
  \/ PageHeartbeat(w)
  \/ ReadPage(w)
  \/ StartUpload(w)
  \/ BackgroundHeartbeat(w)
  \/ UploadTimeout(w)
  \/ ReportFailure(w)
  \/ WorkerDies(w)

HandlerStep(u) ==
  \/ StoreObject(u)
  \/ PublishArtifact(u)
  \/ RefuseArtifact(u)
  \/ UploadDies(u)

ExportNext ==
  \/ \E j \in ExportJobs : Request(j)
  \/ \E w \in Workers : Claim(w) \/ WorkerStep(w)
  \/ \E u \in uploads : HandlerStep(u)
  \/ Clock

(* Processes keep asking for work (the loop of main, and the container     *)
(* that restarts them), never stop inside an attempt for good, the server  *)
(* answers or drops every upload, and time passes.                         *)
Fairness ==
  /\ \A w \in Workers : WF_exportVars(Claim(w)) /\ WF_exportVars(WorkerStep(w))
  /\ WF_exportVars(\E u \in uploads : HandlerStep(u))
  /\ WF_exportVars(Clock)

ExportSpec == ExportInit /\ [][ExportNext]_exportVars /\ Fairness

-----------------------------------------------------------------------------
(* The file of an artifact row exists: no upload that was refused, given   *)
(* up or retried ever removes the object of the attempt that won.          *)
ArtifactStored ==
  \A j \in ExportJobs : artifact[j] # 0 => ObjectKey(j, artifact[j]) \in objects

(* An attempt is worked on by one process, and every attempt in hand has   *)
(* been begun: a lost answer or a dead process never leads to an attempt   *)
(* being given out twice.                                                  *)
AttemptsApart ==
  \A v, w \in Workers :
    /\ Busy(w) => worker[w].attempt <= attemptCount[worker[w].job]
    /\ v # w /\ Busy(v) /\ Busy(w) /\ worker[v].job = worker[w].job
         => worker[v].attempt # worker[w].attempt

(* The worker and the upload handler use the job store as DurableJobs says *)
(* its clients may: what holds of the store there holds here.              *)
StoreRules == Spec

(* Every requested export ends, whatever fails on the way: the attempts    *)
(* that die without a word are the ones the leases are for.                *)
EveryExportEnds ==
  \A j \in ExportJobs : status[j] = "Queued" ~> status[j] \in Terminal
=============================================================================
