----------------------------- MODULE DurableJobs -----------------------------
(***************************************************************************)
(* The durable job queue: the rows of durable_jobs, durable_job_artifacts  *)
(* and export_jobs, and the transactions of internal/postgres/jobs.go that *)
(* change them.  The clients are the most general ones: every attempt that *)
(* was ever handed out may call every endpoint, at any time and in any     *)
(* order, whatever became of its lease.  ExportWorker puts the real worker *)
(* in their place.                                                         *)
(*                                                                         *)
(* Time.  A handler reads the clock once (command.Now) and its transaction *)
(* compares leases with that reading, perhaps later: an artifact upload    *)
(* reads the clock before the body arrives.  A step therefore takes a      *)
(* stamp, a reading at most MaxLag old and not older than the attempt.     *)
(*                                                                         *)
(* An attempt's id and lease token are drawn at random for each claim and  *)
(* travel together: the n-th claim of a job makes the attempt n.           *)
(***************************************************************************)
EXTENDS Naturals, FiniteSets

CONSTANTS
  Jobs,           \* every job that may be stored
  ExportJobs,     \* those of kind export; the others are of kind ocr
  LegacyJobs,     \* the exports of tasks, which mirror a row of export_jobs
  MaxAttempts,    \* max_attempts of each job: 5 for exports, 3 for OCR
  ClaimLimit,     \* most jobs one claim hands out
  Lease,          \* length of a lease, two minutes in the code
  RetryDelays,    \* the waits a retry may be given (backoff, jitter, hint)
  MaxLag,         \* oldest clock reading a transaction may still use
  MaxTime         \* the clock stops here: bounds the model, not the code

ASSUME JobsAssumption ==
  /\ ExportJobs \subseteq Jobs
  /\ LegacyJobs \subseteq ExportJobs
ASSUME MaxAttemptsAssumption == MaxAttempts \in [Jobs -> 1..5]
ASSUME TimesAssumption ==
  /\ ClaimLimit \in Nat
  /\ Lease \in Nat \ {0}
  /\ RetryDelays \subseteq Nat
  /\ MaxLag \in Nat
  /\ MaxTime \in Nat

VARIABLES
  now,            \* the clock of the API server
  status,         \* durable_jobs.status, "None" before the row exists
  attemptCount,   \* attempt_count
  current,        \* current_attempt_id and lease_token_hash, 0 for NULL
  leaseExpires,   \* lease_expires_at, 0 for NULL
  availableAt,    \* available_at
  claimedAt,      \* when the latest claim was committed (history)
  result,         \* result->>'attempt_id', 0 for NULL
  artifact,       \* the attempt in durable_job_artifacts.object_key, 0: no row
  completions,    \* how many job.completed audit rows were written
  legacy          \* export_jobs.status of the mirrored row, "None" without one

rowVars == <<status, attemptCount, current, leaseExpires, availableAt, claimedAt>>
outcomeVars == <<result, artifact, completions, legacy>>
vars == <<now, rowVars, outcomeVars>>

Statuses == {"None", "Queued", "Running", "Completed", "Failed", "Cancelled"}
Terminal == {"Completed", "Failed", "Cancelled"}

TransientCodes == {"temporary_upstream", "rate_limited", "artifact_upload_failed"}
FailureCodes ==
  TransientCodes \cup {"invalid_input", "unauthorized_input", "unsupported_format"}

(* The readings of the clock a transaction may carry, taken at `from` or   *)
(* later.                                                                  *)
Stamps(from) == {t \in from..now : now <= t + MaxLag}

(* Defect: any attempt of a running job passes for its holder.             *)
HoldsSomeLease(j, a, stamp) == status[j] = "Running" /\ stamp < leaseExpires[j]

(* status='Running' AND current_attempt_id AND lease_token_hash AND        *)
(* lease_expires_at>stamp: what every call of a worker is checked against. *)
HoldsLease(j, a, stamp) ==
  /\ status[j] = "Running"
  /\ current[j] = a
  /\ stamp < leaseExpires[j]

(* Defect: off by one, so that the last attempt is never given up.         *)
ExhaustedLate(stamp) ==
  {j \in Jobs : /\ status[j] = "Running"
                /\ leaseExpires[j] <= stamp
                /\ attemptCount[j] > MaxAttempts[j]}

Exhausted(stamp) ==
  {j \in Jobs : /\ status[j] = "Running"
                /\ leaseExpires[j] <= stamp
                /\ attemptCount[j] >= MaxAttempts[j]}

(* Defect: a running job is handed out before its lease has run out.       *)
ClaimableRunning(stamp) ==
  {j \in Jobs : /\ attemptCount[j] < MaxAttempts[j]
                /\ \/ status[j] = "Queued" /\ availableAt[j] <= stamp
                   \/ status[j] = "Running"}

Claimable(stamp) ==
  {j \in Jobs : /\ attemptCount[j] < MaxAttempts[j]
                /\ \/ status[j] = "Queued" /\ availableAt[j] <= stamp
                   \/ status[j] = "Running" /\ leaseExpires[j] <= stamp}

(* Defect: taking over an abandoned job goes on with the old attempt.      *)
SameAttempt(j) == IF status[j] = "Running" THEN attemptCount[j] ELSE attemptCount[j] + 1

(* The attempt, with its own id and lease token, that a claim begins.      *)
NextAttempt(j) == attemptCount[j] + 1

(* Defect: the mirrored row of an exhausted job is forgotten.              *)
HistoryOfExhaustedKept(exhausted) == legacy

(* The second half of the claim's first statement, on export_jobs.         *)
HistoryOfExhausted(exhausted) ==
  [j \in Jobs |-> IF j \in exhausted \cap LegacyJobs THEN "Failed" ELSE legacy[j]]

-----------------------------------------------------------------------------
Init ==
  /\ now = 0
  /\ status = [j \in Jobs |-> "None"]
  /\ attemptCount = [j \in Jobs |-> 0]
  /\ current = [j \in Jobs |-> 0]
  /\ leaseExpires = [j \in Jobs |-> 0]
  /\ availableAt = [j \in Jobs |-> 0]
  /\ claimedAt = [j \in Jobs |-> 0]
  /\ result = [j \in Jobs |-> 0]
  /\ artifact = [j \in Jobs |-> 0]
  /\ completions = [j \in Jobs |-> 0]
  /\ legacy = [j \in Jobs |-> "None"]

(* QueueExport, QueueDocumentExport, the trigger on documents, RetryOCR    *)
(* and ReprocessOCR all insert the same row; a task export also turns its  *)
(* export_jobs row into a background one.                                  *)
Enqueue(j) ==
  /\ status[j] = "None"
  /\ status' = [status EXCEPT ![j] = "Queued"]
  /\ availableAt' = [availableAt EXCEPT ![j] = now]
  /\ legacy' = [legacy EXCEPT ![j] = IF j \in LegacyJobs THEN "Queued" ELSE @]
  /\ UNCHANGED <<now, attemptCount, current, leaseExpires, claimedAt, result,
                 artifact, completions>>

(* Defect: a job that runs is cancelled as well.                           *)
CancelAny(j) ==
  /\ j \in Jobs \ ExportJobs
  /\ status[j] \in {"Queued", "Running"}
  /\ status' = [status EXCEPT ![j] = "Cancelled"]
  /\ UNCHANGED <<now, attemptCount, current, leaseExpires, availableAt, claimedAt,
                 outcomeVars>>

(* The trigger stop_removed_document_ocr, when the document is trashed.    *)
CancelQueued(j) ==
  /\ j \in Jobs \ ExportJobs
  /\ status[j] = "Queued"
  /\ status' = [status EXCEPT ![j] = "Cancelled"]
  /\ UNCHANGED <<now, attemptCount, current, leaseExpires, availableAt, claimedAt,
                 outcomeVars>>

(* One claim is one transaction.  It first fails, of every kind, the jobs  *)
(* whose last attempt was abandoned; then it hands out up to ClaimLimit    *)
(* of the jobs that SKIP LOCKED leaves it, each with a new attempt.        *)
ClaimJobs(stamp, claimed) ==
  LET exhausted == Exhausted(stamp) IN
  /\ claimed \subseteq Claimable(stamp)
  /\ Cardinality(claimed) <= ClaimLimit
  /\ status' = [j \in Jobs |-> CASE j \in exhausted -> "Failed"
                                 [] j \in claimed   -> "Running"
                                 [] OTHER           -> status[j]]
  /\ attemptCount' = [j \in Jobs |->
       IF j \in claimed THEN NextAttempt(j) ELSE attemptCount[j]]
  /\ current' = [j \in Jobs |-> CASE j \in exhausted -> 0
                                  [] j \in claimed   -> NextAttempt(j)
                                  [] OTHER           -> current[j]]
  /\ leaseExpires' = [j \in Jobs |-> CASE j \in exhausted -> 0
                                       [] j \in claimed   -> stamp + Lease
                                       [] OTHER           -> leaseExpires[j]]
  /\ claimedAt' = [j \in Jobs |-> IF j \in claimed THEN now ELSE claimedAt[j]]
  /\ legacy' = HistoryOfExhausted(exhausted)
  /\ UNCHANGED <<now, availableAt, result, artifact, completions>>

HeartbeatJob(j, a, stamp) ==
  /\ HoldsLease(j, a, stamp)
  /\ leaseExpires' = [leaseExpires EXCEPT ![j] = stamp + Lease]
  /\ UNCHANGED <<now, status, attemptCount, current, availableAt, claimedAt,
                 outcomeVars>>

(* Defect: the last attempt may be retried, with no attempt left.          *)
RetryableTooOften(j, code) ==
  code \in TransientCodes /\ attemptCount[j] <= MaxAttempts[j]

Retryable(j, code) == code \in TransientCodes /\ attemptCount[j] < MaxAttempts[j]

(* Defect: the lease ends but the attempt stays on the row.                *)
ReleaseTime(j) ==
  /\ leaseExpires' = [leaseExpires EXCEPT ![j] = 0]
  /\ UNCHANGED current

ReleaseLease(j) ==
  /\ current' = [current EXCEPT ![j] = 0]
  /\ leaseExpires' = [leaseExpires EXCEPT ![j] = 0]

(* The attempt gives the job back: for another try when the code is        *)
(* transient and attempts are left, for good otherwise.                    *)
FailJob(j, a, stamp, code, delay) ==
  LET retry == Retryable(j, code) IN
  /\ HoldsLease(j, a, stamp)
  /\ status' = [status EXCEPT ![j] = IF retry THEN "Queued" ELSE "Failed"]
  /\ availableAt' = [availableAt EXCEPT ![j] = IF retry THEN stamp + delay ELSE stamp]
  /\ ReleaseLease(j)
  /\ legacy' = [legacy EXCEPT ![j] =
       IF ~retry /\ j \in LegacyJobs THEN "Failed" ELSE @]
  /\ UNCHANGED <<now, attemptCount, claimedAt, result, artifact, completions>>

(* Defect: the row gets the status that document exports show their users. *)
FinishReady(j, a) ==
  /\ status' = [status EXCEPT ![j] = "Ready"]
  /\ result' = [result EXCEPT ![j] = a]
  /\ ReleaseLease(j)
  /\ completions' = [completions EXCEPT ![j] = @ + 1]
  /\ UNCHANGED <<now, attemptCount, availableAt, claimedAt>>

(* The UPDATE that both kinds of completion end in.                        *)
Finish(j, a) ==
  /\ status' = [status EXCEPT ![j] = "Completed"]
  /\ result' = [result EXCEPT ![j] = a]
  /\ ReleaseLease(j)
  /\ completions' = [completions EXCEPT ![j] = @ + 1]
  /\ UNCHANGED <<now, attemptCount, availableAt, claimedAt>>

(* A repetition by the attempt that completed returns the artifact it has; *)
(* a snapshot that no longer holds, or metadata that does not fit, is an   *)
(* error: neither changes a row.                                           *)
CompleteExport(j, a, stamp) ==
  /\ j \in ExportJobs
  /\ HoldsLease(j, a, stamp)
  /\ Finish(j, a)
  /\ artifact' = [artifact EXCEPT ![j] = a]
  /\ legacy' = [legacy EXCEPT ![j] = IF j \in LegacyJobs THEN "Completed" ELSE @]

(* The job's side of CompleteOCR; the runs it publishes and supersedes are *)
(* in DocumentReview.                                                      *)
CompleteOCR(j, a, stamp) ==
  /\ j \in Jobs \ ExportJobs
  /\ HoldsLease(j, a, stamp)
  /\ Finish(j, a)
  /\ UNCHANGED <<artifact, legacy>>

(* The clock moves while a deadline lies ahead; once none does, nothing in *)
(* the store can tell a later time from this one.                          *)
Tick ==
  /\ now < MaxTime
  /\ \E j \in Jobs : \/ status[j] = "Queued" /\ now < availableAt[j]
                     \/ status[j] = "Running" /\ now < leaseExpires[j]
  /\ now' = now + 1
  /\ UNCHANGED <<rowVars, outcomeVars>>

AttemptCall(j, a) ==
  \E stamp \in Stamps(claimedAt[j]) :
    \/ HeartbeatJob(j, a, stamp)
    \/ \E code \in FailureCodes, delay \in RetryDelays : FailJob(j, a, stamp, code, delay)
    \/ CompleteExport(j, a, stamp)
    \/ CompleteOCR(j, a, stamp)

Next ==
  \/ \E j \in Jobs : Enqueue(j) \/ CancelQueued(j)
  \/ \E stamp \in Stamps(0), claimed \in SUBSET Jobs : ClaimJobs(stamp, claimed)
  \/ \E j \in Jobs : \E a \in 1..attemptCount[j] : AttemptCall(j, a)
  \/ Tick

Spec == Init /\ [][Next]_vars

-----------------------------------------------------------------------------
(* Every row has a shape that the columns of the tables can hold.          *)
TypeOK ==
  /\ now \in Nat
  /\ status \in [Jobs -> Statuses]
  /\ attemptCount \in [Jobs -> Nat]
  /\ current \in [Jobs -> Nat]
  /\ leaseExpires \in [Jobs -> Nat]
  /\ availableAt \in [Jobs -> Nat]
  /\ claimedAt \in [Jobs -> Nat]
  /\ result \in [Jobs -> Nat]
  /\ artifact \in [Jobs -> Nat]
  /\ completions \in [Jobs -> Nat]
  /\ legacy \in [Jobs -> {"None", "Queued", "Completed", "Failed"}]

(* The attempt that holds a job is the one begun last, and a job has a     *)
(* holder exactly while it runs (the CHECK of migration 7, line 29): no    *)
(* attempt that was displaced by a reclaim holds the job again.            *)
HolderIsLatest ==
  \A j \in Jobs :
    /\ status[j] = "Running" <=> current[j] # 0
    /\ current[j] # 0 => current[j] = attemptCount[j]

(* A stored job is never begun more often than its kind allows, and a job  *)
(* that waits always has an attempt left.  A claim skips a job without     *)
(* one, and only running jobs are ever failed for having none: a queued    *)
(* job without attempts would wait for ever.                               *)
NeverStranded ==
  \A j \in Jobs :
    /\ attemptCount[j] <= MaxAttempts[j]
    /\ status[j] = "Queued" => attemptCount[j] < MaxAttempts[j]

(* A job has a result exactly when it is completed, completed once, by the *)
(* attempt that was begun last; an export has its artifact row from that   *)
(* very attempt, and nothing else ever has one.                            *)
OneResult ==
  \A j \in Jobs :
    /\ completions[j] = (IF status[j] = "Completed" THEN 1 ELSE 0)
    /\ result[j] = (IF status[j] = "Completed" THEN attemptCount[j] ELSE 0)
    /\ artifact[j] = (IF j \in ExportJobs THEN result[j] ELSE 0)

(* The export history users see, export_jobs, tells the end of a job as    *)
(* durable_jobs does, although three transactions write it separately.     *)
LegacyMirrors ==
  \A j \in LegacyJobs :
    legacy[j] = CASE status[j] = "None"                  -> "None"
                  [] status[j] \in {"Queued", "Running"} -> "Queued"
                  [] OTHER                               -> status[j]

(* A job is taken from an attempt only when its lease has run out by the   *)
(* server's clock, also when the claim acts on an old reading of it.       *)
NoStolenLease ==
  [][\A j \in Jobs :
       status[j] = "Running" /\ attemptCount'[j] # attemptCount[j]
         => leaseExpires[j] <= now]_vars

(* Every job goes through the life cycle of JobLifecycle: each step of the *)
(* store is, for each job, a step of its life or leaves it as it was.      *)
Life(j) == INSTANCE JobLifecycle WITH
  Budget <- MaxAttempts[j], phase <- status[j],
  tries <- attemptCount[j], winner <- result[j]
Lifecycles ==
  /\ \A j \in Jobs : Life(j)!Init
  /\ [][\A j \in Jobs : [Life(j)!Next]_(Life(j)!vars)]_vars
=============================================================================
