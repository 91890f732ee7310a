-------------------------- MODULE DurableJobsProofs --------------------------
(***************************************************************************)
(* Proofs about DurableJobs for every set of jobs, every attempt limit,    *)
(* lease, delay, lag and clock bound; and, in the second part, about       *)
(* ExportWorker, for every number of worker processes as well.             *)
(***************************************************************************)
EXTENDS ExportWorker, TLAPS

(* The four invariants the run checks are inductive once it is known that  *)
(* a job which is not stored yet has had no attempt.                       *)
Unstored == \A j \in Jobs : status[j] = "None" => attemptCount[j] = 0

IInv == /\ TypeOK
        /\ HolderIsLatest
        /\ NeverStranded
        /\ OneResult
        /\ LegacyMirrors
        /\ Unstored

(* What an attempt may rely on while it holds its lease: its job runs, it  *)
(* is the latest attempt, and nothing has been accepted for the job.       *)
LEMMA HolderFacts ==
  ASSUME IInv, NEW j \in Jobs, NEW a \in Nat, NEW stamp \in Nat,
         HoldsLease(j, a, stamp)
  PROVE  /\ a = attemptCount[j]
         /\ a # 0
         /\ completions[j] = 0
         /\ result[j] = 0
         /\ artifact[j] = 0
  <1>1. status[j] = "Running" /\ current[j] = a
    BY DEF HoldsLease
  <1>2. current[j] # 0 /\ current[j] = attemptCount[j]
    BY <1>1 DEF IInv, HolderIsLatest
  <1> QED
    BY <1>1, <1>2 DEF IInv, OneResult

(* A clock reading that a transaction may carry is a time of the past.     *)
LEMMA StampFacts ==
  ASSUME TypeOK, NEW from \in Nat, NEW stamp \in Stamps(from)
  PROVE  stamp \in Nat /\ stamp <= now /\ from <= stamp
  BY DEF TypeOK, Stamps

LEMMA BudgetFacts ==
  ASSUME NEW j \in Jobs
  PROVE  MaxAttempts[j] \in Nat /\ 1 <= MaxAttempts[j]
  BY MaxAttemptsAssumption

-----------------------------------------------------------------------------
LEMMA InitInvariant == Init => IInv
  <1> SUFFICES ASSUME Init PROVE IInv
    OBVIOUS
  <1>1. TypeOK
    BY DEF Init, TypeOK, Statuses
  <1>2. HolderIsLatest
    BY DEF Init, HolderIsLatest
  <1>3. NeverStranded
    BY BudgetFacts DEF Init, NeverStranded
  <1>4. OneResult
    BY DEF Init, OneResult
  <1>5. LegacyMirrors
    BY JobsAssumption DEF Init, LegacyMirrors
  <1>6. Unstored
    BY DEF Init, Unstored
  <1> QED
    BY <1>1, <1>2, <1>3, <1>4, <1>5, <1>6 DEF IInv

LEMMA EnqueueInvariant ==
  ASSUME IInv, NEW j \in Jobs, Enqueue(j)
  PROVE  IInv'
  <1> USE DEF Enqueue
  <1>1. TypeOK'
    BY DEF IInv, TypeOK, Statuses
  <1>2. HolderIsLatest'
    BY DEF IInv, TypeOK, HolderIsLatest
  <1>3. NeverStranded'
    <2> SUFFICES ASSUME NEW k \in Jobs
                 PROVE  /\ attemptCount'[k] <= MaxAttempts[k]
                        /\ status'[k] = "Queued" => attemptCount'[k] < MaxAttempts[k]
      BY DEF NeverStranded
    <2>1. k = j => attemptCount[k] = 0
      BY DEF IInv, Unstored
    <2> QED
      BY <2>1, BudgetFacts DEF IInv, TypeOK, NeverStranded
  <1>4. OneResult'
    BY DEF IInv, TypeOK, OneResult
  <1>5. LegacyMirrors'
    BY JobsAssumption DEF IInv, TypeOK, LegacyMirrors
  <1>6. Unstored'
    BY DEF IInv, TypeOK, Unstored
  <1> QED
    BY <1>1, <1>2, <1>3, <1>4, <1>5, <1>6 DEF IInv

LEMMA CancelInvariant ==
  ASSUME IInv, NEW j \in Jobs, CancelQueued(j)
  PROVE  IInv'
  <1> USE DEF CancelQueued, outcomeVars
  <1>1. TypeOK'
    BY DEF IInv, TypeOK, Statuses
  <1>2. HolderIsLatest'
    BY DEF IInv, TypeOK, HolderIsLatest
  <1>3. NeverStranded'
    BY DEF IInv, TypeOK, NeverStranded
  <1>4. OneResult'
    BY DEF IInv, TypeOK, OneResult
  <1>5. LegacyMirrors'
    BY JobsAssumption DEF IInv, TypeOK, LegacyMirrors
  <1>6. Unstored'
    BY DEF IInv, TypeOK, Unstored
  <1> QED
    BY <1>1, <1>2, <1>3, <1>4, <1>5, <1>6 DEF IInv

(* A claim treats each job in one of three ways: it fails it, it hands it  *)
(* out, or it leaves it alone.                                             *)
LEMMA ClaimCases ==
  ASSUME IInv, NEW stamp \in Nat, NEW claimed \in SUBSET Jobs,
         ClaimJobs(stamp, claimed), NEW j \in Jobs
  PROVE  \/ /\ status[j] = "Running"
            /\ leaseExpires[j] <= stamp
            /\ status'[j] = "Failed"
            /\ attemptCount'[j] = attemptCount[j]
            /\ current'[j] = 0
            /\ leaseExpires'[j] = 0
            /\ claimedAt'[j] = claimedAt[j]
            /\ legacy'[j] = IF j \in LegacyJobs THEN "Failed" ELSE legacy[j]
         \/ /\ attemptCount[j] < MaxAttempts[j]
            /\ \/ status[j] = "Queued"
               \/ status[j] = "Running" /\ leaseExpires[j] <= stamp
            /\ status'[j] = "Running"
            /\ attemptCount'[j] = attemptCount[j] + 1
            /\ current'[j] = attemptCount[j] + 1
            /\ leaseExpires'[j] = stamp + Lease
            /\ claimedAt'[j] = now
            /\ legacy'[j] = legacy[j]
         \/ /\ status'[j] = status[j]
            /\ attemptCount'[j] = attemptCount[j]
            /\ current'[j] = current[j]
            /\ leaseExpires'[j] = leaseExpires[j]
            /\ claimedAt'[j] = claimedAt[j]
            /\ legacy'[j] = legacy[j]
  <1>1. CASE j \in Exhausted(stamp)
    <2>1. j \notin claimed
      BY <1>1, BudgetFacts DEF ClaimJobs, Exhausted, Claimable, IInv, TypeOK
    <2> QED
      BY <1>1, <2>1 DEF ClaimJobs, Exhausted, HistoryOfExhausted
  <1>2. CASE j \notin Exhausted(stamp) /\ j \in claimed
    <2>1. /\ attemptCount[j] < MaxAttempts[j]
          /\ \/ status[j] = "Queued"
             \/ status[j] = "Running" /\ leaseExpires[j] <= stamp
      BY <1>2 DEF ClaimJobs, Claimable
    <2>2. /\ status'[j] = "Running"
          /\ attemptCount'[j] = attemptCount[j] + 1
          /\ current'[j] = attemptCount[j] + 1
          /\ leaseExpires'[j] = stamp + Lease
          /\ claimedAt'[j] = now
          /\ legacy'[j] = legacy[j]
      BY <1>2 DEF ClaimJobs, NextAttempt, HistoryOfExhausted
    <2> QED
      BY <2>1, <2>2
  <1>3. CASE j \notin Exhausted(stamp) /\ j \notin claimed
    BY <1>3 DEF ClaimJobs, HistoryOfExhausted
  <1> QED
    BY <1>1, <1>2, <1>3

LEMMA ClaimInvariant ==
  ASSUME IInv, NEW stamp \in Nat, NEW claimed \in SUBSET Jobs,
         ClaimJobs(stamp, claimed)
  PROVE  IInv'
  <1>0. UNCHANGED <<now, availableAt, result, artifact, completions>>
    BY DEF ClaimJobs
  <1>1. TypeOK'
    <2>1. /\ status' = [j \in Jobs |-> status'[j]]
          /\ attemptCount' = [j \in Jobs |-> attemptCount'[j]]
          /\ current' = [j \in Jobs |-> current'[j]]
          /\ leaseExpires' = [j \in Jobs |-> leaseExpires'[j]]
          /\ claimedAt' = [j \in Jobs |-> claimedAt'[j]]
          /\ legacy' = [j \in Jobs |-> legacy'[j]]
      BY DEF ClaimJobs, HistoryOfExhausted
    <2>2. ASSUME NEW j \in Jobs
          PROVE  /\ status'[j] \in Statuses
                 /\ attemptCount'[j] \in Nat
                 /\ current'[j] \in Nat
                 /\ leaseExpires'[j] \in Nat
                 /\ claimedAt'[j] \in Nat
                 /\ legacy'[j] \in {"None", "Queued", "Completed", "Failed"}
      BY ClaimCases, TimesAssumption DEF IInv, TypeOK, Statuses
    <2> QED
      BY <1>0, <2>1, <2>2 DEF IInv, TypeOK
  <1>2. HolderIsLatest'
    BY ClaimCases DEF IInv, TypeOK, HolderIsLatest
  <1>3. NeverStranded'
    BY ClaimCases, MaxAttemptsAssumption DEF IInv, TypeOK, NeverStranded
  <1>4. OneResult'
    BY <1>0, ClaimCases DEF IInv, OneResult
  <1>5. LegacyMirrors'
    BY ClaimCases, JobsAssumption DEF IInv, LegacyMirrors
  <1>6. Unstored'
    BY ClaimCases DEF IInv, Unstored
  <1> QED
    BY <1>1, <1>2, <1>3, <1>4, <1>5, <1>6 DEF IInv

LEMMA HeartbeatInvariant ==
  ASSUME IInv, NEW j \in Jobs, NEW a \in Nat, NEW stamp \in Nat,
         HeartbeatJob(j, a, stamp)
  PROVE  IInv'
  <1> USE DEF HeartbeatJob, outcomeVars
  <1>1. TypeOK'
    BY TimesAssumption DEF IInv, TypeOK
  <1>2. HolderIsLatest' /\ NeverStranded' /\ OneResult' /\ LegacyMirrors' /\ Unstored'
    BY DEF IInv, HolderIsLatest, NeverStranded, OneResult, LegacyMirrors, Unstored
  <1> QED
    BY <1>1, <1>2 DEF IInv

LEMMA FailInvariant ==
  ASSUME IInv, NEW j \in Jobs, NEW a \in Nat, NEW stamp \in Nat,
         NEW code \in FailureCodes, NEW delay \in RetryDelays,
         FailJob(j, a, stamp, code, delay)
  PROVE  IInv'
  <1> USE DEF FailJob, Retryable, ReleaseLease
  <1>0. delay \in Nat /\ status[j] = "Running"
    BY TimesAssumption DEF HoldsLease
  <1>1. TypeOK'
    BY <1>0 DEF IInv, TypeOK, Statuses
  <1>2. HolderIsLatest'
    BY DEF IInv, TypeOK, HolderIsLatest
  <1>3. NeverStranded'
    BY DEF IInv, TypeOK, NeverStranded
  <1>4. OneResult'
    BY <1>0 DEF IInv, TypeOK, OneResult
  <1>5. LegacyMirrors'
    BY <1>0, JobsAssumption DEF IInv, TypeOK, LegacyMirrors
  <1>6. Unstored'
    BY DEF IInv, TypeOK, Unstored
  <1> QED
    BY <1>1, <1>2, <1>3, <1>4, <1>5, <1>6 DEF IInv

LEMMA CompleteExportInvariant ==
  ASSUME IInv, NEW j \in Jobs, NEW a \in Nat, NEW stamp \in Nat,
         CompleteExport(j, a, stamp)
  PROVE  IInv'
  <1> USE DEF CompleteExport, Finish, ReleaseLease
  <1>0. a = attemptCount[j] /\ a # 0 /\ completions[j] = 0
    BY HolderFacts
  <1>1. TypeOK'
    BY DEF IInv, TypeOK, Statuses
  <1>2. HolderIsLatest'
    BY DEF IInv, TypeOK, HolderIsLatest
  <1>3. NeverStranded'
    BY DEF IInv, TypeOK, NeverStranded
  <1>4. OneResult'
    BY <1>0 DEF IInv, TypeOK, OneResult
  <1>5. LegacyMirrors'
    BY JobsAssumption DEF IInv, TypeOK, LegacyMirrors
  <1>6. Unstored'
    BY DEF IInv, TypeOK, Unstored
  <1> QED
    BY <1>1, <1>2, <1>3, <1>4, <1>5, <1>6 DEF IInv

LEMMA CompleteOCRInvariant ==
  ASSUME IInv, NEW j \in Jobs, NEW a \in Nat, NEW stamp \in Nat,
         CompleteOCR(j, a, stamp)
  PROVE  IInv'
  <1> USE DEF CompleteOCR, Finish, ReleaseLease
  <1>0. a = attemptCount[j] /\ a # 0 /\ completions[j] = 0 /\ artifact[j] = 0
    BY HolderFacts
  <1>1. TypeOK'
    BY DEF IInv, TypeOK, Statuses
  <1>2. HolderIsLatest'
    BY DEF IInv, TypeOK, HolderIsLatest
  <1>3. NeverStranded'
    BY DEF IInv, TypeOK, NeverStranded
  <1>4. OneResult'
    BY <1>0 DEF IInv, TypeOK, OneResult
  <1>5. LegacyMirrors'
    BY JobsAssumption DEF IInv, TypeOK, LegacyMirrors
  <1>6. Unstored'
    BY DEF IInv, TypeOK, Unstored
  <1> QED
    BY <1>1, <1>2, <1>3, <1>4, <1>5, <1>6 DEF IInv

(* A step of the clock, or a stuttering step, changes no row.              *)
LEMMA RowsKept ==
  ASSUME IInv, UNCHANGED <<rowVars, outcomeVars>>, now' \in Nat
  PROVE  IInv'
  BY DEF IInv, TypeOK, HolderIsLatest, NeverStranded, OneResult, LegacyMirrors,
         Unstored, rowVars, outcomeVars

(* Every call of an attempt keeps the invariant, whatever its stamp.       *)
LEMMA CallInvariant ==
  ASSUME IInv, NEW j \in Jobs, NEW a \in 1..attemptCount[j], AttemptCall(j, a)
  PROVE  IInv'
  <1>1. a \in Nat /\ claimedAt[j] \in Nat
    BY DEF IInv, TypeOK
  <1>2. PICK stamp \in Stamps(claimedAt[j]) :
          \/ HeartbeatJob(j, a, stamp)
          \/ \E code \in FailureCodes, delay \in RetryDelays :
               FailJob(j, a, stamp, code, delay)
          \/ CompleteExport(j, a, stamp)
          \/ CompleteOCR(j, a, stamp)
    BY DEF AttemptCall
  <1>3. stamp \in Nat
    BY <1>1, StampFacts DEF IInv
  <1> QED
    BY <1>1, <1>2, <1>3, HeartbeatInvariant, FailInvariant, CompleteExportInvariant,
       CompleteOCRInvariant

LEMMA NextInvariant == IInv /\ [Next]_vars => IInv'
  <1> SUFFICES ASSUME IInv, [Next]_vars PROVE IInv'
    OBVIOUS
  <1>1. ASSUME NEW j \in Jobs, Enqueue(j) PROVE IInv'
    BY <1>1, EnqueueInvariant
  <1>2. ASSUME NEW j \in Jobs, CancelQueued(j) PROVE IInv'
    BY <1>2, CancelInvariant
  <1>3. ASSUME NEW stamp \in Stamps(0), NEW claimed \in SUBSET Jobs,
               ClaimJobs(stamp, claimed)
        PROVE  IInv'
    BY <1>3, StampFacts, ClaimInvariant DEF IInv
  <1>4. ASSUME NEW j \in Jobs, NEW a \in 1..attemptCount[j], AttemptCall(j, a)
        PROVE  IInv'
    BY <1>4, CallInvariant
  <1>5. CASE Tick
    BY <1>5, RowsKept DEF Tick, IInv, TypeOK
  <1>6. CASE UNCHANGED vars
    BY <1>6, RowsKept DEF vars, IInv, TypeOK
  <1> QED
    BY <1>1, <1>2, <1>3, <1>4, <1>5, <1>6 DEF Next

-----------------------------------------------------------------------------
LEMMA Invariance == Spec => []IInv
  BY InitInvariant, NextInvariant, PTL DEF Spec

(* Every row always has the shape its columns can hold.                    *)
THEOREM TypeCorrect == Spec => []TypeOK
  <1>1. IInv => TypeOK
    BY DEF IInv
  <1> QED
    BY <1>1, Invariance, PTL

(* A job is held exactly while it runs, and only by its latest attempt: a  *)
(* displaced attempt never holds it again.                                 *)
THEOREM LatestHolds == Spec => []HolderIsLatest
  <1>1. IInv => HolderIsLatest
    BY DEF IInv
  <1> QED
    BY <1>1, Invariance, PTL

(* No job is begun more often than its limit, and no waiting job is left   *)
(* without an attempt, which no claim would ever pick up.                  *)
THEOREM NoneStranded == Spec => []NeverStranded
  <1>1. IInv => NeverStranded
    BY DEF IInv
  <1> QED
    BY <1>1, Invariance, PTL

(* Exactly-once completion: one result per completed job, from the latest  *)
(* attempt, and one artifact row per completed export.                     *)
THEOREM ExactlyOnce == Spec => []OneResult
  <1>1. IInv => OneResult
    BY DEF IInv
  <1> QED
    BY <1>1, Invariance, PTL

(* The mirrored export_jobs row always agrees with its durable job.        *)
THEOREM HistoryAgrees == Spec => []LegacyMirrors
  <1>1. IInv => LegacyMirrors
    BY DEF IInv
  <1> QED
    BY <1>1, Invariance, PTL

-----------------------------------------------------------------------------
(* No claim takes a job from an attempt whose lease still runs, although   *)
(* it decides by an old reading of the clock.                              *)
THEOREM LeaseRespected == Spec => NoStolenLease
  <1> DEFINE Respected == \A j \in Jobs :
               status[j] = "Running" /\ attemptCount'[j] # attemptCount[j]
                 => leaseExpires[j] <= now
  <1>1. ASSUME IInv, [Next]_vars PROVE Respected
    <2>1. ASSUME NEW stamp \in Stamps(0), NEW claimed \in SUBSET Jobs,
                 ClaimJobs(stamp, claimed)
          PROVE  Respected
      <3>1. stamp \in Nat /\ stamp <= now
        BY <1>1, StampFacts DEF IInv
      <3> QED
        BY <1>1, <2>1, <3>1, ClaimCases DEF IInv, TypeOK
    <2>2. ASSUME UNCHANGED attemptCount PROVE Respected
      BY <2>2
    <2>3. ASSUME NEW j \in Jobs, Enqueue(j) \/ CancelQueued(j) PROVE UNCHANGED attemptCount
      BY <2>3 DEF Enqueue, CancelQueued
    <2>4. ASSUME NEW j \in Jobs, NEW a \in 1..attemptCount[j], AttemptCall(j, a)
          PROVE  UNCHANGED attemptCount
      BY <2>4 DEF AttemptCall, HeartbeatJob, FailJob, CompleteExport, CompleteOCR, Finish
    <2>5. ASSUME Tick \/ UNCHANGED vars PROVE UNCHANGED attemptCount
      BY <2>5 DEF Tick, vars, rowVars
    <2> QED
      BY <1>1, <2>1, <2>2, <2>3, <2>4, <2>5 DEF Next
  <1> QED
    BY <1>1, Invariance, PTL DEF Spec, NoStolenLease

-----------------------------------------------------------------------------
(* The store implements the life cycle, job by job.                        *)
LEMMA LifeInit == Init => \A j \in Jobs : Life(j)!Init
  BY DEF Init, Life!Init

LEMMA LifeOfClaim ==
  ASSUME IInv, NEW stamp \in Nat, NEW claimed \in SUBSET Jobs,
         ClaimJobs(stamp, claimed), NEW k \in Jobs
  PROVE  [Life(k)!Next]_(Life(k)!vars)
  <1>1. UNCHANGED result
    BY DEF ClaimJobs
  <1> QED
    BY <1>1, ClaimCases DEF Life!Next, Life!Begin, Life!GiveUp, Life!vars

LEMMA LifeOfCall ==
  ASSUME IInv, NEW j \in Jobs, NEW a \in 1..attemptCount[j], AttemptCall(j, a),
         NEW k \in Jobs
  PROVE  [Life(k)!Next]_(Life(k)!vars)
  <1>0. a \in Nat /\ claimedAt[j] \in Nat
    BY DEF IInv, TypeOK
  <1>1. ASSUME NEW stamp \in Nat, HeartbeatJob(j, a, stamp)
        PROVE  UNCHANGED Life(k)!vars
    BY <1>1 DEF HeartbeatJob, outcomeVars, Life!vars
  <1>2. ASSUME NEW stamp \in Nat, NEW code \in FailureCodes, NEW delay \in RetryDelays,
               FailJob(j, a, stamp, code, delay)
        PROVE  Life(k)!Retry \/ Life(k)!GiveUp \/ UNCHANGED Life(k)!vars
    BY <1>2 DEF FailJob, Retryable, HoldsLease, IInv, TypeOK, Life!Retry, Life!GiveUp, Life!vars
  <1>3. ASSUME NEW stamp \in Nat, HoldsLease(j, a, stamp), Finish(j, a)
        PROVE  Life(k)!Succeed \/ UNCHANGED Life(k)!vars
    <2>1. a = attemptCount[j] /\ status[j] = "Running"
      BY <1>0, <1>3, HolderFacts DEF HoldsLease
    <2> QED
      BY <1>3, <2>1 DEF Finish, IInv, TypeOK, Life!Succeed, Life!vars
  <1>4. PICK stamp \in Stamps(claimedAt[j]) :
          \/ HeartbeatJob(j, a, stamp)
          \/ \E code \in FailureCodes, delay \in RetryDelays :
               FailJob(j, a, stamp, code, delay)
          \/ HoldsLease(j, a, stamp) /\ Finish(j, a)
    BY DEF AttemptCall, CompleteExport, CompleteOCR
  <1>5. stamp \in Nat
    BY <1>0, StampFacts DEF IInv
  <1> QED
    BY <1>1, <1>2, <1>3, <1>4, <1>5 DEF Life!Next

LEMMA LifeStep ==
  ASSUME IInv, [Next]_vars, NEW k \in Jobs
  PROVE  [Life(k)!Next]_(Life(k)!vars)
  <1>1. ASSUME NEW j \in Jobs, Enqueue(j) PROVE Life(k)!Submit \/ UNCHANGED Life(k)!vars
    BY <1>1 DEF Enqueue, IInv, TypeOK, Life!Submit, Life!vars
  <1>2. ASSUME NEW j \in Jobs, CancelQueued(j) PROVE Life(k)!Withdraw \/ UNCHANGED Life(k)!vars
    BY <1>2 DEF CancelQueued, outcomeVars, IInv, TypeOK, Life!Withdraw, Life!vars
  <1>3. ASSUME NEW stamp \in Stamps(0), NEW claimed \in SUBSET Jobs,
               ClaimJobs(stamp, claimed)
        PROVE  [Life(k)!Next]_(Life(k)!vars)
    BY <1>3, StampFacts, LifeOfClaim DEF IInv
  <1>4. ASSUME NEW j \in Jobs, NEW a \in 1..attemptCount[j], AttemptCall(j, a)
        PROVE  [Life(k)!Next]_(Life(k)!vars)
    BY <1>4, LifeOfCall
  <1>5. ASSUME Tick \/ UNCHANGED vars PROVE UNCHANGED Life(k)!vars
    BY <1>5 DEF Tick, vars, rowVars, outcomeVars, Life!vars
  <1> QED
    BY <1>1, <1>2, <1>3, <1>4, <1>5 DEF Next, Life!Next

THEOREM LifecycleOfEveryJob == Spec => Lifecycles
  <1> DEFINE Step == \A j \in Jobs : [Life(j)!Next]_(Life(j)!vars)
  <1>1. IInv /\ [Next]_vars => Step
    BY LifeStep
  <1>2. IInv /\ [Next]_vars => [Step]_vars
    BY <1>1
  <1> QED
    BY <1>2, LifeInit, Invariance, PTL DEF Spec, Lifecycles

(* The same, as the implementation of the abstract module for one job.     *)
THEOREM Implements == ASSUME NEW j \in Jobs PROVE Spec => Life(j)!Spec
  <1>1. Init => Life(j)!Init
    BY LifeInit
  <1>2. IInv /\ [Next]_vars => [Life(j)!Next]_(Life(j)!vars)
    BY LifeStep
  <1> QED
    BY <1>1, <1>2, Invariance, PTL DEF Spec, Life!Spec

-----------------------------------------------------------------------------
(***************************************************************************)
(* The workers and the upload handler.  Every step they take is a step of  *)
(* the store, so IInv holds; ArtifactStored and AttemptsApart need the     *)
(* protocol around it: an attempt is uploaded once, after which nobody     *)
(* prepares it any more, and while its upload is under way it is not what  *)
(* is published.  So the object that a handler deletes on its way out is   *)
(* never the one an artifact row names -- unless the COMMIT was lost.      *)
(***************************************************************************)
WorkerRow ==
  [pc : {"idle", "beat", "read", "upload", "waiting", "failing"},
   job : ExportJobs \cup {NoJob}, attempt : Nat, pages : Nat, beats : Nat,
   code : FailureCodes \cup {"none"}]
UploadRow == [job : ExportJobs, attempt : Nat, stamp : Nat, stored : BOOLEAN]
ExportTypeOK ==
  /\ worker \in [Workers -> WorkerRow]
  /\ uploads \subseteq UploadRow
  /\ objects \subseteq {ObjectKey(j, a) : j \in ExportJobs, a \in Nat}

(* Upload u is of the attempt that process w works on.                     *)
Of(u, w) == u.job = worker[w].job /\ u.attempt = worker[w].attempt

(* The file of process w is not under way yet.                             *)
Preparing(w) == worker[w].pc \in {"beat", "read", "upload"}

ClaimedByNow == \A j \in Jobs : claimedAt[j] <= now

(* An attempt in hand was begun, and a report has a code of the contract.  *)
InHand == \A w \in Workers : Busy(w) =>
  /\ worker[w].job \in ExportJobs
  /\ worker[w].attempt \in 1..attemptCount[worker[w].job]
  /\ worker[w].pc = "failing" => worker[w].code \in FailureCodes

(* An upload is younger than MaxLag, and no older than its attempt as long *)
(* as that is the latest.                                                  *)
UploadsTimely == \A u \in uploads :
  /\ u.attempt \in 1..attemptCount[u.job]
  /\ u.stamp <= now /\ now <= u.stamp + MaxLag
  /\ u.attempt = attemptCount[u.job] => claimedAt[u.job] <= u.stamp

(* An attempt is uploaded once ...                                         *)
OneUpload == \A u, v \in uploads : u.job = v.job /\ u.attempt = v.attempt => u = v

(* ... and before that there is nothing of it.                             *)
Unsent == \A w \in Workers : Preparing(w) =>
  /\ artifact[worker[w].job] # worker[w].attempt
  /\ \A u \in uploads : ~Of(u, w)

(* What is under way is not published, and what is stored is there.        *)
UploadsOpen == \A u \in uploads :
  /\ artifact[u.job] # u.attempt
  /\ u.stored => ObjectKey(u.job, u.attempt) \in objects

Protocol ==
  /\ ExportTypeOK
  /\ ClaimedByNow
  /\ InHand
  /\ AttemptsApart
  /\ UploadsTimely
  /\ OneUpload
  /\ Unsent
  /\ UploadsOpen
  /\ CommitMayBeLost \/ ArtifactStored

PInv == IInv /\ Protocol
-----------------------------------------------------------------------------
LEMMA IdleRow == Idle \in WorkerRow /\ Idle.pc = "idle"
  BY DEF Idle, WorkerRow

LEMMA ProtocolInit == ExportInit => PInv
  <1> SUFFICES ASSUME ExportInit PROVE PInv
    OBVIOUS
  <1>1. IInv
    BY InitInvariant DEF ExportInit
  <1>2. /\ \A w \in Workers : worker[w] = Idle
        /\ uploads = {} /\ objects = {}
        /\ now = 0
        /\ \A j \in Jobs : claimedAt[j] = 0 /\ artifact[j] = 0
    BY DEF ExportInit, Init
  <1>3. ExportTypeOK
    BY IdleRow DEF ExportInit, ExportTypeOK
  <1>4. InHand /\ AttemptsApart /\ Unsent
    BY <1>2, IdleRow DEF InHand, AttemptsApart, Unsent, Busy, Preparing
  <1>5. ClaimedByNow /\ UploadsTimely /\ OneUpload /\ UploadsOpen /\ ArtifactStored
    BY <1>2, JobsAssumption
       DEF ClaimedByNow, UploadsTimely, OneUpload, UploadsOpen, ArtifactStored
  <1> QED
    BY <1>1, <1>3, <1>4, <1>5 DEF PInv, Protocol

(* The clock as it is may be the stamp of any attempt.                     *)
LEMMA NowIsStamp ==
  ASSUME PInv, NEW j \in Jobs
  PROVE  now \in Stamps(0) /\ now \in Stamps(claimedAt[j])
  BY TimesAssumption DEF PInv, IInv, TypeOK, Protocol, ClaimedByNow, Stamps

-----------------------------------------------------------------------------
(* Whatever the processes and handlers do is a step of the store, or none. *)
LEMMA CallOfWorker ==
  ASSUME PInv, NEW w \in Workers, Busy(w),
         \/ HeartbeatJob(worker[w].job, worker[w].attempt, now)
         \/ \E delay \in RetryDelays :
              /\ worker[w].pc = "failing"
              /\ FailJob(worker[w].job, worker[w].attempt, now, worker[w].code, delay)
  PROVE  Next
  <1> DEFINE j == worker[w].job
             a == worker[w].attempt
  <1>1. j \in Jobs /\ a \in 1..attemptCount[j]
    BY JobsAssumption DEF PInv, Protocol, InHand
  <1>2. now \in Stamps(claimedAt[j])
    BY <1>1, NowIsStamp
  <1>3. AttemptCall(j, a)
    BY <1>2 DEF AttemptCall, PInv, Protocol, InHand
  <1> QED
    BY <1>1, <1>3 DEF Next

LEMMA WorkerUsesStore ==
  ASSUME PInv, NEW w \in Workers, WorkerStep(w)
  PROVE  [Next]_vars
  <1>1. Busy(w)
    BY DEF WorkerStep, PrepareFails, PageHeartbeat, ReadPage, StartUpload,
           BackgroundHeartbeat, UploadTimeout, ReportFailure, WorkerDies, Busy
  <1>2. CASE PageHeartbeat(w) \/ BackgroundHeartbeat(w)
    BY <1>1, <1>2, CallOfWorker DEF PageHeartbeat, BackgroundHeartbeat
  <1>3. CASE ReportFailure(w)
    BY <1>1, <1>3, CallOfWorker DEF ReportFailure
  <1>4. CASE \/ PrepareFails(w) \/ ReadPage(w) \/ StartUpload(w)
             \/ UploadTimeout(w) \/ WorkerDies(w)
    BY <1>4 DEF PrepareFails, ReadPage, StartUpload, UploadTimeout, WorkerDies
  <1> QED
    BY <1>2, <1>3, <1>4 DEF WorkerStep

(* A result that is accepted is that of the latest attempt, in time.       *)
LEMMA PublicationUsesStore ==
  ASSUME PInv, NEW u \in uploads, PublishArtifact(u)
  PROVE  /\ Next
         /\ u.attempt = attemptCount[u.job]
  <1>1. u \in UploadRow /\ u.job \in Jobs /\ u.attempt \in Nat /\ u.stamp \in Nat
    BY JobsAssumption DEF PInv, Protocol, ExportTypeOK, UploadRow
  <1>2. CompleteExport(u.job, u.attempt, u.stamp)
    BY DEF PublishArtifact
  <1>3. u.attempt = attemptCount[u.job]
    BY <1>1, <1>2, HolderFacts DEF CompleteExport, PInv
  <1>4. u.stamp \in Stamps(claimedAt[u.job]) /\ u.attempt \in 1..attemptCount[u.job]
    BY <1>1, <1>3 DEF PInv, Protocol, UploadsTimely, Stamps, IInv, TypeOK
  <1>5. AttemptCall(u.job, u.attempt)
    BY <1>2, <1>4 DEF AttemptCall
  <1> QED
    BY <1>1, <1>3, <1>4, <1>5 DEF Next

LEMMA UsesStore == PInv /\ [ExportNext]_exportVars => [Next]_vars
  <1> SUFFICES ASSUME PInv, [ExportNext]_exportVars PROVE [Next]_vars
    OBVIOUS
  <1>1. ASSUME NEW j \in ExportJobs, Request(j) PROVE Next
    BY <1>1, JobsAssumption DEF Request, Next
  <1>2. ASSUME NEW w \in Workers, Claim(w) PROVE Next
    <2>1. PICK claimed \in SUBSET ExportJobs : ClaimJobs(now, claimed)
      BY <1>2 DEF Claim
    <2>2. claimed \in SUBSET Jobs /\ now \in Stamps(0)
      BY JobsAssumption, TimesAssumption DEF PInv, IInv, TypeOK, Stamps
    <2> QED
      BY <2>1, <2>2 DEF Next
  <1>3. ASSUME NEW w \in Workers, WorkerStep(w) PROVE [Next]_vars
    BY <1>3, WorkerUsesStore
  <1>4. ASSUME NEW u \in uploads, HandlerStep(u) PROVE [Next]_vars
    BY <1>4, PublicationUsesStore DEF HandlerStep, StoreObject, RefuseArtifact, UploadDies
  <1>5. CASE Clock
    BY <1>5 DEF Clock, Next
  <1>6. CASE UNCHANGED exportVars
    BY <1>6 DEF exportVars
  <1> QED
    BY <1>1, <1>2, <1>3, <1>4, <1>5, <1>6 DEF ExportNext

-----------------------------------------------------------------------------
(* Part of the store that the protocol looks at.                           *)
seen == <<now, attemptCount, claimedAt, artifact>>

LEMMA RowOf ==
  ASSUME PInv, NEW w \in Workers
  PROVE  worker[w] \in WorkerRow
  BY DEF PInv, Protocol, ExportTypeOK

(* A process goes on with its attempt, or is done with it.                 *)
LEMMA OwnStep ==
  ASSUME PInv, NEW w \in Workers, Busy(w), NEW new \in WorkerRow,
         worker' = [worker EXCEPT ![w] = new],
         \/ new.pc = "idle"
         \/ /\ new.job = worker[w].job /\ new.attempt = worker[w].attempt
            /\ new.pc = "failing" => new.code \in FailureCodes
            /\ new.pc \in {"beat", "read", "upload"} => Preparing(w),
         UNCHANGED <<seen, uploads, objects>>
  PROVE  Protocol'
  <1> USE DEF seen
  <1>1. /\ worker'[w] = new
        /\ \A v \in Workers \ {w} : worker'[v] = worker[v]
    BY DEF PInv, Protocol, ExportTypeOK
  <1>2. ExportTypeOK'
    BY DEF PInv, Protocol, ExportTypeOK
  <1>3. InHand'
    BY <1>1 DEF PInv, Protocol, InHand, Busy
  <1>4. AttemptsApart'
    BY <1>1 DEF PInv, Protocol, AttemptsApart, Busy
  <1>5. Unsent'
    BY <1>1 DEF PInv, Protocol, Unsent, Preparing, Of
  <1>6. ClaimedByNow' /\ UploadsTimely' /\ OneUpload' /\ UploadsOpen'
    BY DEF PInv, Protocol, ClaimedByNow, UploadsTimely, OneUpload, UploadsOpen
  <1>7. (CommitMayBeLost \/ ArtifactStored)'
    BY DEF PInv, Protocol, ArtifactStored
  <1> QED
    BY <1>2, <1>3, <1>4, <1>5, <1>6, <1>7 DEF Protocol

LEMMA StopStep ==
  ASSUME PInv, NEW w \in Workers, Busy(w), Stop(w), UNCHANGED <<seen, uploads, objects>>
  PROVE  Protocol'
  BY IdleRow, OwnStep DEF Stop

LEMMA GoStep ==
  ASSUME PInv, NEW w \in Workers, Busy(w), NEW pc \in {"read", "upload", "waiting"}, Go(w, pc),
         pc # "waiting" => Preparing(w),
         UNCHANGED <<seen, uploads, objects>>
  PROVE  Protocol'
  <1> DEFINE new == [worker[w] EXCEPT !.pc = pc]
  <1>1. new \in WorkerRow /\ new.pc = pc /\ new.job = worker[w].job
        /\ new.attempt = worker[w].attempt
    BY RowOf DEF WorkerRow
  <1>2. worker' = [worker EXCEPT ![w] = new]
    BY DEF Go
  <1> HIDE DEF new
  <1> QED
    BY <1>1, <1>2, OwnStep

LEMMA ReportStep ==
  ASSUME PInv, NEW w \in Workers, Busy(w), NEW code \in FailureCodes, Report(w, code),
         UNCHANGED <<seen, uploads, objects>>
  PROVE  Protocol'
  <1> DEFINE new == [worker[w] EXCEPT !.pc = "failing", !.code = code]
  <1>1. new \in WorkerRow /\ new.pc = "failing" /\ new.job = worker[w].job
        /\ new.attempt = worker[w].attempt /\ new.code = code
    BY RowOf DEF WorkerRow
  <1>2. worker' = [worker EXCEPT ![w] = new]
    BY DEF Report
  <1> HIDE DEF new
  <1> QED
    BY <1>1, <1>2, OwnStep

LEMMA CountStep ==
  ASSUME PInv, NEW w \in Workers, Busy(w), UNCHANGED <<seen, uploads, objects>>,
         \/ worker' = [worker EXCEPT ![w].beats = @ + 1]
         \/ Preparing(w) /\ worker' = [worker EXCEPT ![w].pc = "beat", ![w].pages = @ + 1]
  PROVE  Protocol'
  <1>1. CASE worker' = [worker EXCEPT ![w].beats = @ + 1]
    <2> DEFINE new == [worker[w] EXCEPT !.beats = @ + 1]
    <2>1. new \in WorkerRow /\ new.pc = worker[w].pc /\ new.job = worker[w].job
          /\ new.attempt = worker[w].attempt /\ new.code = worker[w].code
      BY RowOf DEF WorkerRow
    <2>2. worker' = [worker EXCEPT ![w] = new]
      BY <1>1
    <2> HIDE DEF new
    <2>3. new.pc = "failing" => new.code \in FailureCodes
      BY <2>1 DEF PInv, Protocol, InHand
    <2>4. new.pc \in {"beat", "read", "upload"} => Preparing(w)
      BY <2>1 DEF Preparing
    <2> QED
      BY <2>1, <2>2, <2>3, <2>4, OwnStep
  <1>2. CASE Preparing(w) /\ worker' = [worker EXCEPT ![w].pc = "beat", ![w].pages = @ + 1]
    <2> DEFINE new == [pc |-> "beat", job |-> worker[w].job, attempt |-> worker[w].attempt,
                       pages |-> worker[w].pages + 1, beats |-> worker[w].beats,
                       code |-> worker[w].code]
    <2>1. worker[w] \in WorkerRow
      BY RowOf
    <2>2. new \in WorkerRow /\ new.pc = "beat" /\ new.job = worker[w].job
          /\ new.attempt = worker[w].attempt
      BY <2>1 DEF WorkerRow
    <2>3. worker' = [worker EXCEPT ![w] = new]
      <3>1. worker'[w] = new
        BY <1>2, <2>1 DEF PInv, Protocol, ExportTypeOK, WorkerRow
      <3>2. worker' = [worker EXCEPT ![w] = worker'[w]]
        BY <1>2 DEF PInv, Protocol, ExportTypeOK
      <3> QED
        BY <3>1, <3>2
    <2> HIDE DEF new
    <2> QED
      BY <1>2, <2>2, <2>3, OwnStep
  <1> QED
    BY <1>1, <1>2

(* The PUT of an attempt begins, once.                                     *)
LEMMA StartUploadStep ==
  ASSUME PInv, NEW w \in Workers, StartUpload(w)
  PROVE  Protocol'
  <1>1. Busy(w) /\ Preparing(w) /\ UNCHANGED seen /\ UNCHANGED objects
    BY DEF StartUpload, Busy, Preparing, seen, vars, rowVars, outcomeVars
  <1>2. CASE Report(w, "artifact_upload_failed") /\ UNCHANGED uploads
    BY <1>1, <1>2, ReportStep DEF FailureCodes, TransientCodes
  <1> DEFINE u == [job |-> worker[w].job, attempt |-> worker[w].attempt, stamp |-> now,
                   stored |-> FALSE]
             new == [worker[w] EXCEPT !.pc = "waiting"]
  <1>3. CASE Go(w, "waiting") /\ uploads' = uploads \cup {u}
    <2>1. new \in WorkerRow /\ new.pc = "waiting" /\ new.job = worker[w].job
          /\ new.attempt = worker[w].attempt
      BY RowOf DEF WorkerRow
    <2>2. /\ u.job = worker[w].job /\ u.attempt = worker[w].attempt
          /\ u.stamp = now /\ u.stored = FALSE /\ u \in UploadRow
      BY <1>1, RowOf DEF PInv, Protocol, InHand, IInv, TypeOK, UploadRow, WorkerRow
    <2>3. worker' = [worker EXCEPT ![w] = new]
      BY <1>3 DEF Go
    <2> HIDE DEF new, u
    <2>4. worker'[w] = new /\ \A v \in Workers \ {w} : worker'[v] = worker[v]
      BY <2>3 DEF PInv, Protocol, ExportTypeOK
    <2>5. ExportTypeOK'
      BY <1>1, <1>3, <2>1, <2>2, <2>3 DEF PInv, Protocol, ExportTypeOK
    <2>6. InHand' /\ AttemptsApart'
      BY <1>1, <2>1, <2>4 DEF PInv, Protocol, InHand, AttemptsApart, Busy, seen
    <2>7. UploadsTimely'
      <3>1. u.attempt \in 1..attemptCount[u.job] /\ claimedAt[u.job] <= now /\ now <= now + MaxLag
        BY <1>1, <2>2, JobsAssumption, TimesAssumption
           DEF PInv, Protocol, InHand, ClaimedByNow, IInv, TypeOK
      <3> QED
        BY <1>1, <1>3, <2>2, <3>1 DEF PInv, Protocol, UploadsTimely, seen, IInv, TypeOK
    <2>8. OneUpload'
      BY <1>1, <1>3, <2>2 DEF PInv, Protocol, OneUpload, Unsent, Of
    <2>9. Unsent'
      <3>1. \A v \in Workers \ {w} : Preparing(v) => ~Of(u, v)
        BY <1>1, <2>2 DEF PInv, Protocol, AttemptsApart, Preparing, Of, Busy
      <3> QED
        BY <1>1, <1>3, <2>1, <2>4, <3>1
           DEF PInv, Protocol, Unsent, Preparing, Of, seen
    <2>10. UploadsOpen'
      BY <1>1, <1>3, <2>2 DEF PInv, Protocol, UploadsOpen, Unsent, seen
    <2>11. ClaimedByNow' /\ (CommitMayBeLost \/ ArtifactStored)'
      BY <1>1 DEF PInv, Protocol, ClaimedByNow, ArtifactStored, seen
    <2> QED
      BY <2>5, <2>6, <2>7, <2>8, <2>9, <2>10, <2>11 DEF Protocol
  <1> QED
    BY <1>2, <1>3 DEF StartUpload

LEMMA WorkerProtocol ==
  ASSUME PInv, NEW w \in Workers, WorkerStep(w)
  PROVE  Protocol'
  <1>1. Busy(w)
    BY DEF WorkerStep, PrepareFails, PageHeartbeat, ReadPage, StartUpload,
           BackgroundHeartbeat, UploadTimeout, ReportFailure, WorkerDies, Busy
  <1>2. ASSUME UNCHANGED vars PROVE UNCHANGED seen
    BY <1>2 DEF vars, rowVars, outcomeVars, seen
  <1>3. ASSUME NEW j, NEW a, HeartbeatJob(j, a, now) PROVE UNCHANGED seen
    BY <1>3 DEF HeartbeatJob, outcomeVars, seen
  <1>4. ASSUME NEW j, NEW a, NEW code, NEW delay, FailJob(j, a, now, code, delay)
        PROVE  UNCHANGED seen
    BY <1>4 DEF FailJob, outcomeVars, seen
  <1>5. CASE PrepareFails(w)
    BY <1>1, <1>2, <1>5, ReportStep DEF PrepareFails, FailureCodes, TransientCodes
  <1>6. CASE PageHeartbeat(w)
    BY <1>1, <1>2, <1>3, <1>6, GoStep, StopStep DEF PageHeartbeat, Preparing
  <1>7. CASE ReadPage(w)
    BY <1>1, <1>2, <1>7, GoStep, CountStep, ReportStep
       DEF ReadPage, Preparing, FailureCodes, TransientCodes
  <1>8. CASE BackgroundHeartbeat(w)
    BY <1>1, <1>2, <1>3, <1>8, CountStep, StopStep DEF BackgroundHeartbeat
  <1>9. CASE UploadTimeout(w)
    BY <1>1, <1>2, <1>9, ReportStep DEF UploadTimeout, FailureCodes, TransientCodes
  <1>10. CASE ReportFailure(w)
    BY <1>1, <1>2, <1>4, <1>10, StopStep DEF ReportFailure
  <1>11. CASE WorkerDies(w)
    BY <1>1, <1>2, <1>11, StopStep DEF WorkerDies
  <1> QED
    BY <1>5, <1>6, <1>7, <1>8, <1>9, <1>10, <1>11, StartUploadStep DEF WorkerStep

-----------------------------------------------------------------------------
(* A claim begins the next attempt of each job that it hands out.          *)
LEMMA ClaimSeen ==
  ASSUME PInv, NEW claimed \in SUBSET ExportJobs, ClaimJobs(now, claimed)
  PROVE  /\ UNCHANGED <<now, artifact>>
         /\ \A j \in Jobs : attemptCount[j] \in Nat /\ attemptCount'[j] \in Nat
         /\ \A j \in claimed : attemptCount'[j] = attemptCount[j] + 1
         /\ \A j \in Jobs :
              \/ attemptCount'[j] = attemptCount[j] /\ claimedAt'[j] = claimedAt[j]
              \/ attemptCount'[j] = attemptCount[j] + 1 /\ claimedAt'[j] = now
  BY JobsAssumption DEF ClaimJobs, NextAttempt, PInv, IInv, TypeOK

LEMMA ClaimProtocol ==
  ASSUME PInv, NEW w \in Workers, Claim(w)
  PROVE  Protocol'
  <1>1. PICK claimed \in SUBSET ExportJobs :
          /\ ClaimJobs(now, claimed)
          /\ \/ worker' = worker
             \/ \E j \in claimed :
                  worker' = [worker EXCEPT ![w] =
                    [Idle EXCEPT !.pc = "beat", !.job = j, !.attempt = attemptCount[j] + 1]]
    BY DEF Claim
  <1>2. UNCHANGED <<uploads, objects>> /\ ~Busy(w)
    BY DEF Claim
  <1>3. /\ UNCHANGED <<now, artifact>>
        /\ \A j \in Jobs : attemptCount[j] \in Nat /\ attemptCount'[j] \in Nat
        /\ \A j \in claimed : attemptCount'[j] = attemptCount[j] + 1
        /\ \A j \in Jobs :
             \/ attemptCount'[j] = attemptCount[j] /\ claimedAt'[j] = claimedAt[j]
             \/ attemptCount'[j] = attemptCount[j] + 1 /\ claimedAt'[j] = now
    BY <1>1, ClaimSeen
  <1>4. ClaimedByNow'
    BY <1>3 DEF PInv, IInv, TypeOK, Protocol, ClaimedByNow
  <1>5. UploadsTimely'
    <2> SUFFICES ASSUME NEW u \in uploads
                 PROVE  /\ u.attempt \in 1..attemptCount'[u.job]
                        /\ u.attempt = attemptCount'[u.job] => claimedAt'[u.job] <= u.stamp
      BY <1>2, <1>3 DEF PInv, Protocol, UploadsTimely
    <2>1. u.job \in Jobs /\ u.attempt \in 1..attemptCount[u.job]
          /\ (u.attempt = attemptCount[u.job] => claimedAt[u.job] <= u.stamp)
      BY JobsAssumption DEF PInv, Protocol, ExportTypeOK, UploadRow, UploadsTimely
    <2> QED
      BY <1>3, <2>1
  <1>6. OneUpload' /\ UploadsOpen' /\ (CommitMayBeLost \/ ArtifactStored)'
    BY <1>2, <1>3 DEF PInv, Protocol, OneUpload, UploadsOpen, ArtifactStored
  <1>7. \A v \in Workers : Busy(v) =>
          /\ worker[v].job \in ExportJobs
          /\ worker[v].attempt \in 1..attemptCount[worker[v].job]
          /\ worker[v].attempt \in 1..attemptCount'[worker[v].job]
    BY <1>3, JobsAssumption DEF PInv, Protocol, InHand
  <1>8. CASE worker' = worker
    <2>1. ExportTypeOK' /\ Unsent'
      BY <1>2, <1>3, <1>8 DEF PInv, Protocol, ExportTypeOK, Unsent, Preparing, Of
    <2>2. InHand' /\ AttemptsApart'
      BY <1>3, <1>7, <1>8 DEF PInv, Protocol, InHand, AttemptsApart, Busy
    <2> QED
      BY <1>4, <1>5, <1>6, <2>1, <2>2 DEF Protocol
  <1>9. ASSUME NEW j \in claimed,
               worker' = [worker EXCEPT ![w] =
                 [Idle EXCEPT !.pc = "beat", !.job = j, !.attempt = attemptCount[j] + 1]]
        PROVE  Protocol'
    <2> DEFINE new == [Idle EXCEPT !.pc = "beat", !.job = j, !.attempt = attemptCount[j] + 1]
    <2>1. j \in ExportJobs /\ j \in Jobs
      BY JobsAssumption
    <2>2. new \in WorkerRow /\ new.pc = "beat" /\ new.job = j
          /\ new.attempt = attemptCount[j] + 1
      BY <1>3, <2>1 DEF Idle, WorkerRow
    <2> HIDE DEF new
    <2>3. worker' = [worker EXCEPT ![w] = new]
      BY <1>9 DEF new
    <2>4. worker'[w] = new /\ \A v \in Workers \ {w} : worker'[v] = worker[v]
      BY <2>3 DEF PInv, Protocol, ExportTypeOK
    <2>5. ExportTypeOK'
      BY <1>2, <2>2, <2>3 DEF PInv, Protocol, ExportTypeOK
    <2>6. InHand'
      BY <1>3, <1>7, <2>1, <2>2, <2>4 DEF PInv, Protocol, InHand, Busy
    <2>7. AttemptsApart'
      <3>1. \A v \in Workers \ {w} : Busy(v) /\ worker[v].job = j => worker[v].attempt # new.attempt
        BY <1>3, <1>7, <2>1, <2>2
      <3>2. \A v \in Workers : Busy(v)' => worker'[v].attempt <= attemptCount'[worker'[v].job]
        BY <1>3, <1>7, <2>1, <2>2, <2>4 DEF Busy
      <3> QED
        BY <2>2, <2>4, <3>1, <3>2 DEF PInv, Protocol, AttemptsApart, Busy
    <2>8. Unsent'
      <3>1. artifact[j] # attemptCount[j] + 1
        BY <1>3, <2>1 DEF PInv, IInv, OneResult
      <3>2. \A u \in uploads : u.job = j => u.attempt # attemptCount[j] + 1
        BY <1>3, <2>1 DEF PInv, Protocol, UploadsTimely
      <3> QED
        BY <1>2, <1>3, <2>2, <2>4, <3>1, <3>2 DEF PInv, Protocol, Unsent, Preparing, Of
    <2> QED
      BY <1>4, <1>5, <1>6, <2>5, <2>6, <2>7, <2>8 DEF Protocol
  <1> QED
    BY <1>1, <1>8, <1>9

-----------------------------------------------------------------------------
(* A step of the store that the protocol does not see.                     *)
LEMMA UnseenStep ==
  ASSUME PInv, UNCHANGED <<attemptCount, claimedAt, artifact, protocolVars>>,
         now' \in Nat, now <= now',
         \A u \in uploads : now' <= u.stamp + MaxLag
  PROVE  Protocol'
  <1> USE DEF protocolVars
  <1>1. ExportTypeOK' /\ InHand' /\ AttemptsApart' /\ OneUpload' /\ Unsent' /\ UploadsOpen'
    BY DEF PInv, Protocol, ExportTypeOK, InHand, AttemptsApart, OneUpload, Unsent,
           UploadsOpen, Busy, Preparing, Of
  <1>2. ClaimedByNow'
    BY DEF PInv, IInv, TypeOK, Protocol, ClaimedByNow
  <1>3. UploadsTimely'
    <2> SUFFICES ASSUME NEW u \in uploads PROVE u.stamp <= now'
      BY DEF PInv, Protocol, UploadsTimely
    <2> QED
      BY DEF PInv, IInv, TypeOK, Protocol, UploadsTimely, ExportTypeOK, UploadRow
  <1>4. (CommitMayBeLost \/ ArtifactStored)'
    BY DEF PInv, Protocol, ArtifactStored
  <1> QED
    BY <1>1, <1>2, <1>3, <1>4 DEF Protocol

LEMMA ClockProtocol ==
  ASSUME PInv, Clock
  PROVE  Protocol'
  <1>1. now' = now + 1 /\ now \in Nat
    BY DEF Clock, Tick, PInv, IInv, TypeOK
  <1>2. ASSUME NEW u \in uploads PROVE now' <= u.stamp + MaxLag
    BY <1>1, TimesAssumption DEF Clock, PInv, Protocol, ExportTypeOK, UploadRow
  <1> QED
    BY <1>1, <1>2, UnseenStep DEF Clock, Tick, rowVars, outcomeVars

LEMMA RequestProtocol ==
  ASSUME PInv, NEW j \in ExportJobs, Request(j)
  PROVE  Protocol'
  <1>1. UNCHANGED <<now, attemptCount, claimedAt, artifact, protocolVars>>
    BY DEF Request, Enqueue
  <1> QED
    BY <1>1, UnseenStep DEF PInv, IInv, TypeOK, Protocol, UploadsTimely

-----------------------------------------------------------------------------
(* The handler of an upload is done with it; whoever waits is told.        *)
LEMMA AnswerWorkers ==
  ASSUME PInv, NEW u \in uploads, NEW ok \in BOOLEAN, Answer(u, ok)
  PROVE  /\ worker' \in [Workers -> WorkerRow]
         /\ \A w \in Workers :
              \/ worker'[w] = worker[w]
              \/ worker'[w] = Idle
              \/ /\ worker[w].pc = "waiting" /\ worker'[w].pc = "failing"
                 /\ worker'[w].job = worker[w].job /\ worker'[w].attempt = worker[w].attempt
                 /\ worker'[w].code \in FailureCodes
  <1> DEFINE told(w) == [worker[w] EXCEPT !.pc = "failing", !.code = "artifact_upload_failed"]
  <1>1. \A w \in Workers :
          /\ told(w) \in WorkerRow /\ told(w).pc = "failing" /\ told(w).job = worker[w].job
          /\ told(w).attempt = worker[w].attempt /\ told(w).code \in FailureCodes
    BY RowOf DEF WorkerRow, FailureCodes, TransientCodes
  <1>2. worker' = [w \in Workers |->
          IF worker[w].pc = "waiting" /\ worker[w].job = u.job /\ worker[w].attempt = u.attempt
          THEN IF ok THEN Idle ELSE told(w)
          ELSE worker[w]]
    BY DEF Answer
  <1> HIDE DEF told
  <1> QED
    BY <1>1, <1>2, IdleRow, RowOf

(* The end of an upload: only its own object may go, and only its own      *)
(* attempt may be published.                                               *)
LEMMA AnswerStep ==
  ASSUME PInv, NEW u \in uploads, NEW ok \in BOOLEAN, Answer(u, ok),
         UNCHANGED <<now, attemptCount, claimedAt>>,
         objects' = objects \/ objects' = objects \ {ObjectKey(u.job, u.attempt)},
         \A j \in ExportJobs : \/ artifact'[j] = artifact[j]
                               \/ j = u.job /\ artifact'[j] = u.attempt,
         CommitMayBeLost \/ ArtifactStored'
  PROVE  Protocol'
  <1>1. uploads' = uploads \ {u}
    BY DEF Answer
  <1>2. \A v \in uploads : v.job \in ExportJobs
    BY DEF PInv, Protocol, ExportTypeOK, UploadRow
  <1>3. ExportTypeOK'
    BY <1>1, AnswerWorkers DEF PInv, Protocol, ExportTypeOK
  <1>4. \A w \in Workers : Busy(w)' =>
          /\ Busy(w)
          /\ worker'[w].job = worker[w].job /\ worker'[w].attempt = worker[w].attempt
          /\ worker'[w].pc = "failing" => worker'[w].code \in FailureCodes
          /\ Preparing(w)' => Preparing(w)
    BY AnswerWorkers, IdleRow DEF PInv, Protocol, InHand, Busy, Preparing
  <1>5. InHand'
    BY <1>4 DEF PInv, Protocol, InHand
  <1>6. AttemptsApart'
    BY <1>4 DEF PInv, Protocol, AttemptsApart
  <1>7. Unsent'
    <2> SUFFICES ASSUME NEW w \in Workers, Preparing(w)'
                 PROVE  /\ artifact'[worker'[w].job] # worker'[w].attempt
                        /\ \A v \in uploads' : ~Of(v, w)'
      BY DEF Unsent
    <2>1. /\ Preparing(w) /\ Busy(w)
          /\ worker'[w].job = worker[w].job /\ worker'[w].attempt = worker[w].attempt
      BY <1>4 DEF Preparing, Busy
    <2>2. /\ worker[w].job \in ExportJobs
          /\ artifact[worker[w].job] # worker[w].attempt
          /\ \A v \in uploads : ~(v.job = worker[w].job /\ v.attempt = worker[w].attempt)
      BY <2>1 DEF PInv, Protocol, InHand, Unsent, Of
    <2> QED
      BY <1>1, <2>1, <2>2 DEF Of
  <1>8. UploadsOpen'
    <2> SUFFICES ASSUME NEW v \in uploads, v # u
                 PROVE  /\ artifact'[v.job] # v.attempt
                        /\ v.stored => ObjectKey(v.job, v.attempt) \in objects'
      BY <1>1 DEF UploadsOpen
    <2>1. ~(v.job = u.job /\ v.attempt = u.attempt)
      BY DEF PInv, Protocol, OneUpload
    <2> QED
      BY <1>2, <2>1 DEF PInv, Protocol, UploadsOpen, ObjectKey
  <1>9. ClaimedByNow' /\ UploadsTimely' /\ OneUpload'
    BY <1>1 DEF PInv, Protocol, ClaimedByNow, UploadsTimely, OneUpload
  <1> QED
    BY <1>3, <1>5, <1>6, <1>7, <1>8, <1>9 DEF Protocol

(* The object of an upload under way is nobody's artifact.                 *)
LEMMA DeletionHarmless ==
  ASSUME PInv, NEW u \in uploads, UNCHANGED artifact,
         objects' = objects \/ objects' = objects \ {ObjectKey(u.job, u.attempt)}
  PROVE  CommitMayBeLost \/ ArtifactStored'
  BY DEF PInv, Protocol, UploadsOpen, ArtifactStored, ObjectKey

(* The row of an upload whose object has been put.                         *)
LEMMA StoredRow ==
  ASSUME PInv, NEW u \in uploads, NEW s \in UploadRow,
         s.job = u.job, s.attempt = u.attempt, s.stamp = u.stamp,
         objects' = objects \cup {ObjectKey(u.job, u.attempt)},
         uploads' = (uploads \ {u}) \cup {s},
         UNCHANGED <<vars, worker>>
  PROVE  Protocol'
  <1>1. /\ UNCHANGED <<now, attemptCount, claimedAt, artifact>>
    BY DEF vars, rowVars, outcomeVars
  <1>2. u.job \in ExportJobs /\ u.attempt \in Nat
    BY DEF PInv, Protocol, ExportTypeOK, UploadRow
  <1>3. ExportTypeOK'
    BY <1>2 DEF PInv, Protocol, ExportTypeOK, UploadRow
  <1>4. InHand' /\ AttemptsApart'
    BY <1>1 DEF PInv, Protocol, InHand, AttemptsApart, Busy
  <1>5. OneUpload'
    BY <1>2 DEF PInv, Protocol, OneUpload
  <1>6. Unsent'
    BY <1>1, <1>2 DEF PInv, Protocol, Unsent, Preparing, Of
  <1>7. UploadsOpen'
    BY <1>1, <1>2 DEF PInv, Protocol, UploadsOpen
  <1>8. UploadsTimely' /\ ClaimedByNow'
    BY <1>1, <1>2 DEF PInv, Protocol, UploadsTimely, ClaimedByNow
  <1>9. (CommitMayBeLost \/ ArtifactStored)'
    BY <1>1 DEF PInv, Protocol, ArtifactStored
  <1> QED
    BY <1>3, <1>4, <1>5, <1>6, <1>7, <1>8, <1>9 DEF Protocol

(* What is published is the latest attempt, and its object is there.       *)
LEMMA PublishProtocol ==
  ASSUME PInv, NEW u \in uploads, PublishArtifact(u)
  PROVE  Protocol'
  <1>1. UNCHANGED <<now, attemptCount, claimedAt>>
    BY DEF PublishArtifact, CompleteExport, Finish
  <1>2. \A j \in ExportJobs : \/ j # u.job /\ artifact'[j] = artifact[j]
                              \/ j = u.job /\ artifact'[j] = u.attempt
    BY JobsAssumption DEF PublishArtifact, CompleteExport, PInv, IInv, TypeOK
  <1>3. ObjectKey(u.job, u.attempt) \in objects
    BY DEF PublishArtifact, PInv, Protocol, UploadsOpen
  <1>4. CASE Answer(u, TRUE) /\ UNCHANGED objects
    <2>1. CommitMayBeLost \/ ArtifactStored'
      BY <1>2, <1>3, <1>4 DEF PInv, Protocol, ArtifactStored
    <2> QED
      BY <1>1, <1>2, <1>4, <2>1, AnswerStep
  <1>5. CASE CommitMayBeLost /\ DeleteObject(u.job, u.attempt) /\ Answer(u, FALSE)
    BY <1>1, <1>2, <1>5, AnswerStep DEF DeleteObject
  <1> QED
    BY <1>4, <1>5 DEF PublishArtifact

LEMMA HandlerProtocol ==
  ASSUME PInv, NEW u \in uploads, HandlerStep(u)
  PROVE  Protocol'
  <1>1. ASSUME UNCHANGED vars, Answer(u, FALSE),
               objects' = objects \/ objects' = objects \ {ObjectKey(u.job, u.attempt)}
        PROVE  Protocol'
    <2>1. UNCHANGED <<now, attemptCount, claimedAt, artifact>>
      BY <1>1 DEF vars, rowVars, outcomeVars
    <2> QED
      BY <1>1, <2>1, DeletionHarmless, AnswerStep
  <1>2. CASE StoreObject(u)
    <2> DEFINE s == [u EXCEPT !.stored = TRUE]
    <2>1. u \in UploadRow
      BY DEF PInv, Protocol, ExportTypeOK
    <2>2. s \in UploadRow /\ s.job = u.job /\ s.attempt = u.attempt /\ s.stamp = u.stamp
      BY <2>1 DEF UploadRow
    <2>3. \/ DeleteObject(u.job, u.attempt) /\ Answer(u, FALSE)
          \/ /\ objects' = objects \cup {ObjectKey(u.job, u.attempt)}
             /\ uploads' = (uploads \ {u}) \cup {s}
             /\ UNCHANGED worker
      BY <1>2 DEF StoreObject
    <2> HIDE DEF s
    <2>4. UNCHANGED vars
      BY <1>2 DEF StoreObject
    <2> QED
      BY <1>1, <2>2, <2>3, <2>4, StoredRow DEF DeleteObject
  <1>3. CASE PublishArtifact(u)
    BY <1>3, PublishProtocol
  <1>4. CASE RefuseArtifact(u) \/ UploadDies(u)
    BY <1>1, <1>4 DEF RefuseArtifact, UploadDies, DeleteObject
  <1> QED
    BY <1>2, <1>3, <1>4 DEF HandlerStep

LEMMA ProtocolNext == PInv /\ [ExportNext]_exportVars => PInv'
  <1> SUFFICES ASSUME PInv, [ExportNext]_exportVars PROVE PInv'
    OBVIOUS
  <1>1. IInv'
    BY UsesStore, NextInvariant DEF PInv
  <1> SUFFICES Protocol'
    BY <1>1 DEF PInv
  <1>2. CASE ExportNext
    BY <1>2, RequestProtocol, ClaimProtocol, WorkerProtocol, HandlerProtocol, ClockProtocol
       DEF ExportNext
  <1>3. CASE UNCHANGED exportVars
    <2>1. UNCHANGED <<now, attemptCount, claimedAt, artifact, protocolVars>>
      BY <1>3 DEF exportVars, vars, rowVars, outcomeVars
    <2> QED
      BY <2>1, UnseenStep DEF PInv, IInv, TypeOK, Protocol, UploadsTimely
  <1> QED
    BY <1>2, <1>3

LEMMA ProtocolInvariance == ExportSpec => []PInv
  <1>1. ExportInit => PInv
    BY ProtocolInit
  <1>2. PInv /\ [ExportNext]_exportVars => PInv'
    BY ProtocolNext
  <1> QED
    BY <1>1, <1>2, PTL DEF ExportSpec

-----------------------------------------------------------------------------
(* Types of the store and of the protocol around it: the PUT requests, the *)
(* objects and the processes of cmd/jobworker.                             *)
THEOREM ExportTypeCorrect == ExportSpec => [](TypeOK /\ ExportTypeOK)
  <1>1. PInv => TypeOK /\ ExportTypeOK
    BY DEF PInv, IInv, Protocol
  <1> QED
    BY <1>1, ProtocolInvariance, PTL

(* ClaimJobs never gives an attempt out twice, whichever answers are lost  *)
(* and whichever workers die.                                              *)
THEOREM AttemptsStayApart == ExportSpec => []AttemptsApart
  <1>1. PInv => AttemptsApart
    BY DEF PInv, Protocol
  <1> QED
    BY <1>1, ProtocolInvariance, PTL

(* No refused, failed or abandoned upload removes the object of a          *)
(* published artifact, as long as a COMMIT that is reported as failed has  *)
(* failed (the handler of job_routes.go deletes the object in that case).  *)
THEOREM ArtifactsStay ==
  ASSUME ~CommitMayBeLost
  PROVE  ExportSpec => []ArtifactStored
  <1>1. PInv => ArtifactStored
    BY DEF PInv, Protocol
  <1> QED
    BY <1>1, ProtocolInvariance, PTL

(* The workers and the handlers call the store only as DurableJobs says    *)
(* its clients do: claims with the clock, calls with a begun attempt, and  *)
(* results with a stamp of at most MaxLag ago.                             *)
THEOREM WorkersObeyStore == ExportSpec => StoreRules
  <1>1. ExportInit => Init
    BY DEF ExportInit
  <1>2. PInv /\ [ExportNext]_exportVars => [Next]_vars
    BY UsesStore
  <1> QED
    BY <1>1, <1>2, ProtocolInvariance, PTL DEF ExportSpec, StoreRules, Spec

(* So what the store guarantees holds with these workers too: one result   *)
(* per job, the lease with the latest attempt, no job without an end, and  *)
(* the legacy state in step.                                               *)
THEOREM WorkersKeepStore ==
  ExportSpec => [](OneResult /\ HolderIsLatest /\ NeverStranded /\ LegacyMirrors)
  <1>1. PInv => OneResult /\ HolderIsLatest /\ NeverStranded /\ LegacyMirrors
    BY DEF PInv, IInv
  <1> QED
    BY <1>1, ProtocolInvariance, PTL

(* And every export lives the life of JobLifecycle with these workers.     *)
THEOREM WorkersKeepLife == ASSUME NEW j \in Jobs PROVE ExportSpec => Life(j)!Spec
  <1>1. Spec => Life(j)!Spec
    BY Implements
  <1> QED
    BY <1>1, WorkersObeyStore, PTL DEF StoreRules
=============================================================================
