---------------------------- MODULE InboundQueue ----------------------------
(***************************************************************************)
(* The queue of LINE events: the rows of inbound_events, the transactions  *)
(* of internal/postgres/store.go on them, and the worker processes of      *)
(* cmd/worker that claim a batch and go through it (internal/worker).      *)
(*                                                                         *)
(* Unlike the durable jobs, nothing ties a report to a claim: Complete and *)
(* Fail name only the row, and Fail writes the attempt count that the      *)
(* worker read when it claimed.  A worker may be slower than its lease, so *)
(* reports of two workers on one event meet in every order.                *)
(*                                                                         *)
(* Time is kept in countdowns: what is left of a lease, of a wait, and, in *)
(* `mine`, of the lease a worker got with its batch.                       *)
(***************************************************************************)
EXTENDS Naturals, FiniteSets

CONSTANTS
  Events,       \* provider event ids; LINE may deliver each any number of times
  Workers,      \* processes of cmd/worker
  BatchLimit,   \* most events one claim hands out, 25 in the code
  Lease,        \* one minute in the code
  Retries,      \* how many retries RetryDelay grants, 5 in the code
  Delay         \* the wait before each of them; the first is one minute

ASSUME InboundAssumption ==
  /\ BatchLimit \in Nat
  /\ Lease \in Nat \ {0}
  /\ Retries \in Nat
  /\ Delay \in [1..Retries -> Nat]

(* No retry comes sooner than a lease is long: one minute is the length of *)
(* the lease and of the shortest wait.                                     *)
ASSUME DelayAssumption == \A n \in 1..Retries : Delay[n] >= Lease

VARIABLES
  status,       \* inbound_events.status, "None" before there is a row
  attempts,     \* attempt_count
  wait,         \* until available_at
  lease,        \* until lease_expires_at, 0 for NULL or expired
  batch,        \* the events each worker has claimed and not reported on
  seen,         \* the attempt_count that came with each of them
  mine,         \* what is left of the lease the worker got
  handled       \* events whose handler succeeded, its document stored (history)

rowVars == <<status, attempts, wait, lease>>
workerVars == <<batch, seen, mine>>
inboundVars == <<rowVars, workerVars, handled>>

Statuses == {"None", "Received", "Processing", "Retryable",
             "Processed", "Ignored", "Failed", "Removed"}
Ended == {"Processed", "Ignored", "Failed"}
Outcomes == {"Processed", "Ignored", "error"}

InboundInit ==
  /\ status = [e \in Events |-> "None"]
  /\ attempts = [e \in Events |-> 0]
  /\ wait = [e \in Events |-> 0]
  /\ lease = [e \in Events |-> 0]
  /\ batch = [w \in Workers |-> {}]
  /\ seen = [w \in Workers |-> [e \in Events |-> 0]]
  /\ mine = [w \in Workers |-> 0]
  /\ handled = {}

(* One delivery is one transaction; an event that is there already is left *)
(* alone.  Events of a group that is not connected are not in `delivery`.  *)
InsertEvents(delivery) ==
  LET new == {e \in delivery : status[e] = "None"} IN
  /\ status' = [e \in Events |-> IF e \in new THEN "Received" ELSE status[e]]
  /\ attempts' = [e \in Events |-> IF e \in new THEN 0 ELSE attempts[e]]
  /\ wait' = [e \in Events |-> IF e \in new THEN 0 ELSE wait[e]]
  /\ lease' = [e \in Events |-> IF e \in new THEN 0 ELSE lease[e]]
  /\ UNCHANGED <<workerVars, handled>>

(* Defect: whatever is being processed may be claimed once more.           *)
EligibleProcessing ==
  {e \in Events : \/ status[e] \in {"Received", "Retryable"} /\ wait[e] = 0
                  \/ status[e] = "Processing"}

Eligible ==
  {e \in Events : \/ status[e] \in {"Received", "Retryable"} /\ wait[e] = 0
                  \/ status[e] = "Processing" /\ lease[e] = 0}

(* The claim's one statement.  SKIP LOCKED may leave out any event.        *)
Lend(chosen) ==
  /\ chosen \subseteq Eligible
  /\ chosen # {}
  /\ Cardinality(chosen) <= BatchLimit
  /\ status' = [e \in Events |-> IF e \in chosen THEN "Processing" ELSE status[e]]
  /\ lease' = [e \in Events |-> IF e \in chosen THEN Lease ELSE lease[e]]
  /\ UNCHANGED <<attempts, wait>>

Claim(w) ==
  /\ batch[w] = {}
  /\ \E chosen \in SUBSET Events :
       /\ Lend(chosen)
       /\ batch' = [batch EXCEPT ![w] = chosen]
       /\ seen' = [seen EXCEPT ![w] =
            [e \in Events |-> IF e \in chosen THEN attempts[e] ELSE 0]]
  /\ mine' = [mine EXCEPT ![w] = Lease]
  /\ UNCHANGED handled

(* The statement is committed but its rows never reach the worker.         *)
ClaimLost(w) ==
  /\ batch[w] = {}
  /\ \E chosen \in SUBSET Events : Lend(chosen)
  /\ UNCHANGED <<workerVars, handled>>

-----------------------------------------------------------------------------
(* The handler of one event: RecordOnly, or the intake of a document, whose *)
(* rejections are Ignored.  It may fail although the document was stored;   *)
(* the origin key makes the next attempt find it again.  Nothing else here  *)
(* depends on when it does its work, so it is part of the report's step.    *)
Handle(e, result) ==
  \/ result = "Processed" /\ handled' = handled \cup {e}
  \/ result = "error" /\ handled' \in {handled, handled \cup {e}}
  \/ result = "Ignored" /\ UNCHANGED handled

(* The row is updated whatever its state and whoever holds it.             *)
Complete(e, result) ==
  /\ status' = [status EXCEPT ![e] = result]
  /\ lease' = [lease EXCEPT ![e] = 0]
  /\ UNCHANGED <<attempts, wait>>

(* Defect: RetryDelay grants one retry too many, without a wait.           *)
FailLate(e, count) ==
  LET attempt == count + 1
      retry == attempt <= Retries + 1 IN
  /\ status' = [status EXCEPT ![e] = IF retry THEN "Retryable" ELSE "Failed"]
  /\ attempts' = [attempts EXCEPT ![e] = attempt]
  /\ wait' = [wait EXCEPT ![e] = IF attempt <= Retries THEN Delay[attempt] ELSE 0]
  /\ lease' = [lease EXCEPT ![e] = 0]

(* Defect: the attempt count is the one of the claim, never counted up.    *)
FailUncounted(e, count) ==
  /\ Retries > 0
  /\ status' = [status EXCEPT ![e] = "Retryable"]
  /\ attempts' = [attempts EXCEPT ![e] = count]
  /\ wait' = [wait EXCEPT ![e] = Delay[1]]
  /\ lease' = [lease EXCEPT ![e] = 0]

(* Fail: `count` is the attempt_count the worker has read; after the last  *)
(* retry the event has failed for good.                                    *)
Fail(e, count) ==
  LET attempt == count + 1
      retry == attempt <= Retries IN
  /\ status' = [status EXCEPT ![e] = IF retry THEN "Retryable" ELSE "Failed"]
  /\ attempts' = [attempts EXCEPT ![e] = attempt]
  /\ wait' = [wait EXCEPT ![e] = IF retry THEN Delay[attempt] ELSE 0]
  /\ lease' = [lease EXCEPT ![e] = 0]

(* Defect: an error of the handler is reported like its success.           *)
WriteComplete(w, e, result) ==
  Complete(e, IF result = "Ignored" THEN result ELSE "Processed")

(* RunOnce reports a failure, with the count of the claim, or an outcome.  *)
Write(w, e, result) ==
  \/ result = "error" /\ Fail(e, seen[w][e])
  \/ result # "error" /\ Complete(e, result)

(* RunOnce goes on to the next event of the batch.                         *)
Report(w) ==
  /\ \E e \in batch[w], result \in Outcomes :
       /\ Handle(e, result)
       /\ Write(w, e, result)
       /\ batch' = [batch EXCEPT ![w] = @ \ {e}]
       /\ seen' = [seen EXCEPT ![w][e] = 0]
  /\ UNCHANGED mine

(* A report that fails ends RunOnce: the rest of the batch is dropped and  *)
(* comes back when its lease has run out.  The write may have been done.   *)
Drop(w) ==
  /\ batch' = [batch EXCEPT ![w] = {}]
  /\ seen' = [seen EXCEPT ![w] = [e \in Events |-> 0]]
  /\ UNCHANGED mine

ReportBreaks(w) ==
  /\ \E e \in batch[w], result \in Outcomes :
       /\ Handle(e, result)
       /\ Write(w, e, result) \/ UNCHANGED rowVars
  /\ Drop(w)

Crash(w) ==
  /\ batch[w] # {}
  /\ Drop(w)
  /\ UNCHANGED <<rowVars, handled>>

(* The daily cleanup removes events that ended 90 days ago: no worker is   *)
(* at them any more, and LINE delivers an id again within hours, so that   *)
(* it does not come back.                                                  *)
Cleanup(e) ==
  /\ status[e] \in Ended
  /\ lease[e] = 0
  /\ \A w \in Workers : e \notin batch[w]
  /\ status' = [status EXCEPT ![e] = "Removed"]
  /\ UNCHANGED <<attempts, wait, lease, workerVars, handled>>

Less(n) == IF n = 0 THEN 0 ELSE n - 1

Tick ==
  /\ \/ \E e \in Events : wait[e] > 0 \/ lease[e] > 0
     \/ \E w \in Workers : mine[w] > 0
  /\ wait' = [e \in Events |-> Less(wait[e])]
  /\ lease' = [e \in Events |-> Less(lease[e])]
  /\ mine' = [w \in Workers |-> Less(mine[w])]
  /\ UNCHANGED <<status, attempts, batch, seen, handled>>

InboundNext ==
  \/ \E delivery \in SUBSET Events : InsertEvents(delivery)
  \/ \E w \in Workers :
       Claim(w) \/ ClaimLost(w) \/ Report(w) \/ ReportBreaks(w) \/ Crash(w)
  \/ \E e \in Events : Cleanup(e)
  \/ Tick

(* The ticker of cmd/worker keeps claiming and a batch is gone through; a  *)
(* database or a process may fail again and again, but not every time.     *)
InboundFairness ==
  /\ WF_inboundVars(Tick)
  /\ \A w \in Workers :
       /\ SF_inboundVars(Claim(w))
       /\ SF_inboundVars(Report(w))

InboundSpec == InboundInit /\ [][InboundNext]_inboundVars /\ InboundFairness

-----------------------------------------------------------------------------
InboundTypeOK ==
  /\ status \in [Events -> Statuses]
  /\ attempts \in [Events -> Nat]
  /\ wait \in [Events -> Nat]
  /\ lease \in [Events -> 0..Lease]
  /\ batch \in [Workers -> SUBSET Events]
  /\ seen \in [Workers -> [Events -> Nat]]
  /\ mine \in [Workers -> 0..Lease]

(* The attempt count and the status of a row fit each other whichever      *)
(* worker wrote last: a row that waits for a retry has one left, and one   *)
(* that has failed has used them all.  Reports carry counts read long ago. *)
BudgetAgrees ==
  \A e \in Events :
    /\ status[e] = "Received" => attempts[e] = 0
    /\ status[e] = "Retryable" => attempts[e] \in 1..Retries
    /\ status[e] = "Processing" => attempts[e] \in 0..Retries
    /\ status[e] = "Failed" => attempts[e] = Retries + 1

(* An event counts as processed only after its handler succeeded, across   *)
(* crashes, lost claims and reports that were sent for an earlier attempt. *)
ProcessedWasHandled ==
  \A e \in Events : status[e] = "Processed" => e \in handled

(* No event is in the hands of two workers whose leases both still run.    *)
(* An overdue worker may put the event back in the queue while another one *)
(* holds it; the wait it sets is never shorter than that one's lease.      *)
LeaseExclusive ==
  \A v, w \in Workers : \A e \in batch[v] \cap batch[w] :
    v = w \/ mine[v] = 0 \/ mine[w] = 0

(* Every event ends, and stays ended until it is cleaned up, although      *)
(* overdue reports reopen events that had ended: each takes the count of   *)
(* attempts back at most to one more than its own claim saw.               *)
EventSettles ==
  \A e \in Events :
    status[e] = "Received" ~> [](status[e] \in Ended \cup {"Removed"})
=============================================================================
