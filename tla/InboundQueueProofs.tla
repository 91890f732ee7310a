-------------------------- MODULE InboundQueueProofs --------------------------
(***************************************************************************)
(* What TLC checks of InboundQueue for two events, two workers and two     *)
(* retries, proved for all events, workers, batch limits, leases and       *)
(* retry tables.  LeaseExclusive needs to know why a lease protects the    *)
(* events of a batch although anybody may write their rows: Shield.        *)
(***************************************************************************)
EXTENDS InboundQueue, TLAPS

(* The counts that workers carry are counts of rows that had a retry left. *)
SeenInBudget ==
  \A w \in Workers : \A e \in Events : seen[w][e] \in 0..Retries

(* While the lease of a batch runs, each of its events is kept from other  *)
(* claims for at least as long: by the row's lease, by the wait that an    *)
(* overdue report has set, or because it has ended.                        *)
Shield ==
  \A w \in Workers : \A e \in batch[w] :
    mine[w] > 0 =>
      \/ status[e] = "Processing" /\ lease[e] >= mine[w]
      \/ status[e] = "Retryable" /\ wait[e] >= mine[w]
      \/ status[e] \in Ended

IInv ==
  /\ InboundTypeOK
  /\ SeenInBudget
  /\ BudgetAgrees
  /\ ProcessedWasHandled
  /\ Shield
  /\ LeaseExclusive

(* A failure leaves the row with a count and a status that fit, and with   *)
(* a wait no shorter than a lease when the event may be tried again.       *)
LEMMA FailRow ==
  ASSUME InboundTypeOK, NEW e \in Events, NEW count \in 0..Retries, Fail(e, count)
  PROVE  /\ status' = [status EXCEPT ![e] = status'[e]]
         /\ attempts' = [attempts EXCEPT ![e] = count + 1]
         /\ wait' = [wait EXCEPT ![e] = wait'[e]]
         /\ lease' = [lease EXCEPT ![e] = 0]
         /\ wait'[e] \in Nat
         /\ \/ status'[e] = "Retryable" /\ count + 1 \in 1..Retries /\ wait'[e] >= Lease
            \/ status'[e] = "Failed" /\ count + 1 = Retries + 1
<1> USE InboundAssumption, DelayAssumption
<1>1. CASE count + 1 <= Retries
  <2>1. count + 1 \in 1..Retries
    BY <1>1
  <2>2. Delay[count + 1] \in Nat /\ Delay[count + 1] >= Lease
    BY <2>1
  <2> QED BY <1>1, <2>1, <2>2 DEF Fail, InboundTypeOK
<1>2. CASE ~(count + 1 <= Retries)
  BY <1>2 DEF Fail, InboundTypeOK
<1> QED BY <1>1, <1>2

LEMMA InitIInv == InboundInit => IInv
BY InboundAssumption DEF InboundInit, IInv, InboundTypeOK, SeenInBudget, BudgetAgrees,
     ProcessedWasHandled, Shield, LeaseExclusive, Statuses

(* What writing the row of one event does to the parts of the invariant    *)
(* that speak of rows, for a report of w on e.                             *)
LEMMA WriteKeeps ==
  ASSUME IInv, NEW w \in Workers, NEW e \in batch[w], NEW result \in Outcomes,
         Handle(e, result), Write(w, e, result),
         mine' = mine,
         \A v \in Workers : batch'[v] \subseteq batch[v]
  PROVE  /\ status' \in [Events -> Statuses]
         /\ attempts' \in [Events -> Nat]
         /\ wait' \in [Events -> Nat]
         /\ lease' \in [Events -> 0..Lease]
         /\ BudgetAgrees'
         /\ ProcessedWasHandled'
         /\ Shield'
<1> USE InboundAssumption
<1>1. e \in Events
  BY DEF IInv, InboundTypeOK
<1>2. CASE result = "error" /\ Fail(e, seen[w][e])
  <2> DEFINE count == seen[w][e]
  <2>1. count \in 0..Retries /\ Fail(e, count)
    BY <1>1, <1>2 DEF IInv, SeenInBudget
  <2> HIDE DEF count
  <2>2. /\ status' = [status EXCEPT ![e] = status'[e]]
        /\ attempts' = [attempts EXCEPT ![e] = count + 1]
        /\ wait' = [wait EXCEPT ![e] = wait'[e]]
        /\ lease' = [lease EXCEPT ![e] = 0]
        /\ wait'[e] \in Nat
        /\ \/ status'[e] = "Retryable" /\ count + 1 \in 1..Retries /\ wait'[e] >= Lease
           \/ status'[e] = "Failed" /\ count + 1 = Retries + 1
    BY <1>1, <2>1, FailRow DEF IInv
  <2>3. /\ status' \in [Events -> Statuses]
        /\ attempts' \in [Events -> Nat]
        /\ wait' \in [Events -> Nat]
        /\ lease' \in [Events -> 0..Lease]
    <3>1. status'[e] \in Statuses /\ count + 1 \in Nat /\ 0 \in 0..Lease
      BY <2>1, <2>2 DEF Statuses
    <3>2. status' \in [Events -> Statuses]
      BY <2>2, <3>1 DEF IInv, InboundTypeOK
    <3>3. attempts' \in [Events -> Nat]
      BY <2>2, <3>1 DEF IInv, InboundTypeOK
    <3>4. wait' \in [Events -> Nat]
      BY <2>2, <3>1 DEF IInv, InboundTypeOK
    <3>5. lease' \in [Events -> 0..Lease]
      BY <2>2, <3>1 DEF IInv, InboundTypeOK
    <3> QED BY <3>2, <3>3, <3>4, <3>5
  <2>4. BudgetAgrees'
    BY <1>1, <2>1, <2>2 DEF IInv, InboundTypeOK, BudgetAgrees
  <2>5. handled \subseteq handled'
    BY DEF Handle
  <2>6. ProcessedWasHandled'
    BY <1>1, <2>2, <2>5 DEF IInv, InboundTypeOK, ProcessedWasHandled
  <2>7. Shield'
    <3> SUFFICES ASSUME NEW v \in Workers, NEW f \in batch'[v], mine'[v] > 0
                 PROVE  \/ status'[f] = "Processing" /\ lease'[f] >= mine'[v]
                        \/ status'[f] = "Retryable" /\ wait'[f] >= mine'[v]
                        \/ status'[f] \in Ended
      BY DEF Shield
    <3>1. f \in batch[v] /\ f \in Events /\ mine[v] \in 0..Lease
      BY DEF IInv, InboundTypeOK
    <3>2. CASE f = e
      BY <1>1, <2>2, <3>1, <3>2 DEF Ended
    <3>3. CASE f # e
      <4>1. status'[f] = status[f] /\ wait'[f] = wait[f] /\ lease'[f] = lease[f]
        BY <1>1, <2>2, <3>1, <3>3 DEF IInv, InboundTypeOK
      <4> QED BY <3>1, <4>1 DEF IInv, Shield
    <3> QED BY <3>2, <3>3
  <2> QED BY <2>3, <2>4, <2>6, <2>7
<1>3. CASE result # "error" /\ Complete(e, result)
  <2>1. result \in {"Processed", "Ignored"}
    BY <1>3 DEF Outcomes
  <2>2. /\ status' \in [Events -> Statuses]
        /\ attempts' \in [Events -> Nat]
        /\ wait' \in [Events -> Nat]
        /\ lease' \in [Events -> 0..Lease]
    BY <1>1, <1>3, <2>1 DEF IInv, InboundTypeOK, Complete, Statuses
  <2>3. BudgetAgrees'
    BY <1>1, <1>3, <2>1 DEF IInv, InboundTypeOK, BudgetAgrees, Complete
  <2>4. ProcessedWasHandled'
    BY <1>1, <1>3, <2>1 DEF IInv, InboundTypeOK, ProcessedWasHandled, Complete, Handle
  <2>5. Shield'
    <3> SUFFICES ASSUME NEW v \in Workers, NEW f \in batch'[v], mine'[v] > 0
                 PROVE  \/ status'[f] = "Processing" /\ lease'[f] >= mine'[v]
                        \/ status'[f] = "Retryable" /\ wait'[f] >= mine'[v]
                        \/ status'[f] \in Ended
      BY DEF Shield
    <3>1. f \in batch[v] /\ f \in Events
      BY DEF IInv, InboundTypeOK
    <3>2. CASE f = e
      BY <1>1, <1>3, <2>1, <3>2 DEF Complete, Ended, IInv, InboundTypeOK
    <3>3. CASE f # e
      <4>1. status'[f] = status[f] /\ wait'[f] = wait[f] /\ lease'[f] = lease[f]
        BY <1>1, <1>3, <3>1, <3>3 DEF IInv, InboundTypeOK, Complete
      <4> QED BY <3>1, <4>1 DEF IInv, Shield
    <3> QED BY <3>2, <3>3
  <2> QED BY <2>2, <2>3, <2>4, <2>5
<1> QED BY <1>2, <1>3 DEF Write

(* A worker that lets go of events, or of its lease, disturbs no batch and *)
(* no exclusion: the rest of the invariant that speaks of workers.         *)
LEMMA LettingGo ==
  ASSUME IInv, NEW w \in Workers, mine' = mine,
         batch' = [batch EXCEPT ![w] = batch'[w]],
         batch'[w] \subseteq batch[w]
  PROVE  /\ batch' \in [Workers -> SUBSET Events]
         /\ mine' \in [Workers -> 0..Lease]
         /\ \A v \in Workers : batch'[v] \subseteq batch[v]
         /\ LeaseExclusive'
<1>1. batch' \in [Workers -> SUBSET Events] /\ \A v \in Workers : batch'[v] \subseteq batch[v]
  BY DEF IInv, InboundTypeOK
<1>2. mine' \in [Workers -> 0..Lease]
  BY DEF IInv, InboundTypeOK
<1>3. LeaseExclusive'
  <2> SUFFICES ASSUME NEW u \in Workers, NEW v \in Workers, NEW f \in batch'[u] \cap batch'[v]
               PROVE  u = v \/ mine'[u] = 0 \/ mine'[v] = 0
    BY DEF LeaseExclusive
  <2>1. f \in batch[u] \cap batch[v]
    BY <1>1
  <2> QED BY <2>1 DEF IInv, LeaseExclusive
<1> QED BY <1>1, <1>2, <1>3

(* When the rows stay as they are, so does what is said of them, whatever  *)
(* a handler has added to `handled`.                                       *)
LEMMA RowsKept ==
  ASSUME IInv, UNCHANGED rowVars, mine' = mine, handled \subseteq handled',
         \A v \in Workers : batch'[v] \subseteq batch[v]
  PROVE  BudgetAgrees' /\ ProcessedWasHandled' /\ Shield'
<1>1. BudgetAgrees'
  BY DEF IInv, BudgetAgrees, rowVars
<1>2. ProcessedWasHandled'
  BY DEF IInv, ProcessedWasHandled, rowVars
<1>3. Shield'
  BY DEF IInv, Shield, rowVars
<1> QED BY <1>1, <1>2, <1>3

LEMMA InsertKeeps ==
  ASSUME IInv, NEW delivery \in SUBSET Events, InsertEvents(delivery)
  PROVE  IInv'
<1> USE InboundAssumption
<1>1. /\ \A e \in Events : \/ /\ status'[e] = status[e] /\ attempts'[e] = attempts[e]
                              /\ wait'[e] = wait[e] /\ lease'[e] = lease[e]
                           \/ /\ status[e] = "None" /\ status'[e] = "Received"
                              /\ attempts'[e] = 0
      /\ UNCHANGED <<batch, seen, mine, handled>>
  BY DEF InsertEvents, workerVars
<1>2. InboundTypeOK'
  BY DEF InsertEvents, workerVars, IInv, InboundTypeOK, Statuses
<1>3. SeenInBudget'
  BY <1>1 DEF IInv, SeenInBudget
<1>4. BudgetAgrees'
  BY <1>1 DEF IInv, BudgetAgrees
<1>5. ProcessedWasHandled'
  BY <1>1 DEF IInv, ProcessedWasHandled
<1>6. Shield'
  <2> SUFFICES ASSUME NEW v \in Workers, NEW f \in batch[v], mine[v] > 0
               PROVE  \/ status'[f] = "Processing" /\ lease'[f] >= mine[v]
                      \/ status'[f] = "Retryable" /\ wait'[f] >= mine[v]
                      \/ status'[f] \in Ended
    BY <1>1 DEF Shield
  <2>1. f \in Events /\ status[f] # "None"
    BY DEF IInv, InboundTypeOK, Shield, Ended
  <2> QED BY <1>1, <2>1 DEF IInv, Shield
<1>7. LeaseExclusive'
  BY <1>1 DEF IInv, LeaseExclusive
<1> QED BY <1>2, <1>3, <1>4, <1>5, <1>6, <1>7 DEF IInv

(* What a claim does to the rows, whether or not its answer arrives.       *)
LEMMA LendKeeps ==
  ASSUME IInv, NEW chosen \in SUBSET Events, Lend(chosen)
  PROVE  /\ status' \in [Events -> Statuses]
         /\ attempts' = attempts
         /\ wait' = wait
         /\ lease' \in [Events -> 0..Lease]
         /\ \A e \in chosen :
              /\ status'[e] = "Processing"
              /\ lease'[e] = Lease
              /\ attempts[e] \in 0..Retries
         /\ \A e \in Events \ chosen : status'[e] = status[e] /\ lease'[e] = lease[e]
         /\ \A e \in chosen : \A v \in Workers : e \in batch[v] => mine[v] = 0
<1> USE InboundAssumption
<1>1. /\ status' \in [Events -> Statuses]
      /\ attempts' = attempts
      /\ wait' = wait
      /\ lease' \in [Events -> 0..Lease]
  BY DEF Lend, IInv, InboundTypeOK, Statuses
<1>2. \A e \in Events \ chosen : status'[e] = status[e] /\ lease'[e] = lease[e]
  BY DEF Lend, IInv, InboundTypeOK
<1>3. \A e \in chosen : status'[e] = "Processing" /\ lease'[e] = Lease
  BY DEF Lend, IInv, InboundTypeOK
<1>4. ASSUME NEW e \in chosen PROVE attempts[e] \in 0..Retries
  BY DEF Lend, Eligible, IInv, BudgetAgrees
<1>5. ASSUME NEW e \in chosen, NEW v \in Workers, e \in batch[v] PROVE mine[v] = 0
  <2>1. mine[v] \in 0..Lease /\ e \in Eligible
    BY DEF Lend, IInv, InboundTypeOK
  <2>2. ~(mine[v] > 0)
    BY <1>5, <2>1 DEF Eligible, Ended, IInv, Shield
  <2> QED BY <2>1, <2>2
<1> QED BY <1>1, <1>2, <1>3, <1>4, <1>5

LEMMA LendKeepsRows ==
  ASSUME IInv, NEW chosen \in SUBSET Events, Lend(chosen), UNCHANGED handled
  PROVE  BudgetAgrees' /\ ProcessedWasHandled'
BY LendKeeps DEF IInv, BudgetAgrees, ProcessedWasHandled

LEMMA ClaimKeeps ==
  ASSUME IInv, NEW w \in Workers, Claim(w)
  PROVE  IInv'
<1> USE InboundAssumption
<1>1. PICK chosen \in SUBSET Events :
        /\ Lend(chosen)
        /\ batch' = [batch EXCEPT ![w] = chosen]
        /\ seen' = [seen EXCEPT ![w] = [e \in Events |-> IF e \in chosen THEN attempts[e] ELSE 0]]
  BY DEF Claim
<1>2. mine' = [mine EXCEPT ![w] = Lease] /\ handled' = handled
  BY DEF Claim
<1>3. /\ \A v \in Workers : v # w => batch'[v] = batch[v] /\ mine'[v] = mine[v]
      /\ batch'[w] = chosen /\ mine'[w] = Lease
  BY <1>1, <1>2 DEF IInv, InboundTypeOK
<1>4. InboundTypeOK'
  <2>1. [e \in Events |-> IF e \in chosen THEN attempts[e] ELSE 0] \in [Events -> Nat]
    BY DEF IInv, InboundTypeOK
  <2>2. seen' \in [Workers -> [Events -> Nat]]
    BY <1>1, <2>1 DEF IInv, InboundTypeOK
  <2>3. batch' \in [Workers -> SUBSET Events] /\ mine' \in [Workers -> 0..Lease]
    BY <1>1, <1>2 DEF IInv, InboundTypeOK
  <2>4. /\ status' \in [Events -> Statuses] /\ attempts' = attempts
        /\ wait' = wait /\ lease' \in [Events -> 0..Lease]
    BY <1>1, LendKeeps
  <2> QED BY <2>2, <2>3, <2>4 DEF IInv, InboundTypeOK
<1>5. SeenInBudget'
  <2> SUFFICES ASSUME NEW v \in Workers, NEW e \in Events PROVE seen'[v][e] \in 0..Retries
    BY DEF SeenInBudget
  <2>1. \A f \in chosen : attempts[f] \in 0..Retries
    BY <1>1, LendKeeps
  <2>2. CASE v = w
    <3>1. seen'[v] = [f \in Events |-> IF f \in chosen THEN attempts[f] ELSE 0]
      BY <1>1, <2>2 DEF IInv, InboundTypeOK
    <3> QED BY <2>1, <3>1
  <2>3. CASE v # w
    <3>1. seen'[v] = seen[v]
      BY <1>1, <2>3 DEF IInv, InboundTypeOK
    <3> QED BY <3>1 DEF IInv, SeenInBudget
  <2> QED BY <2>2, <2>3
<1>6. BudgetAgrees' /\ ProcessedWasHandled'
  BY <1>1, <1>2, LendKeepsRows
<1>7. Shield'
  <2> SUFFICES ASSUME NEW v \in Workers, NEW f \in batch'[v], mine'[v] > 0
               PROVE  \/ status'[f] = "Processing" /\ lease'[f] >= mine'[v]
                      \/ status'[f] = "Retryable" /\ wait'[f] >= mine'[v]
                      \/ status'[f] \in Ended
    BY DEF Shield
  <2>1. CASE v = w
    BY <1>1, <1>3, <2>1, LendKeeps
  <2>2. CASE v # w
    <3>1. f \in batch[v] /\ f \in Events /\ mine'[v] = mine[v] /\ mine[v] > 0
      BY <1>3, <2>2 DEF IInv, InboundTypeOK
    <3>2. f \notin chosen
      BY <1>1, <3>1, LendKeeps
    <3>3. status'[f] = status[f] /\ lease'[f] = lease[f] /\ wait' = wait
      BY <1>1, <3>1, <3>2, LendKeeps
    <3> QED BY <3>1, <3>3 DEF IInv, Shield
  <2> QED BY <2>1, <2>2
<1>8. LeaseExclusive'
  <2> SUFFICES ASSUME NEW u \in Workers, NEW v \in Workers,
                      NEW e \in batch'[u] \cap batch'[v], u # v
               PROVE  mine'[u] = 0 \/ mine'[v] = 0
    BY DEF LeaseExclusive
  <2>1. CASE u = w
    BY <1>1, <1>3, <2>1, LendKeeps
  <2>2. CASE v = w
    BY <1>1, <1>3, <2>2, LendKeeps
  <2>3. CASE u # w /\ v # w
    BY <1>3, <2>3 DEF IInv, LeaseExclusive
  <2> QED BY <2>1, <2>2, <2>3
<1> QED BY <1>4, <1>5, <1>6, <1>7, <1>8 DEF IInv

LEMMA ClaimLostKeeps ==
  ASSUME IInv, NEW w \in Workers, ClaimLost(w)
  PROVE  IInv'
<1>1. PICK chosen \in SUBSET Events : Lend(chosen)
  BY DEF ClaimLost
<1>2. UNCHANGED <<batch, seen, mine, handled>>
  BY DEF ClaimLost, workerVars
<1>3. InboundTypeOK'
  BY <1>1, <1>2, LendKeeps DEF IInv, InboundTypeOK
<1>4. SeenInBudget' /\ LeaseExclusive'
  BY <1>2 DEF IInv, SeenInBudget, LeaseExclusive
<1>5. BudgetAgrees' /\ ProcessedWasHandled'
  BY <1>1, <1>2, LendKeepsRows
<1>6. Shield'
  <2> SUFFICES ASSUME NEW v \in Workers, NEW f \in batch[v], mine[v] > 0
               PROVE  \/ status'[f] = "Processing" /\ lease'[f] >= mine[v]
                      \/ status'[f] = "Retryable" /\ wait'[f] >= mine[v]
                      \/ status'[f] \in Ended
    BY <1>2 DEF Shield
  <2>1. f \in Events /\ mine[v] \in 0..Lease
    BY DEF IInv, InboundTypeOK
  <2>2. f \notin chosen
    BY <1>1, <2>1, LendKeeps, InboundAssumption
  <2>3. status'[f] = status[f] /\ lease'[f] = lease[f] /\ wait' = wait
    BY <1>1, <2>1, <2>2, LendKeeps
  <2> QED BY <2>3 DEF IInv, Shield
<1> QED BY <1>3, <1>4, <1>5, <1>6 DEF IInv

LEMMA ReportKeeps ==
  ASSUME IInv, NEW w \in Workers, Report(w)
  PROVE  IInv'
<1>1. PICK e \in batch[w], result \in Outcomes :
        /\ Handle(e, result)
        /\ Write(w, e, result)
        /\ batch' = [batch EXCEPT ![w] = @ \ {e}]
        /\ seen' = [seen EXCEPT ![w][e] = 0]
  BY DEF Report
<1>2. mine' = mine
  BY DEF Report
<1>3. batch' = [batch EXCEPT ![w] = batch[w] \ {e}] /\ e \in Events
  BY <1>1 DEF IInv, InboundTypeOK
<1>4. /\ batch' \in [Workers -> SUBSET Events]
      /\ mine' \in [Workers -> 0..Lease]
      /\ \A v \in Workers : batch'[v] \subseteq batch[v]
      /\ LeaseExclusive'
  <2>1. batch'[w] = batch[w] \ {e}
    BY <1>3 DEF IInv, InboundTypeOK
  <2> QED BY <1>2, <1>3, <2>1, LettingGo
<1>5. /\ status' \in [Events -> Statuses]
      /\ attempts' \in [Events -> Nat]
      /\ wait' \in [Events -> Nat]
      /\ lease' \in [Events -> 0..Lease]
      /\ BudgetAgrees'
      /\ ProcessedWasHandled'
      /\ Shield'
  BY <1>1, <1>2, <1>4, WriteKeeps
<1>6. seen' \in [Workers -> [Events -> Nat]]
  BY <1>1, <1>3 DEF IInv, InboundTypeOK
<1>7. SeenInBudget'
  BY <1>1, <1>3, InboundAssumption DEF IInv, InboundTypeOK, SeenInBudget
<1> QED BY <1>4, <1>5, <1>6, <1>7 DEF IInv, InboundTypeOK

LEMMA DropSeen ==
  ASSUME IInv, NEW w \in Workers, Drop(w)
  PROVE  /\ seen' \in [Workers -> [Events -> Nat]]
         /\ SeenInBudget'
<1>1. seen' = [seen EXCEPT ![w] = [e \in Events |-> 0]]
  BY DEF Drop
<1>2. seen' \in [Workers -> [Events -> Nat]]
  BY <1>1 DEF IInv, InboundTypeOK
<1>3. ASSUME NEW v \in Workers, NEW e \in Events PROVE seen'[v][e] \in 0..Retries
  <2>1. CASE v = w
    <3>1. seen'[v][e] = 0
      BY <1>1, <2>1 DEF IInv, InboundTypeOK
    <3> QED BY <3>1, InboundAssumption
  <2>2. CASE v # w
    BY <1>1, <2>2 DEF IInv, InboundTypeOK, SeenInBudget
  <2> QED BY <2>1, <2>2
<1> QED BY <1>2, <1>3 DEF SeenInBudget

LEMMA ReportBreaksKeeps ==
  ASSUME IInv, NEW w \in Workers, ReportBreaks(w)
  PROVE  IInv'
<1>1. PICK e \in batch[w], result \in Outcomes :
        Handle(e, result) /\ (Write(w, e, result) \/ UNCHANGED rowVars)
  BY DEF ReportBreaks
<1>2. Drop(w) /\ batch' = [batch EXCEPT ![w] = {}] /\ mine' = mine
  BY DEF ReportBreaks, Drop
<1>3. /\ batch' \in [Workers -> SUBSET Events]
      /\ mine' \in [Workers -> 0..Lease]
      /\ \A v \in Workers : batch'[v] \subseteq batch[v]
      /\ LeaseExclusive'
  <2>1. batch'[w] = {}
    BY <1>2 DEF IInv, InboundTypeOK
  <2> QED BY <1>2, <2>1, LettingGo
<1>4. /\ status' \in [Events -> Statuses]
      /\ attempts' \in [Events -> Nat]
      /\ wait' \in [Events -> Nat]
      /\ lease' \in [Events -> 0..Lease]
      /\ BudgetAgrees'
      /\ ProcessedWasHandled'
      /\ Shield'
  <2>1. CASE Write(w, e, result)
    BY <1>1, <1>2, <1>3, <2>1, WriteKeeps
  <2>2. CASE UNCHANGED rowVars
    <3>1. handled \subseteq handled'
      BY <1>1 DEF Handle, Outcomes
    <3>2. BudgetAgrees' /\ ProcessedWasHandled' /\ Shield'
      BY <1>2, <1>3, <2>2, <3>1, RowsKept
    <3> QED BY <2>2, <3>2 DEF IInv, InboundTypeOK, rowVars
  <2> QED BY <1>1, <2>1, <2>2
<1>5. seen' \in [Workers -> [Events -> Nat]] /\ SeenInBudget'
  BY <1>2, DropSeen
<1> QED BY <1>3, <1>4, <1>5 DEF IInv, InboundTypeOK

LEMMA CrashKeeps ==
  ASSUME IInv, NEW w \in Workers, Crash(w)
  PROVE  IInv'
<1>1. /\ Drop(w) /\ batch' = [batch EXCEPT ![w] = {}] /\ mine' = mine
      /\ UNCHANGED rowVars /\ handled' = handled
  BY DEF Crash, Drop
<1>2. /\ batch' \in [Workers -> SUBSET Events]
      /\ mine' \in [Workers -> 0..Lease]
      /\ \A v \in Workers : batch'[v] \subseteq batch[v]
      /\ LeaseExclusive'
  <2>1. batch'[w] = {}
    BY <1>1 DEF IInv, InboundTypeOK
  <2> QED BY <1>1, <2>1, LettingGo
<1>3. BudgetAgrees' /\ ProcessedWasHandled' /\ Shield'
  BY <1>1, <1>2, RowsKept
<1>4. seen' \in [Workers -> [Events -> Nat]] /\ SeenInBudget'
  BY <1>1, DropSeen
<1> QED BY <1>1, <1>2, <1>3, <1>4 DEF IInv, InboundTypeOK, rowVars

LEMMA CleanupKeeps ==
  ASSUME IInv, NEW e \in Events, Cleanup(e)
  PROVE  IInv'
<1>1. /\ status' = [status EXCEPT ![e] = "Removed"]
      /\ UNCHANGED <<attempts, wait, lease, batch, seen, mine, handled>>
      /\ \A w \in Workers : e \notin batch[w]
  BY DEF Cleanup, workerVars
<1>2. InboundTypeOK'
  BY <1>1 DEF IInv, InboundTypeOK, Statuses
<1>3. SeenInBudget' /\ LeaseExclusive'
  BY <1>1 DEF IInv, SeenInBudget, LeaseExclusive
<1>4. BudgetAgrees' /\ ProcessedWasHandled'
  BY <1>1 DEF IInv, InboundTypeOK, BudgetAgrees, ProcessedWasHandled
<1>5. Shield'
  BY <1>1 DEF IInv, InboundTypeOK, Shield
<1> QED BY <1>2, <1>3, <1>4, <1>5 DEF IInv

LEMMA TickKeeps ==
  ASSUME IInv, Tick
  PROVE  IInv'
<1> USE InboundAssumption
<1>1. /\ wait' = [e \in Events |-> Less(wait[e])]
      /\ lease' = [e \in Events |-> Less(lease[e])]
      /\ mine' = [w \in Workers |-> Less(mine[w])]
      /\ UNCHANGED <<status, attempts, batch, seen, handled>>
  BY DEF Tick
<1>2. \A n \in Nat : Less(n) \in Nat /\ Less(n) <= n
  BY DEF Less
<1>3. \A m, n \in Nat : n >= m => Less(n) >= Less(m)
  BY DEF Less
<1>4. InboundTypeOK'
  <2>1. wait' \in [Events -> Nat]
    BY <1>1, <1>2 DEF IInv, InboundTypeOK
  <2>2. lease' \in [Events -> 0..Lease]
    BY <1>1, <1>2 DEF IInv, InboundTypeOK
  <2>3. mine' \in [Workers -> 0..Lease]
    BY <1>1, <1>2 DEF IInv, InboundTypeOK
  <2> QED BY <1>1, <2>1, <2>2, <2>3 DEF IInv, InboundTypeOK
<1>5. SeenInBudget' /\ BudgetAgrees' /\ ProcessedWasHandled'
  BY <1>1 DEF IInv, SeenInBudget, BudgetAgrees, ProcessedWasHandled
<1>6. Shield'
  <2> SUFFICES ASSUME NEW v \in Workers, NEW f \in batch[v], Less(mine[v]) > 0
               PROVE  \/ status[f] = "Processing" /\ Less(lease[f]) >= Less(mine[v])
                      \/ status[f] = "Retryable" /\ Less(wait[f]) >= Less(mine[v])
                      \/ status[f] \in Ended
    BY <1>1 DEF IInv, InboundTypeOK, Shield
  <2>1. mine[v] \in Nat /\ lease[f] \in Nat /\ wait[f] \in Nat
    BY DEF IInv, InboundTypeOK
  <2>2. mine[v] > 0
    BY <2>1 DEF Less
  <2> QED BY <1>3, <2>1, <2>2 DEF IInv, Shield
<1>7. LeaseExclusive'
  BY <1>1 DEF IInv, LeaseExclusive, Less
<1> QED BY <1>4, <1>5, <1>6, <1>7 DEF IInv

LEMMA StepIInv == IInv /\ [InboundNext]_inboundVars => IInv'
<1> SUFFICES ASSUME IInv, [InboundNext]_inboundVars PROVE IInv'
  OBVIOUS
<1>1. CASE \E delivery \in SUBSET Events : InsertEvents(delivery)
  BY <1>1, InsertKeeps
<1>2. ASSUME NEW w \in Workers,
             Claim(w) \/ ClaimLost(w) \/ Report(w) \/ ReportBreaks(w) \/ Crash(w)
      PROVE  IInv'
  BY <1>2, ClaimKeeps, ClaimLostKeeps, ReportKeeps, ReportBreaksKeeps, CrashKeeps
<1>3. CASE \E e \in Events : Cleanup(e)
  BY <1>3, CleanupKeeps
<1>4. CASE Tick
  BY <1>4, TickKeeps
<1>5. CASE UNCHANGED inboundVars
  BY <1>5 DEF inboundVars, rowVars, workerVars, IInv, InboundTypeOK, SeenInBudget,
       BudgetAgrees, ProcessedWasHandled, Shield, LeaseExclusive
<1> QED BY <1>1, <1>2, <1>3, <1>4, <1>5 DEF InboundNext

LEMMA Inductive == InboundSpec => []IInv
BY InitIInv, StepIInv, PTL DEF InboundSpec

(* Rows, batches and counts keep their types for every number of events    *)
(* and workers: Fail and Complete write only statuses the table allows.    *)
THEOREM InboundTypeCorrect == InboundSpec => []InboundTypeOK
<1>1. IInv => InboundTypeOK
  BY DEF IInv
<1> QED BY <1>1, Inductive, PTL

(* The status of a row always fits its attempt count, although Fail takes  *)
(* the count from the worker and not from the row.                         *)
THEOREM BudgetHolds == InboundSpec => []BudgetAgrees
<1>1. IInv => BudgetAgrees
  BY DEF IInv
<1> QED BY <1>1, Inductive, PTL

(* A processed event has had its handler succeed (worker.go RunOnce).      *)
THEOREM ProcessedMeansHandled == InboundSpec => []ProcessedWasHandled
<1>1. IInv => ProcessedWasHandled
  BY DEF IInv
<1> QED BY <1>1, Inductive, PTL

(* Two workers never hold one event under leases that both still run,      *)
(* because the shortest retry wait is as long as the lease                 *)
(* (DelayAssumption, inbound.RetryDelay).                                  *)
THEOREM LeasesExclude == InboundSpec => []LeaseExclusive
<1>1. IInv => LeaseExclusive
  BY DEF IInv
<1> QED BY <1>1, Inductive, PTL
=============================================================================
