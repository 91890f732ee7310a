------------------------------ MODULE WorkProofs ------------------------------
(***************************************************************************)
(* Tasks, notifications and deliveries, for any number of users, requests  *)
(* in flight, workers, events and retries.  A membership that has ended    *)
(* stays ended, and a worker's count of attempts is at most behind.        *)
(***************************************************************************)
EXTENDS Work, TLAPS

RequestRow ==
  [step : {None, "locked", "watching"},
   op : {None, "assign", "status", "details", "watch", "unwatch"},
   actor : Users \cup {None}, value : Users \cup Statuses \cup {None},
   read : Tasks]
DeliveryRow ==
  [status : {None, "Pending", "Processing", "Retryable", "Delivered", "Failed"},
   attempts : Nat, refused : BOOLEAN]

(* What a request asks for is what its form can set.                       *)
Asked(q) ==
  /\ q.step = "locked" =>
       /\ q.actor \in Users /\ q.op \in Fields
       /\ q.op = "assign" => q.value \in Users \cup {None}
       /\ q.op = "status" => q.value \in Statuses
  /\ q.step = "watching" => q.actor \in Users /\ q.value \in Users
AllAsked == \A r \in Requests : Asked(request[r])

(* A worker that sends has read no more attempts than there are, unless    *)
(* the delivery went with its member.                                      *)
CountsBehind == \A s \in sending :
  /\ delivery[s[2]].status = None => s[2][2] \notin members
  /\ delivery[s[2]].status # None => s[3] <= delivery[s[2]].attempts

IInv ==
  /\ WorkTypeOK
  /\ AllAsked
  /\ RemovedIsGone
  /\ CountsBehind
  /\ GivenUpForCause
-----------------------------------------------------------------------------
LEMMA InitInv == Init => IInv
<1> SUFFICES ASSUME Init PROVE IInv
  OBVIOUS
<1>1. NoRequest \in RequestRow /\ NoTask \in Tasks /\ NoDelivery \in DeliveryRow
  BY DEF NoRequest, NoTask, NoDelivery, RequestRow, DeliveryRow, Tasks, Statuses
<1>2. <<>> \in Seq(Events) /\ Len(<<>>) = 0
  OBVIOUS
<1>3. WorkTypeOK
  BY <1>1, <1>2, WorkAssumption DEF Init, WorkTypeOK, RequestRow, DeliveryRow
<1>4. AllAsked
  BY DEF Init, AllAsked, Asked, NoRequest, None
<1>5. RemovedIsGone /\ CountsBehind /\ GivenUpForCause
  BY DEF Init, RemovedIsGone, CountsBehind, GivenUpForCause, NoTask, NoDelivery, None
<1> QED BY <1>3, <1>4, <1>5 DEF IInv

(* A step of the requests for the task.                                    *)
LEMMA TaskStep ==
  ASSUME IInv, UNCHANGED <<members, line, mode, noticeVars, lineVars>>,
         request' \in [Requests -> RequestRow], AllAsked',
         \/ UNCHANGED events
         \/ \E e \in Events : InsertDomainEvent(e),
         task' \in Tasks, task'.assignee \in members \cup {None},
         watchers' \subseteq members
  PROVE  IInv'
<1>1. /\ events' \in Seq(Events) /\ Len(events') <= MaxEvents
      /\ Len(events) <= Len(events') /\ Len(events) \in Nat /\ Len(events') \in Nat
  <2>1. events \in Seq(Events) /\ Len(events) <= MaxEvents /\ MaxEvents \in Nat
    BY WorkAssumption DEF IInv, WorkTypeOK
  <2>2. CASE UNCHANGED events
    BY <2>1, <2>2
  <2>3. ASSUME NEW e \in Events, InsertDomainEvent(e)
        PROVE  /\ events' \in Seq(Events) /\ Len(events') = Len(events) + 1
               /\ Len(events) < MaxEvents
    BY <2>1, <2>3 DEF InsertDomainEvent
  <2> QED BY <2>1, <2>2, <2>3
<1>2. processed' \subseteq 1 .. Len(events')
  BY <1>1 DEF IInv, WorkTypeOK, noticeVars
<1>3. WorkTypeOK'
  BY <1>1, <1>2 DEF IInv, WorkTypeOK, RequestRow, noticeVars, lineVars
<1>4. RemovedIsGone'
  BY DEF IInv, RemovedIsGone, noticeVars, lineVars
<1>5. CountsBehind' /\ GivenUpForCause'
  BY DEF IInv, CountsBehind, GivenUpForCause, noticeVars, lineVars
<1> QED BY <1>3, <1>4, <1>5 DEF IInv

LEMMA RequestEnds ==
  ASSUME IInv, NEW r \in Requests, request' = [request EXCEPT ![r] = NoRequest]
  PROVE  request' \in [Requests -> RequestRow] /\ AllAsked'
<1>1. NoRequest \in RequestRow /\ Asked(NoRequest)
  BY DEF NoRequest, RequestRow, NoTask, Tasks, Statuses, Asked, None
<1>2. request \in [Requests -> RequestRow]
  BY DEF IInv, WorkTypeOK, RequestRow
<1>3. request' \in [Requests -> RequestRow]
  BY <1>1, <1>2
<1>4. AllAsked'
  BY <1>1, <1>2 DEF IInv, AllAsked
<1> QED BY <1>3, <1>4

LEMMA CreateTaskStep ==
  ASSUME IInv, NEW u \in Users, NEW v \in Users \cup {None}, CreateTask(u, v)
  PROVE  IInv'
<1>1. Event("created", u, None, v) \in Events
  BY DEF Event, Events
<1>2. task' \in Tasks /\ task'.assignee \in members \cup {None}
  BY DEF CreateTask, Tasks, Assignable, Statuses
<1>3. UNCHANGED <<members, line, mode, watchers, request, noticeVars, lineVars>>
  BY DEF CreateTask
<1>4. request' \in [Requests -> RequestRow] /\ AllAsked' /\ watchers' \subseteq members
  BY <1>3 DEF IInv, WorkTypeOK, RequestRow, AllAsked, RemovedIsGone
<1> QED BY <1>1, <1>2, <1>3, <1>4, TaskStep DEF CreateTask

LEMMA LockTaskStep ==
  ASSUME IInv, NEW r \in Requests, LockTask(r)
  PROVE  IInv'
<1>1. PICK u \in members, op \in Fields : \E v \in Values(op) :
        request' = [request EXCEPT ![r] =
              [step |-> "locked", op |-> op, actor |-> u, value |-> v, read |-> task]]
  BY DEF LockTask
<1>2. PICK v \in Values(op) :
        request' = [request EXCEPT ![r] =
              [step |-> "locked", op |-> op, actor |-> u, value |-> v, read |-> task]]
  BY <1>1
<1> DEFINE new == [step |-> "locked", op |-> op, actor |-> u, value |-> v, read |-> task]
<1>3. /\ u \in Users /\ v \in Users \cup Statuses \cup {None}
      /\ op = "assign" => v \in Users \cup {None}
      /\ op = "status" => v \in Statuses
  BY DEF Fields, Values, IInv, WorkTypeOK
<1>4. new \in RequestRow /\ Asked(new)
  BY <1>3 DEF RequestRow, Asked, IInv, WorkTypeOK, Fields
<1>5. request \in [Requests -> RequestRow]
  BY DEF IInv, WorkTypeOK, RequestRow
<1> HIDE DEF new
<1>6. request' \in [Requests -> RequestRow] /\ AllAsked'
  BY <1>2, <1>4, <1>5 DEF IInv, AllAsked, new
<1>7. UNCHANGED <<members, line, mode, task, watchers, events, noticeVars, lineVars>>
  BY DEF LockTask
<1>8. task' \in Tasks /\ task'.assignee \in members \cup {None} /\ watchers' \subseteq members
  BY <1>7 DEF IInv, WorkTypeOK, RemovedIsGone
<1> QED BY <1>6, <1>7, <1>8, TaskStep

LEMMA UpdateTaskStep ==
  ASSUME IInv, NEW r \in Requests, UpdateTask(r)
  PROVE  IInv'
<1> DEFINE q == request[r]
<1>1. /\ q.step = "locked" /\ q \in RequestRow /\ Asked(q) /\ q.actor \in Users
  BY DEF UpdateTask, IInv, WorkTypeOK, RequestRow, AllAsked, Asked
<1>2. Updated(q) \in Tasks /\ EventOf(q) \in Events
  <2>1. q.read \in Tasks /\ q.op \in Fields
    BY <1>1 DEF RequestRow, Asked
  <2>2. q.read.assignee \in Users \cup {None} /\ q.read.status \in Statuses
    BY <2>1 DEF Tasks
  <2>3. CASE q.op = "assign"
    <3>1. q.value \in Users \cup {None}
      BY <1>1, <2>3 DEF Asked
    <3>2. [q.read EXCEPT !.assignee = q.value] \in Tasks
      BY <2>1, <3>1 DEF Tasks
    <3> QED BY <1>1, <2>2, <2>3, <3>1, <3>2 DEF Updated, EventOf, Event, Events
  <2>4. CASE q.op = "status"
    <3>1. q.value \in Statuses
      BY <1>1, <2>4 DEF Asked
    <3>2. [q.read EXCEPT !.status = q.value] \in Tasks
      BY <2>1, <3>1 DEF Tasks
    <3> QED BY <1>1, <2>2, <2>4, <3>1, <3>2 DEF Updated, EventOf, Event, Events
  <2>5. CASE q.op = "details"
    BY <1>1, <2>1, <2>5 DEF Updated, EventOf, Event, Events
  <2> QED BY <2>1, <2>3, <2>4, <2>5 DEF Fields
<1>3. /\ task' = Updated(q) /\ Assignable(Updated(q).assignee)
      /\ watchers' = watchers \ {Updated(q).assignee}
      /\ UNCHANGED events \/ InsertDomainEvent(EventOf(q))
      /\ request' = [request EXCEPT ![r] = NoRequest]
      /\ UNCHANGED <<members, line, mode, noticeVars, lineVars>>
  BY DEF UpdateTask
<1>4. task' \in Tasks /\ task'.assignee \in members \cup {None} /\ watchers' \subseteq members
  BY <1>2, <1>3 DEF Assignable, IInv, RemovedIsGone
<1>5. request' \in [Requests -> RequestRow] /\ AllAsked'
  BY <1>3, RequestEnds
<1> HIDE DEF q
<1> QED BY <1>2, <1>3, <1>4, <1>5, TaskStep

LEMMA AssignReviewTasksStep ==
  ASSUME IInv, NEW u \in Users, NEW v \in Users \cup {None}, AssignReviewTasks(u, v)
  PROVE  IInv'
<1>1. Event("assigned", u, None, v) \in Events
  BY DEF Event, Events
<1>2. task' \in Tasks /\ task'.assignee \in members \cup {None}
  BY DEF AssignReviewTasks, IInv, WorkTypeOK, Tasks, Assignable
<1>3. UNCHANGED <<members, line, mode, watchers, request, noticeVars, lineVars>>
  BY DEF AssignReviewTasks
<1>4. request' \in [Requests -> RequestRow] /\ AllAsked' /\ watchers' \subseteq members
  BY <1>3 DEF IInv, WorkTypeOK, RequestRow, AllAsked, RemovedIsGone
<1> QED BY <1>1, <1>2, <1>3, <1>4, TaskStep DEF AssignReviewTasks

LEMMA AskToWatchStep ==
  ASSUME IInv, NEW r \in Requests, AskToWatch(r)
  PROVE  IInv'
<1>1. PICK u \in members, v \in Users, op \in {"watch", "unwatch"} :
        request' = [request EXCEPT ![r] =
            [NoRequest EXCEPT !.step = "watching", !.op = op, !.actor = u,
                              !.value = v]]
  BY DEF AskToWatch
<1> DEFINE new == [NoRequest EXCEPT !.step = "watching", !.op = op, !.actor = u,
                                    !.value = v]
<1>2. new \in RequestRow
  <2>1. NoRequest \in RequestRow
    BY DEF NoRequest, RequestRow, NoTask, Tasks, Statuses
  <2>2. \A row \in RequestRow : [row EXCEPT !.step = "watching"] \in RequestRow
    BY DEF RequestRow
  <2>3. \A row \in RequestRow : [row EXCEPT !.op = op] \in RequestRow
    BY DEF RequestRow
  <2>4. \A row \in RequestRow : [row EXCEPT !.actor = u] \in RequestRow
    BY DEF RequestRow, IInv, WorkTypeOK
  <2>5. \A row \in RequestRow : [row EXCEPT !.value = v] \in RequestRow
    BY DEF RequestRow
  <2> QED BY <2>1, <2>2, <2>3, <2>4, <2>5
<1>3. new.step = "watching" /\ new.actor = u /\ new.value = v
  BY DEF NoRequest
<1>4. request' = [request EXCEPT ![r] = new]
  BY <1>1
<1> HIDE DEF new
<1>5. Asked(new)
  BY <1>3 DEF Asked, IInv, WorkTypeOK
<1>6. request \in [Requests -> RequestRow]
  BY DEF IInv, WorkTypeOK, RequestRow
<1>7. request' \in [Requests -> RequestRow] /\ AllAsked'
  BY <1>2, <1>4, <1>5, <1>6 DEF IInv, AllAsked
<1>8. UNCHANGED <<members, line, mode, task, watchers, events, noticeVars, lineVars>>
  BY DEF AskToWatch
<1>9. task' \in Tasks /\ task'.assignee \in members \cup {None} /\ watchers' \subseteq members
  BY <1>8 DEF IInv, WorkTypeOK, RemovedIsGone
<1> QED BY <1>7, <1>8, <1>9, TaskStep

LEMMA WatcherStep ==
  ASSUME IInv, NEW r \in Requests, AddWatcher(r) \/ RemoveWatcher(r) \/ RollBack(r)
  PROVE  IInv'
<1> DEFINE q == request[r]
<1>1. q \in RequestRow /\ Asked(q)
  BY DEF IInv, WorkTypeOK, RequestRow, AllAsked
<1>2. request' = [request EXCEPT ![r] = NoRequest]
      /\ UNCHANGED <<members, line, mode, task, noticeVars, lineVars>>
  BY DEF AddWatcher, RemoveWatcher, RollBack
<1>3. watchers' \subseteq members
  BY DEF AddWatcher, RemoveWatcher, RollBack, MayWatch, IInv, RemovedIsGone
<1>4. UNCHANGED events \/ \E e \in Events : InsertDomainEvent(e)
  <2>1. CASE AddWatcher(r)
    <3>1. Event("watcher_added", q.actor, None, q.value) \in Events
      BY <1>1, <2>1 DEF AddWatcher, Asked, Event, Events
    <3> QED BY <2>1, <3>1 DEF AddWatcher
  <2>2. CASE RemoveWatcher(r)
    <3>1. Event("watcher_removed", q.actor, q.value, None) \in Events
      BY <1>1, <2>2 DEF RemoveWatcher, Asked, Event, Events
    <3> QED BY <2>2, <3>1 DEF RemoveWatcher
  <2>3. CASE RollBack(r)
    BY <2>3 DEF RollBack
  <2> QED BY <2>1, <2>2, <2>3
<1>5. request' \in [Requests -> RequestRow] /\ AllAsked'
  BY <1>2, RequestEnds
<1>6. task' \in Tasks /\ task'.assignee \in members \cup {None}
  BY <1>2 DEF IInv, WorkTypeOK, RemovedIsGone
<1> QED BY <1>2, <1>3, <1>4, <1>5, <1>6, TaskStep

-----------------------------------------------------------------------------
(* Everything that refers to the member goes with the membership.          *)
LEMMA RemoveMemberStep ==
  ASSUME IInv, NEW u \in Users, RemoveMember(u)
  PROVE  IInv'
<1>1. /\ members' = members \ {u} /\ u \notin reminded
      /\ mode' = [mode EXCEPT ![u] = "Off"]
      /\ task' = IF task.assignee = u THEN [task EXCEPT !.assignee = None] ELSE task
      /\ watchers' = watchers \ {u}
      /\ notices' = {n \in notices : n[2] # u}
      /\ stale' = {n \in stale : n[2] # u}
      /\ delivery' = [d \in Followed |->
           IF d[2] = u THEN NoDelivery ELSE delivery[d]]
      /\ UNCHANGED <<line, request, events, processed, reminded, sending>>
  BY DEF RemoveMember
<1>2. NoDelivery \in DeliveryRow /\ NoDelivery.status = None
  BY DEF NoDelivery, DeliveryRow, None
<1>3. delivery \in [Followed -> DeliveryRow] /\ task \in Tasks
  BY DEF IInv, WorkTypeOK, DeliveryRow
<1>4. delivery' \in [Followed -> DeliveryRow]
  BY <1>1, <1>2, <1>3
<1>5. task' \in Tasks /\ task'.assignee \in members' \cup {None}
  BY <1>1, <1>3 DEF Tasks, IInv, RemovedIsGone
<1>6. WorkTypeOK'
  BY <1>1, <1>4, <1>5 DEF IInv, WorkTypeOK, DeliveryRow
<1>7. \A d \in Followed : delivery'[d] = IF d[2] = u THEN NoDelivery ELSE delivery[d]
  BY <1>1
<1>8. RemovedIsGone'
  BY <1>1, <1>2, <1>5, <1>7 DEF IInv, RemovedIsGone
<1>9. CountsBehind'
  <2> SUFFICES ASSUME NEW s \in sending
               PROVE  /\ delivery'[s[2]].status = None => s[2][2] \notin members'
                      /\ delivery'[s[2]].status # None => s[3] <= delivery'[s[2]].attempts
    BY <1>1 DEF CountsBehind
  <2>1. s[2] \in Followed
    BY DEF IInv, WorkTypeOK
  <2> QED BY <1>1, <1>2, <1>7, <2>1 DEF IInv, CountsBehind
<1>10. GivenUpForCause'
  BY <1>2, <1>7 DEF IInv, GivenUpForCause, None
<1>11. AllAsked'
  BY <1>1 DEF IInv, AllAsked
<1> QED BY <1>6, <1>8, <1>9, <1>10, <1>11 DEF IInv

LEMMA SettingsStep ==
  ASSUME IInv, NEW u \in Users,
         \/ LinkLINE(u) \/ UnlinkLINE(u)
         \/ \E m \in {"Off", "Immediate"} : SetPreference(u, m)
  PROVE  IInv'
<1>1. /\ UNCHANGED <<members, taskVars, processed, reminded, notices, lineVars>>
      /\ mode' \in [Users -> {"Off", "Immediate"}]
      /\ stale' \subseteq notices
  BY DEF LinkLINE, UnlinkLINE, SetPreference, noticeVars, IInv, WorkTypeOK
<1>2. line' \subseteq Users
  BY DEF LinkLINE, UnlinkLINE, SetPreference, IInv, WorkTypeOK
<1>3. WorkTypeOK'
  BY <1>1, <1>2 DEF IInv, WorkTypeOK, taskVars, lineVars
<1>4. RemovedIsGone' /\ CountsBehind' /\ GivenUpForCause' /\ AllAsked'
  BY <1>1 DEF IInv, RemovedIsGone, CountsBehind, GivenUpForCause, AllAsked,
              taskVars, lineVars
<1> QED BY <1>3, <1>4 DEF IInv

(* Notices are added for members, and deliveries for notices.              *)
LEMMA NoticesStep ==
  ASSUME IInv, UNCHANGED <<members, line, mode, taskVars, stale, sending>>,
         processed' \subseteq 1 .. Len(events), reminded' \subseteq members,
         notices \subseteq notices', notices' \subseteq Notices,
         \A n \in notices' : n[2] \in members,
         QueueImmediateLINE(notices')
  PROVE  IInv'
<1> DEFINE Pending == [NoDelivery EXCEPT !.status = "Pending"]
<1>1. Pending \in DeliveryRow /\ Pending.status = "Pending"
  BY DEF NoDelivery, DeliveryRow
<1>2. delivery \in [Followed -> DeliveryRow]
  BY DEF IInv, WorkTypeOK, DeliveryRow
<1> HIDE DEF Pending
<1>3. \A d \in Followed :
        \/ delivery'[d] = delivery[d]
        \/ d \in notices' /\ delivery[d].status = None /\ delivery'[d] = Pending
  BY DEF QueueImmediateLINE, Pending
<1>4. delivery' \in [Followed -> DeliveryRow]
  <2>1. \A d \in Followed : delivery'[d] \in DeliveryRow
    BY <1>1, <1>2, <1>3
  <2> QED BY <2>1 DEF QueueImmediateLINE
<1>5. WorkTypeOK'
  BY <1>4 DEF IInv, WorkTypeOK, taskVars, DeliveryRow
<1>6. RemovedIsGone'
  BY <1>3 DEF IInv, RemovedIsGone, taskVars
<1>7. CountsBehind'
  <2> SUFFICES ASSUME NEW s \in sending
               PROVE  /\ delivery'[s[2]].status = None => s[2][2] \notin members
                      /\ delivery'[s[2]].status # None => s[3] <= delivery'[s[2]].attempts
    BY DEF CountsBehind
  <2>1. s[2] \in Followed
    BY DEF IInv, WorkTypeOK
  <2>2. delivery[s[2]].status = None => s[2] \notin notices'
    BY DEF IInv, CountsBehind
  <2> QED BY <1>3, <2>1, <2>2 DEF IInv, CountsBehind
<1>8. GivenUpForCause'
  BY <1>1, <1>3 DEF IInv, GivenUpForCause
<1>9. AllAsked'
  BY DEF IInv, AllAsked, taskVars
<1> QED BY <1>5, <1>6, <1>7, <1>8, <1>9 DEF IInv

LEMMA ProcessStep ==
  ASSUME IInv, NEW k \in 1 .. Len(events), ProcessDomainEvents(k)
  PROVE  IInv'
<1>1. PICK told \in SUBSET members :
        /\ processed' = processed \cup {k}
        /\ notices' = notices \cup {<<k, u>> : u \in told}
        /\ QueueImmediateLINE(notices')
        /\ UNCHANGED <<members, line, mode, taskVars, reminded, stale, sending>>
  BY DEF ProcessDomainEvents
<1>2. k \in 0 .. MaxEvents
  BY WorkAssumption DEF IInv, WorkTypeOK
<1>3. notices' \subseteq Notices /\ \A n \in notices' : n[2] \in members
  BY <1>1, <1>2 DEF IInv, WorkTypeOK, Notices, RemovedIsGone
<1>4. processed' \subseteq 1 .. Len(events) /\ reminded' \subseteq members
  BY <1>1 DEF IInv, WorkTypeOK, RemovedIsGone
<1> QED BY <1>1, <1>3, <1>4, NoticesStep

LEMMA RemindStep ==
  ASSUME IInv, ScheduleReminders
  PROVE  IInv'
<1>1. /\ notices' = notices \cup {<<0, u>> : u \in reminded'}
      /\ QueueImmediateLINE(notices')
      /\ UNCHANGED <<members, line, mode, taskVars, processed, stale, sending>>
  BY DEF ScheduleReminders
<1>2. reminded' \subseteq members
  BY DEF ScheduleReminders, IInv, RemovedIsGone
<1>3. notices' \subseteq Notices /\ \A n \in notices' : n[2] \in members
  BY <1>1, <1>2, WorkAssumption DEF IInv, WorkTypeOK, Notices, RemovedIsGone
<1>4. processed' \subseteq 1 .. Len(events)
  BY <1>1 DEF IInv, WorkTypeOK
<1> QED BY <1>1, <1>2, <1>3, <1>4, NoticesStep

(* One delivery moves on; its attempts are not uncounted.                  *)
LEMMA DeliveryStep ==
  ASSUME IInv, UNCHANGED <<members, line, mode, taskVars, noticeVars>>,
         NEW d \in Followed, NEW row \in DeliveryRow,
         \/ delivery' = delivery
         \/ /\ delivery[d].status # None /\ delivery' = [delivery EXCEPT ![d] = row]
            /\ row.status # None /\ delivery[d].attempts <= row.attempts
            /\ row.status = "Failed" => row.refused \/ row.attempts > Retries,
         sending' \subseteq Workers \X Followed \X Nat,
         \A s \in sending' \ sending :
           s[2] = d /\ delivery'[d].status # None /\ s[3] <= delivery'[d].attempts
  PROVE  IInv'
<1>1. delivery \in [Followed -> DeliveryRow]
  BY DEF IInv, WorkTypeOK, DeliveryRow
<1>2. /\ delivery' \in [Followed -> DeliveryRow]
      /\ \A e \in Followed :
           \/ delivery'[e] = delivery[e]
           \/ /\ e = d /\ delivery'[e] = row /\ delivery[e].status # None
              /\ row.status # None /\ delivery[e].attempts <= row.attempts
              /\ row.status = "Failed" => row.refused \/ row.attempts > Retries
  BY <1>1
<1>3. WorkTypeOK'
  BY <1>2 DEF IInv, WorkTypeOK, taskVars, noticeVars, DeliveryRow
<1>4. RemovedIsGone'
  BY <1>2 DEF IInv, RemovedIsGone, taskVars, noticeVars
<1>5. CountsBehind'
  <2> SUFFICES ASSUME NEW s \in sending'
               PROVE  /\ delivery'[s[2]].status = None => s[2][2] \notin members
                      /\ delivery'[s[2]].status # None => s[3] <= delivery'[s[2]].attempts
    BY DEF CountsBehind
  <2>1. CASE s \notin sending
    BY <2>1
  <2>2. CASE s \in sending
    <3>1. s[2] \in Followed /\ s[3] \in Nat
      BY <2>2 DEF IInv, WorkTypeOK
    <3>2. delivery[s[2]].attempts \in Nat /\ row.attempts \in Nat
      BY <1>1, <3>1 DEF DeliveryRow
    <3>3. /\ delivery[s[2]].status = None => s[2][2] \notin members
          /\ delivery[s[2]].status # None => s[3] <= delivery[s[2]].attempts
      BY <2>2 DEF IInv, CountsBehind
    <3> QED BY <1>2, <3>1, <3>2, <3>3
  <2> QED BY <2>1, <2>2
<1>6. GivenUpForCause'
  BY <1>2 DEF IInv, GivenUpForCause
<1>7. AllAsked'
  BY DEF IInv, AllAsked, taskVars
<1> QED BY <1>3, <1>4, <1>5, <1>6, <1>7 DEF IInv

LEMMA ClaimStep ==
  ASSUME IInv, NEW w \in Workers, NEW d \in Followed, ClaimLINEDelivery(w, d)
  PROVE  IInv'
<1> DEFINE row == [delivery[d] EXCEPT !.status = "Processing"]
<1>1. delivery \in [Followed -> DeliveryRow]
  BY DEF IInv, WorkTypeOK, DeliveryRow
<1>2. /\ row \in DeliveryRow /\ row.status = "Processing"
      /\ row.attempts = delivery[d].attempts /\ delivery[d].attempts \in Nat
  BY <1>1 DEF DeliveryRow
<1>3. /\ delivery' = [delivery EXCEPT ![d] = row] /\ delivery[d].status # None
      /\ sending' = sending \cup
           IF d[2] \in line THEN {<<w, d, delivery[d].attempts>>} ELSE {}
      /\ UNCHANGED <<members, line, mode, taskVars, noticeVars>>
  BY DEF ClaimLINEDelivery, None
<1> HIDE DEF row
<1>4. delivery'[d] = row
  BY <1>1, <1>3
<1>5. sending' \subseteq Workers \X Followed \X Nat
  BY <1>2, <1>3 DEF IInv, WorkTypeOK
<1>6. \A s \in sending' \ sending :
        s[2] = d /\ delivery'[d].status # None /\ s[3] <= delivery'[d].attempts
  BY <1>2, <1>3, <1>4 DEF None
<1>7. row.status # None /\ row.status # "Failed" /\ delivery[d].attempts <= row.attempts
  BY <1>2 DEF None
<1> QED BY <1>2, <1>3, <1>5, <1>6, <1>7, DeliveryStep

LEMMA CompleteStep ==
  ASSUME IInv, NEW s \in sending, CompleteLINEDelivery(s)
  PROVE  IInv'
<1> DEFINE d == s[2]
           row == [delivery[d] EXCEPT !.status = "Delivered"]
<1>1. delivery \in [Followed -> DeliveryRow] /\ d \in Followed
  BY DEF IInv, WorkTypeOK, DeliveryRow
<1>2. /\ row \in DeliveryRow /\ row.status = "Delivered"
      /\ row.attempts = delivery[d].attempts /\ delivery[d].attempts \in Nat
  BY <1>1 DEF DeliveryRow
<1>3. /\ \/ delivery' = delivery
         \/ delivery[d].status # None /\ delivery' = [delivery EXCEPT ![d] = row]
      /\ sending' = sending \ {s}
      /\ UNCHANGED <<members, line, mode, taskVars, noticeVars>>
  BY DEF CompleteLINEDelivery
<1> HIDE DEF row, d
<1>4. sending' \subseteq Workers \X Followed \X Nat /\ sending' \ sending = {}
  BY <1>3 DEF IInv, WorkTypeOK
<1>5. row.status # None /\ row.status # "Failed" /\ delivery[d].attempts <= row.attempts
  BY <1>2 DEF None
<1> QED BY <1>1, <1>2, <1>3, <1>4, <1>5, DeliveryStep

(* The count that was read is at most behind: when it says that all        *)
(* retries were used, they were.                                           *)
LEMMA FailStep ==
  ASSUME IInv, NEW s \in sending, NEW permanent \in BOOLEAN,
         FailLINEDelivery(s, permanent)
  PROVE  IInv'
<1> DEFINE d == s[2]
           old == delivery[d]
           retry == ~permanent /\ LineRetry(s[3] + 1)
           row == [status |-> IF retry THEN "Retryable" ELSE "Failed",
                   attempts |-> old.attempts + 1,
                   refused |-> old.refused \/ permanent]
<1>1. delivery \in [Followed -> DeliveryRow] /\ d \in Followed /\ s[3] \in Nat
  BY DEF IInv, WorkTypeOK, DeliveryRow
<1>2. old.attempts \in Nat /\ old.refused \in BOOLEAN
  BY <1>1 DEF DeliveryRow
<1>3. /\ row \in DeliveryRow /\ row.status = (IF retry THEN "Retryable" ELSE "Failed")
      /\ row.attempts = old.attempts + 1
  BY <1>2 DEF DeliveryRow
<1>4. permanent => row.refused
  BY Zenon
<1>5. /\ \/ delivery' = delivery
         \/ delivery[d].status # None /\ delivery' = [delivery EXCEPT ![d] = row]
      /\ sending' = sending \ {s}
      /\ UNCHANGED <<members, line, mode, taskVars, noticeVars>>
  BY DEF FailLINEDelivery
<1>6. old.status # None => s[3] <= old.attempts
  BY DEF IInv, CountsBehind
<1> HIDE DEF row, old, d
<1>7. row.status # None /\ old.attempts <= row.attempts
  BY <1>2, <1>3 DEF None
<1>8. old.status # None /\ row.status = "Failed" =>
        row.refused \/ row.attempts > Retries
  BY <1>1, <1>2, <1>3, <1>4, <1>6, WorkAssumption DEF LineRetry
<1>9. sending' \subseteq Workers \X Followed \X Nat /\ sending' \ sending = {}
  BY <1>5 DEF IInv, WorkTypeOK
<1> HIDE DEF retry
<1> QED BY <1>1, <1>3, <1>5, <1>7, <1>8, <1>9, DeliveryStep DEF old

LEMMA CrashStep ==
  ASSUME IInv, NEW s \in sending, Crash(s)
  PROVE  IInv'
<1>1. delivery \in [Followed -> DeliveryRow] /\ s[2] \in Followed
  BY DEF IInv, WorkTypeOK, DeliveryRow
<1>2. /\ delivery' = delivery /\ sending' = sending \ {s}
      /\ UNCHANGED <<members, line, mode, taskVars, noticeVars>>
  BY DEF Crash
<1>3. sending' \subseteq Workers \X Followed \X Nat /\ sending' \ sending = {}
  BY <1>2 DEF IInv, WorkTypeOK
<1>4. delivery[s[2]] \in DeliveryRow
  BY <1>1
<1> QED BY <1>1, <1>2, <1>3, <1>4, DeliveryStep

LEMMA NextInv == IInv /\ [Next]_vars => IInv'
<1> SUFFICES ASSUME IInv, [Next]_vars PROVE IInv'
  OBVIOUS
<1>1. CASE UNCHANGED vars
  BY <1>1 DEF vars, taskVars, noticeVars, lineVars, IInv, WorkTypeOK, AllAsked,
              RemovedIsGone, CountsBehind, GivenUpForCause
<1>2. CASE \E u \in Users, v \in Users \cup {None} :
             CreateTask(u, v) \/ AssignReviewTasks(u, v)
  BY <1>2, CreateTaskStep, AssignReviewTasksStep
<1>3. ASSUME NEW r \in Requests,
             \/ LockTask(r) \/ UpdateTask(r)
             \/ AskToWatch(r) \/ AddWatcher(r) \/ RemoveWatcher(r)
             \/ RollBack(r)
      PROVE  IInv'
  BY <1>3, LockTaskStep, UpdateTaskStep, AskToWatchStep, WatcherStep
<1>4. ASSUME NEW u \in Users,
             \/ RemoveMember(u) \/ LinkLINE(u) \/ UnlinkLINE(u)
             \/ \E m \in {"Off", "Immediate"} : SetPreference(u, m)
      PROVE  IInv'
  BY <1>4, RemoveMemberStep, SettingsStep
<1>5. CASE \E k \in 1 .. Len(events) : ProcessDomainEvents(k)
  BY <1>5, ProcessStep
<1>6. CASE ScheduleReminders
  BY <1>6, RemindStep
<1>7. CASE \E w \in Workers, d \in Followed : ClaimLINEDelivery(w, d)
  BY <1>7, ClaimStep
<1>8. ASSUME NEW s \in sending,
             \/ CompleteLINEDelivery(s)
             \/ \E permanent \in BOOLEAN : FailLINEDelivery(s, permanent)
             \/ Crash(s)
      PROVE  IInv'
  BY <1>8, CompleteStep, FailStep, CrashStep
<1> QED BY <1>1, <1>2, <1>3, <1>4, <1>5, <1>6, <1>7, <1>8 DEF Next

-----------------------------------------------------------------------------
(* The history.  A request that holds the lock has read the row as it is,  *)
(* and no other request holds the lock.                                    *)
Locked(r) == request[r].step = "locked"
Serial ==
  /\ \A r \in Requests : Locked(r) => request[r].read = task /\ task # NoTask
  /\ \A r, s \in Requests : Locked(r) /\ Locked(s) => r = s

(* A step that leaves the events and, but for the end of a membership, the *)
(* task alone.                                                             *)
LEMMA HistoryStays ==
  ASSUME HistoryTellsTask, UNCHANGED events, task'.status = task.status,
         task'.assignee \in {None, task.assignee}
  PROVE  HistoryTellsTask'
BY DEF HistoryTellsTask, IsLatest, StatusAfter

(* A step that writes down what it did to the task.                        *)
LEMMA HistoryGrows ==
  ASSUME IInv, HistoryTellsTask, NEW e \in Events, InsertDomainEvent(e),
         e.type = "status" => e.from = task.status /\ task'.status = e.to,
         e.type # "status" => task'.status = task.status,
         e.type \in {"created", "assigned"} => task'.assignee = e.to,
         e.type \notin {"created", "assigned"} => task'.assignee = task.assignee
  PROVE  HistoryTellsTask'
<1>0. PICK n \in Nat : n = Len(events)
  BY DEF IInv, WorkTypeOK
<1>1. /\ Len(events') = n + 1
      /\ events'[n + 1] = e
      /\ \A k \in 1 .. n : events'[k] = events[k]
  <2>1. events \in Seq(Events)
    BY DEF IInv, WorkTypeOK
  <2> QED BY <1>0, <2>1 DEF InsertDomainEvent
<1> SUFFICES ASSUME NEW i \in 0 .. (n + 1)
             PROVE  /\ \A k \in 1 .. (n + 1) :
                         events'[k].type = "status" /\ IsLatest(i, k - 1, {"status"})'
                           => events'[k].from = StatusAfter(i)'
                    /\ IsLatest(i, n + 1, {"status"})' => task'.status = StatusAfter(i)'
                    /\ IsLatest(i, n + 1, {"created", "assigned"})'
                         => task'.assignee = None \/ (i # 0 /\ task'.assignee = events'[i].to)
  BY <1>1 DEF HistoryTellsTask
<1>2. ASSUME NEW k \in 0 .. n, NEW T, IsLatest(i, k, T)'
      PROVE  i \in 0 .. n /\ IsLatest(i, k, T)
  BY <1>1, <1>2 DEF IsLatest
<1>3. ASSUME i \in 0 .. n PROVE StatusAfter(i)' = StatusAfter(i)
  BY <1>1, <1>3 DEF StatusAfter
<1>4. ASSUME NEW T, IsLatest(i, n + 1, T)'
      PROVE  \/ i = n + 1 /\ e.type \in T
             \/ i \in 0 .. n /\ e.type \notin T /\ IsLatest(i, n, T)
  BY <1>1, <1>4 DEF IsLatest
<1>5. ASSUME NEW k \in 1 .. (n + 1), events'[k].type = "status",
             IsLatest(i, k - 1, {"status"})'
      PROVE  events'[k].from = StatusAfter(i)'
  <2>1. k - 1 \in 0 .. n
    BY <1>1
  <2>2. i \in 0 .. n /\ IsLatest(i, k - 1, {"status"})
    BY <1>2, <1>5, <2>1
  <2>3. CASE k \in 1 .. n
    BY <1>0, <1>1, <1>3, <1>5, <2>2, <2>3 DEF HistoryTellsTask
  <2>4. CASE k = n + 1
    BY <1>0, <1>1, <1>3, <1>5, <2>2, <2>4 DEF HistoryTellsTask
  <2> QED BY <1>1, <2>3, <2>4
<1>6. ASSUME IsLatest(i, n + 1, {"status"})' PROVE task'.status = StatusAfter(i)'
  <2>1. CASE i = n + 1 /\ e.type = "status"
    BY <1>1, <2>1 DEF StatusAfter
  <2>2. CASE i \in 0 .. n /\ e.type # "status" /\ IsLatest(i, n, {"status"})
    BY <1>0, <1>3, <2>2 DEF HistoryTellsTask
  <2> QED BY <1>4, <1>6, <2>1, <2>2
<1>7. ASSUME IsLatest(i, n + 1, {"created", "assigned"})'
      PROVE  task'.assignee = None \/ (i # 0 /\ task'.assignee = events'[i].to)
  <2>1. CASE i = n + 1 /\ e.type \in {"created", "assigned"}
    BY <1>1, <2>1
  <2>2. CASE /\ i \in 0 .. n /\ e.type \notin {"created", "assigned"}
             /\ IsLatest(i, n, {"created", "assigned"})
    BY <1>0, <1>1, <2>2 DEF HistoryTellsTask
  <2> QED BY <1>4, <1>7, <2>1, <2>2
<1> QED BY <1>5, <1>6, <1>7

(* A request that ends without having touched the task.                    *)
LEMMA SerialEnds ==
  ASSUME IInv, Serial, NEW r \in Requests, request' = [request EXCEPT ![r] = NoRequest],
         task' = task \/ Locked(r)
  PROVE  Serial'
<1>1. \A s \in Requests : s # r => request'[s] = request[s]
  BY DEF IInv, WorkTypeOK
<1>2. request'[r].step # "locked"
  BY DEF IInv, WorkTypeOK, NoRequest, None
<1> QED BY <1>1, <1>2 DEF Serial, Locked

(* A step of a transaction that takes no part in the locking of requests,  *)
(* when the row is free or left as it is.                                  *)
LEMMA SerialStays ==
  ASSUME Serial, UNCHANGED request, task' = task \/ ~TaskLocked
  PROVE  Serial'
BY DEF Serial, Locked, TaskLocked

LEMMA LockHistory ==
  ASSUME IInv, Serial, HistoryTellsTask, NEW r \in Requests, LockTask(r)
  PROVE  Serial' /\ HistoryTellsTask'
<1>1. ~TaskLocked /\ task # NoTask /\ UNCHANGED <<task, events>>
  BY DEF LockTask, LockFree
<1>2. /\ \A s \in Requests : s # r => request'[s] = request[s]
      /\ request'[r].read = task
  BY DEF LockTask, IInv, WorkTypeOK
<1>3. Serial'
  BY <1>1, <1>2 DEF Serial, Locked, TaskLocked
<1> QED BY <1>1, <1>3, HistoryStays

LEMMA UpdateHistory ==
  ASSUME IInv, Serial, HistoryTellsTask, NEW r \in Requests, UpdateTask(r)
  PROVE  Serial' /\ HistoryTellsTask'
<1> DEFINE q == request[r]
           row == Updated(q)
           e == EventOf(q)
<1>1. /\ Locked(r) /\ task' = row /\ request' = [request EXCEPT ![r] = NoRequest]
      /\ IF row = q.read /\ q.op # "details" THEN UNCHANGED events
         ELSE InsertDomainEvent(e)
  BY DEF UpdateTask, Locked
<1>2. /\ q.read = task /\ task \in Tasks
      /\ q.op \in Fields /\ q.actor \in Users
      /\ q.op = "assign" => q.value \in Users \cup {None}
      /\ q.op = "status" => q.value \in Statuses
  BY <1>1 DEF Serial, Locked, IInv, WorkTypeOK, AllAsked, Asked
<1>3. Serial'
  BY <1>1, SerialEnds
<1>4. /\ q.op = "assign" => row.assignee = q.value /\ row.status = task.status
      /\ q.op = "status" => row.assignee = task.assignee /\ row.status = q.value
      /\ q.op = "details" => row = task
  BY <1>2 DEF Updated, Tasks
<1>5. /\ q.op = "assign" => e.type = "assigned" /\ e.to = q.value
      /\ q.op = "status" => e.type = "status" /\ e.from = task.status /\ e.to = q.value
      /\ q.op = "details" => e.type = "details"
      /\ e \in Events
  BY <1>2 DEF EventOf, Event, Events, Fields, Tasks
<1> HIDE DEF q, row, e
<1>6. CASE row = q.read /\ q.op # "details"
  BY <1>1, <1>2, <1>3, <1>6, HistoryStays
<1>7. CASE InsertDomainEvent(e)
  BY <1>1, <1>2, <1>3, <1>4, <1>5, <1>7, HistoryGrows DEF Fields
<1> QED BY <1>1, <1>6, <1>7

LEMMA NewTaskHistory ==
  ASSUME IInv, Serial, HistoryTellsTask, NEW u \in Users, NEW v \in Users \cup {None},
         CreateTask(u, v) \/ AssignReviewTasks(u, v)
  PROVE  Serial' /\ HistoryTellsTask'
<1>1. CASE CreateTask(u, v)
  <2> DEFINE e == Event("created", u, None, v)
  <2>1. /\ task = NoTask /\ task'.assignee = v /\ task'.status = "Open"
        /\ InsertDomainEvent(e) /\ UNCHANGED request
    BY <1>1 DEF CreateTask
  <2>2. e \in Events /\ e.type = "created" /\ e.to = v
    BY DEF Event, Events
  <2>3. task.status = "Open" /\ ~TaskLocked
    BY <2>1 DEF NoTask, Serial, Locked, TaskLocked
  <2> HIDE DEF e
  <2> QED BY <2>1, <2>2, <2>3, HistoryGrows, SerialStays
<1>2. CASE AssignReviewTasks(u, v)
  <2> DEFINE e == Event("assigned", u, None, v)
  <2>1. /\ task' = [task EXCEPT !.assignee = v] /\ ~TaskLocked
        /\ InsertDomainEvent(e) /\ UNCHANGED request
    BY <1>2 DEF AssignReviewTasks, LockFree
  <2>2. e \in Events /\ e.type = "assigned" /\ e.to = v
    BY DEF Event, Events
  <2>3. task'.status = task.status /\ task'.assignee = v
    BY <2>1 DEF IInv, WorkTypeOK, Tasks
  <2> HIDE DEF e
  <2> QED BY <2>1, <2>2, <2>3, HistoryGrows, SerialStays
<1> QED BY <1>1, <1>2

(* Watchers change without the lock, but not the task.                     *)
LEMMA WatcherHistory ==
  ASSUME IInv, Serial, HistoryTellsTask, NEW r \in Requests,
         AskToWatch(r) \/ AddWatcher(r) \/ RemoveWatcher(r) \/ RollBack(r)
  PROVE  Serial' /\ HistoryTellsTask'
<1> DEFINE q == request[r]
<1>0. UNCHANGED task /\ (q \in RequestRow /\ Asked(q))
  BY DEF AskToWatch, AddWatcher, RemoveWatcher, RollBack, IInv, WorkTypeOK,
         RequestRow, AllAsked
<1>1. CASE AskToWatch(r)
  <2>1. UNCHANGED events
    BY <1>1 DEF AskToWatch
  <2>2. /\ \A s \in Requests : s # r => request'[s] = request[s]
        /\ request'[r].step # "locked"
    BY <1>1 DEF AskToWatch, IInv, WorkTypeOK, NoRequest
  <2>3. Serial'
    BY <1>0, <2>2 DEF Serial, Locked
  <2> QED BY <1>0, <2>1, <2>3, HistoryStays
<1>2. CASE AddWatcher(r) \/ RemoveWatcher(r) \/ RollBack(r)
  <2>1. Serial'
    BY <1>0, <1>2, SerialEnds DEF AddWatcher, RemoveWatcher, RollBack
  <2>2. \/ UNCHANGED events
        \/ \E e \in Events : /\ e.type \in {"watcher_added", "watcher_removed"}
                             /\ InsertDomainEvent(e)
    <3>1. CASE AddWatcher(r)
      <4>1. /\ Event("watcher_added", q.actor, None, q.value) \in Events
            /\ Event("watcher_added", q.actor, None, q.value).type = "watcher_added"
        BY <1>0, <3>1 DEF AddWatcher, Asked, Event, Events
      <4> QED BY <3>1, <4>1 DEF AddWatcher
    <3>2. CASE RemoveWatcher(r)
      <4>1. /\ Event("watcher_removed", q.actor, q.value, None) \in Events
            /\ Event("watcher_removed", q.actor, q.value, None).type = "watcher_removed"
        BY <1>0, <3>2 DEF RemoveWatcher, Asked, Event, Events
      <4> QED BY <3>2, <4>1 DEF RemoveWatcher
    <3>3. CASE RollBack(r)
      BY <3>3 DEF RollBack
    <3> QED BY <1>2, <3>1, <3>2, <3>3
  <2>3. CASE UNCHANGED events
    BY <1>0, <2>1, <2>3, HistoryStays
  <2>4. ASSUME NEW e \in Events, e.type \in {"watcher_added", "watcher_removed"},
               InsertDomainEvent(e)
        PROVE  HistoryTellsTask'
    BY <1>0, <2>4, HistoryGrows
  <2> QED BY <2>1, <2>2, <2>3, <2>4
<1> QED BY <1>1, <1>2

LEMMA RemovalHistory ==
  ASSUME IInv, Serial, HistoryTellsTask, NEW u \in Users, RemoveMember(u)
  PROVE  Serial' /\ HistoryTellsTask'
<1>1. /\ UNCHANGED <<request, events>>
      /\ task' = IF task.assignee = u THEN [task EXCEPT !.assignee = None] ELSE task
      /\ task.assignee = u => ~TaskLocked
  BY DEF RemoveMember
<1>2. task'.status = task.status /\ task'.assignee \in {None, task.assignee}
  BY <1>1 DEF IInv, WorkTypeOK, Tasks
<1> QED BY <1>1, <1>2, HistoryStays, SerialStays

LEMMA HistoryInit == Init => Serial /\ HistoryTellsTask
<1> SUFFICES ASSUME Init PROVE Serial /\ HistoryTellsTask
  OBVIOUS
<1>1. Serial
  BY DEF Init, Serial, Locked, NoRequest, None
<1>2. events = <<>> /\ Len(events) = 0 /\ task = NoTask
  BY DEF Init
<1>3. HistoryTellsTask
  BY <1>2 DEF HistoryTellsTask, StatusAfter, NoTask
<1> QED BY <1>1, <1>3

LEMMA HistoryNext ==
  IInv /\ Serial /\ HistoryTellsTask /\ [Next]_vars => Serial' /\ HistoryTellsTask'
<1> SUFFICES ASSUME IInv, Serial, HistoryTellsTask, [Next]_vars
             PROVE  Serial' /\ HistoryTellsTask'
  OBVIOUS
<1>1. ASSUME UNCHANGED <<task, request, events>> PROVE Serial' /\ HistoryTellsTask'
  BY <1>1, HistoryStays, SerialStays
<1>2. CASE UNCHANGED vars
  BY <1>1, <1>2 DEF vars, taskVars
<1>3. CASE \E u \in Users, v \in Users \cup {None} :
             CreateTask(u, v) \/ AssignReviewTasks(u, v)
  BY <1>3, NewTaskHistory
<1>4. ASSUME NEW r \in Requests,
             \/ LockTask(r) \/ UpdateTask(r)
             \/ AskToWatch(r) \/ AddWatcher(r) \/ RemoveWatcher(r)
             \/ RollBack(r)
      PROVE  Serial' /\ HistoryTellsTask'
  BY <1>4, LockHistory, UpdateHistory, WatcherHistory
<1>5. ASSUME NEW u \in Users,
             \/ RemoveMember(u) \/ LinkLINE(u) \/ UnlinkLINE(u)
             \/ \E m \in {"Off", "Immediate"} : SetPreference(u, m)
      PROVE  Serial' /\ HistoryTellsTask'
  BY <1>1, <1>5, RemovalHistory DEF LinkLINE, UnlinkLINE, SetPreference, taskVars
<1>6. CASE \/ \E k \in 1 .. Len(events) : ProcessDomainEvents(k)
           \/ ScheduleReminders
           \/ \E w \in Workers, d \in Followed : ClaimLINEDelivery(w, d)
           \/ \E s \in sending :
                \/ CompleteLINEDelivery(s)
                \/ \E permanent \in BOOLEAN : FailLINEDelivery(s, permanent)
                \/ Crash(s)
  BY <1>1, <1>6 DEF ProcessDomainEvents, ScheduleReminders, ClaimLINEDelivery,
     CompleteLINEDelivery, FailLINEDelivery, Crash, taskVars
<1> QED BY <1>2, <1>3, <1>4, <1>5, <1>6 DEF Next

-----------------------------------------------------------------------------
(* Tasks, events, notifications and deliveries keep their types.           *)
THEOREM WorkTypeCorrect == Spec => []WorkTypeOK
<1>1. IInv => WorkTypeOK
  BY DEF IInv
<1> QED BY <1>1, InitInv, NextInv, PTL DEF Spec

(* Nothing is left with a user whose membership has ended.                 *)
THEOREM RemovedStaysGone == Spec => []RemovedIsGone
<1>1. IInv => RemovedIsGone
  BY DEF IInv
<1> QED BY <1>1, InitInv, NextInv, PTL DEF Spec

(* No delivery is given up too early, whatever counts its workers read.    *)
THEOREM NoneGivenUpEarly == Spec => []GivenUpForCause
<1>1. IInv => GivenUpForCause
  BY DEF IInv
<1> QED BY <1>1, InitInv, NextInv, PTL DEF Spec

(* The domain events tell the history of the task: its row is locked from  *)
(* the read of UpdateTask to its commit, so no update writes down a change *)
(* from a status that another one has left.                                *)
THEOREM HistoryIsTrue == Spec => []HistoryTellsTask
<1> DEFINE Both == IInv /\ Serial /\ HistoryTellsTask
<1>1. Init => Both
  BY InitInv, HistoryInit
<1>2. Both /\ [Next]_vars => Both'
  BY NextInv, HistoryNext
<1>3. Both => HistoryTellsTask
  OBVIOUS
<1> HIDE DEF Both
<1> QED BY <1>1, <1>2, <1>3, PTL DEF Spec
=============================================================================
