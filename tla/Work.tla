--------------------------------- MODULE Work ---------------------------------
(***************************************************************************)
(* A task of an organization, its watchers, the domain events its changes  *)
(* leave, the notifications a worker makes of them, and their delivery to  *)
(* LINE.  Requests lock the task between their reads and their writes, a   *)
(* removal of a member cuts across all of it, and deliveries are leased to *)
(* workers that may die or come back late.                                 *)
(***************************************************************************)
EXTENDS Integers, Sequences

CONSTANTS
  Users,
  Owner,         \* is never removed
  Managers,      \* owner and admins
  Subscribers,   \* users who may link a LINE identity
  Requests,      \* updates of the task and its watchers in flight
  Workers,       \* worker passes that overlap
  Retries,       \* the delays of lineRetry: five
  MaxEvents,     \* bound on the domain events
  Followed       \* the notifications whose deliveries are followed

ASSUME WorkAssumption ==
  /\ Owner \in Users
  /\ Retries \in Nat /\ MaxEvents \in Nat
  /\ Followed \subseteq (0 .. MaxEvents) \X Users

VARIABLES
  members,       \* memberships
  line,          \* users with an active LINE identity
  mode,          \* notification_preferences: the LINE mode of each user
  task,          \* the row of tasks
  watchers,      \* task_watchers
  request,       \* each transaction between its statements
  events,        \* domain_events, in the order of their ids
  processed,     \* the events that were processed
  reminded,      \* reminders, one milestone of one due date
  notices,       \* notifications: <<event, recipient>>, event 0 a reminder
  stale,         \* those created before the last change of the preference
  delivery,      \* notification_deliveries
  sending        \* <<worker, delivery, attempts it read>> under way

taskVars == <<task, watchers, request, events>>
noticeVars == <<processed, reminded, notices, stale>>
lineVars == <<delivery, sending>>
vars == <<members, line, mode, taskVars, noticeVars, lineVars>>

None == "none"
ASSUME NobodyIsNone == None \notin Users
Statuses == {"Open", "Done"}
Notices == (0 .. MaxEvents) \X Users

NoTask == [creator |-> None, assignee |-> None, status |-> "Open"]
NoRequest ==
  [step |-> None, op |-> None, actor |-> None, value |-> None, read |-> NoTask]
NoDelivery == [status |-> None, attempts |-> 0, refused |-> FALSE]

Tasks == [creator : Users \cup {None}, assignee : Users \cup {None},
          status : Statuses]
Events == [type : {"created", "assigned", "status", "details",
                   "watcher_added", "watcher_removed"},
           actor : Users, from : Users \cup Statuses \cup {None},
           to : Users \cup Statuses \cup {None}]

\* Rows have their types; nothing is processed before it happened.
WorkTypeOK ==
  /\ members \subseteq Users /\ line \subseteq Users
  /\ mode \in [Users -> {"Off", "Immediate"}]
  /\ task \in Tasks
  /\ watchers \subseteq Users
  /\ request \in [Requests ->
       [step : {None, "locked", "watching"},
        op : {None, "assign", "status", "details", "watch", "unwatch"},
        actor : Users \cup {None}, value : Users \cup Statuses \cup {None},
        read : Tasks]]
  /\ events \in Seq(Events) /\ Len(events) <= MaxEvents
  /\ processed \subseteq 1 .. Len(events)
  /\ reminded \subseteq Users
  /\ notices \subseteq Notices /\ stale \subseteq notices
  /\ delivery \in [Followed ->
       [status : {None, "Pending", "Processing", "Retryable", "Delivered",
                  "Failed"},
        attempts : Nat, refused : BOOLEAN]]
  /\ sending \subseteq Workers \X Followed \X Nat

Init ==
  /\ members = Users /\ line = {}
  /\ mode = [u \in Users |-> "Off"]
  /\ task = NoTask /\ watchers = {}
  /\ request = [r \in Requests |-> NoRequest]
  /\ events = <<>> /\ processed = {}
  /\ reminded = {} /\ notices = {} /\ stale = {}
  /\ delivery = [d \in Followed |-> NoDelivery]
  /\ sending = {}

-----------------------------------------------------------------------------
CanEdit(u, row) == u \in Managers \/ row.creator = u
CanStatus(u, row) == u \in Managers \/ row.assignee = u

(* What a form can ask for: the values of the field that it sets.          *)
Fields == {"assign", "status", "details"}
Values(op) ==
  CASE op = "assign" -> Users \cup {None}
    [] op = "status" -> Statuses
    [] op = "details" -> {None}

(* SELECT ... FOR UPDATE of UpdateTask keeps the row until its commit.     *)
TaskLocked == \E r \in Requests : request[r].step = "locked"

Event(type, actor, from, to) ==
  [type |-> type, actor |-> actor, from |-> from, to |-> to]

(* In the transaction of the change it is about.        *)
InsertDomainEvent(e) == Len(events) < MaxEvents /\ events' = Append(events, e)

(* memberExists, and the foreign key of tasks.                             *)
Assignable(v) == v \in members \cup {None}

CreateTask(u, v) ==
  /\ task = NoTask
  /\ u \in members /\ Assignable(v)
  /\ task' = [creator |-> u, assignee |-> v, status |-> "Open"]
  /\ InsertDomainEvent(Event("created", u, None, v))
  /\ UNCHANGED <<members, line, mode, watchers, request, noticeVars, lineVars>>

(* Defect: the row is read without FOR UPDATE.                             *)
LockFreeToRead == TRUE

LockFree == ~TaskLocked

(* UpdateTask: a member's form sets some fields, one at a time being       *)
(* enough here.  The row is locked and read, and decides the authority.    *)
LockTask(r) ==
  /\ request[r] = NoRequest
  /\ task # NoTask
  /\ LockFree
  /\ \E u \in members, op \in Fields :
       /\ IF op = "status" THEN CanStatus(u, task) ELSE CanEdit(u, task)
       /\ \E v \in Values(op) :
            request' = [request EXCEPT ![r] =
              [step |-> "locked", op |-> op, actor |-> u, value |-> v,
               read |-> task]]
  /\ UNCHANGED <<members, line, mode, task, watchers, events, noticeVars,
                 lineVars>>

(* The row as it will be: what is not set is what was read.                *)
Updated(q) ==
  CASE q.op = "assign" -> [q.read EXCEPT !.assignee = q.value]
    [] q.op = "status" -> [q.read EXCEPT !.status = q.value]
    [] q.op = "details" -> q.read

EventOf(q) ==
  CASE q.op = "assign" -> Event("assigned", q.actor, q.read.assignee, q.value)
    [] q.op = "status" -> Event("status", q.actor, q.read.status, q.value)
    [] q.op = "details" -> Event("details", q.actor, None, None)

(* UPDATE, with the policy that asks for the actor's membership and the    *)
(* foreign key of the assignee; the assignee is no watcher any more.       *)
UpdateTask(r) ==
  LET q == request[r]
      row == Updated(q)
  IN /\ q.step = "locked"
     /\ q.actor \in members
     /\ Assignable(row.assignee)
     /\ task' = row
     /\ watchers' = watchers \ {row.assignee}
     /\ IF row = q.read /\ q.op # "details" THEN UNCHANGED events
        ELSE InsertDomainEvent(EventOf(q))
     /\ request' = [request EXCEPT ![r] = NoRequest]
     /\ UNCHANGED <<members, line, mode, noticeVars, lineVars>>

(* AssignReviewTasks, for a task that reviews a document: a manager sets   *)
(* the assignee, the one it has as well, without a look at the watchers.   *)
(* The event names the new assignee alone.  Without an active task it is   *)
(* CreateTask.                                                             *)
AssignReviewTasks(u, v) ==
  /\ task # NoTask /\ task.status = "Open"
  /\ LockFree
  /\ u \in members \cap Managers /\ Assignable(v)
  /\ task' = [task EXCEPT !.assignee = v]
  /\ InsertDomainEvent(Event("assigned", u, None, v))
  /\ UNCHANGED <<members, line, mode, watchers, request, noticeVars, lineVars>>

(* SetWatcher reads the task and, when it adds, its trigger reads the      *)
(* assignee, both without a lock.                                          *)
AskToWatch(r) ==
  /\ request[r] = NoRequest
  /\ task # NoTask
  /\ \E u \in members, v \in Users, op \in {"watch", "unwatch"} :
       /\ CanEdit(u, task)
       /\ op = "watch" => v # task.assignee
       /\ request' = [request EXCEPT ![r] =
            [NoRequest EXCEPT !.step = "watching", !.op = op, !.actor = u,
                              !.value = v]]
  /\ UNCHANGED <<members, line, mode, task, watchers, events, noticeVars,
                 lineVars>>

(* Defect: the row may outlive the membership it refers to.                *)
WatchesAnyway(u) == TRUE

(* The foreign key of task_watchers.                                       *)
MayWatch(u) == u \in members

(* The row is inserted; the foreign key to the task waits for its lock.    *)
AddWatcher(r) ==
  LET q == request[r]
  IN /\ q.step = "watching" /\ q.op = "watch"
     /\ ~TaskLocked
     /\ q.actor \in members /\ MayWatch(q.value)
     /\ watchers' = watchers \cup {q.value}
     /\ IF q.value \in watchers THEN UNCHANGED events
        ELSE InsertDomainEvent(Event("watcher_added", q.actor, None, q.value))
     /\ request' = [request EXCEPT ![r] = NoRequest]
     /\ UNCHANGED <<members, line, mode, task, noticeVars, lineVars>>

RemoveWatcher(r) ==
  LET q == request[r]
  IN /\ q.step = "watching" /\ q.op = "unwatch"
     /\ q.actor \in members
     /\ watchers' = watchers \ {q.value}
     /\ IF q.value \notin watchers THEN UNCHANGED events
        ELSE InsertDomainEvent(Event("watcher_removed", q.actor, q.value, None))
     /\ request' = [request EXCEPT ![r] = NoRequest]
     /\ UNCHANGED <<members, line, mode, task, noticeVars, lineVars>>

(* Forbidden, not found, a violated constraint or any other failure.       *)
RollBack(r) ==
  /\ request[r] # NoRequest
  /\ request' = [request EXCEPT ![r] = NoRequest]
  /\ UNCHANGED <<members, line, mode, task, watchers, events, noticeVars,
                 lineVars>>

-----------------------------------------------------------------------------
(* A membership ends: its trigger unassigns the task and ends the watch,   *)
(* the foreign keys take preferences, notifications and deliveries along.  *)
(* A reminder blocks it: the policies hide the row from the trigger's      *)
(* DELETE and not from the foreign key.  No domain event is inserted.      *)
RemoveMember(u) ==
  /\ u \in members \ {Owner}
  /\ u \notin reminded
  /\ task.assignee = u => ~TaskLocked
  /\ members' = members \ {u}
  /\ mode' = [mode EXCEPT ![u] = "Off"]
  /\ task' = IF task.assignee = u THEN [task EXCEPT !.assignee = None]
             ELSE task
  /\ watchers' = watchers \ {u}
  /\ notices' = {n \in notices : n[2] # u}
  /\ stale' = {n \in stale : n[2] # u}
  /\ delivery' = [d \in Followed |->
       IF d[2] = u THEN NoDelivery ELSE delivery[d]]
  /\ UNCHANGED <<line, request, events, processed, reminded, sending>>

(* The identity at LINE is linked and unlinked by its user.                *)
LinkLINE(u) ==
  /\ u \in Subscribers
  /\ line' = line \cup {u}
  /\ UNCHANGED <<members, mode, taskVars, noticeVars, lineVars>>

UnlinkLINE(u) ==
  /\ line' = line \ {u}
  /\ UNCHANGED <<members, mode, taskVars, noticeVars, lineVars>>

SetPreference(u, m) ==
  /\ u \in members \cap Subscribers
  /\ mode' = [mode EXCEPT ![u] = m]
  /\ stale' = stale \cup {n \in notices \cap Followed : n[2] = u}
  /\ UNCHANGED <<members, line, taskVars, processed, reminded, notices,
                 lineVars>>

-----------------------------------------------------------------------------
(* Whom an event is about, by what the event says and, for changes of the  *)
(* task, by who has and watches it when the event is processed.            *)
Recipients(e) ==
  CASE e.type = "created" -> {e.to}
    [] e.type = "assigned" -> {e.to, e.from} \cup watchers
    [] e.type = "watcher_added" -> {e.to}
    [] e.type = "watcher_removed" -> {}
    [] e.type \in {"details", "status"} -> {task.assignee} \cup watchers

(* queueImmediateLINE looks at all notifications, not only at new ones.    *)
QueueImmediateLINE(all) ==
  delivery' = [d \in Followed |->
    IF /\ d \in all \ stale
       /\ mode[d[2]] = "Immediate" /\ d[2] \in line
       /\ delivery[d].status = None
    THEN [NoDelivery EXCEPT !.status = "Pending"]
    ELSE delivery[d]]

(* Claim, notifications, deliveries and the mark are one transaction.      *)
ProcessDomainEvents(k) ==
  LET told == (Recipients(events[k]) \ {events[k].actor}) \cap members
  IN /\ k \notin processed
     /\ processed' = processed \cup {k}
     /\ notices' = notices \cup {<<k, u>> : u \in told}
     /\ QueueImmediateLINE(notices')
     /\ UNCHANGED <<members, line, mode, taskVars, reminded, stale, sending>>

(* The scheduler: a reminder for the assignee and each watcher of an open  *)
(* task, once, and a notification for every reminder that has none.        *)
ScheduleReminders ==
  /\ reminded' = reminded \cup
       IF task.status = "Open"
       THEN ({task.assignee} \ {None}) \cup watchers ELSE {}
  /\ notices' = notices \cup {<<0, u>> : u \in reminded'}
  /\ QueueImmediateLINE(notices')
  /\ UNCHANGED <<members, line, mode, taskVars, processed, stale, sending>>

-----------------------------------------------------------------------------
(* A delivery that is due is leased, and so is one whose lease is over,    *)
(* which may be at any time.  It is sent only when its recipient has an    *)
(* identity at LINE.                                                       *)
ClaimLINEDelivery(w, d) ==
  /\ \A s \in sending : <<s[1], s[2]>> # <<w, d>>
  /\ delivery[d].status \in {"Pending", "Retryable", "Processing"}
  /\ delivery' = [delivery EXCEPT ![d].status = "Processing"]
  /\ sending' = sending \cup
       IF d[2] \in line THEN {<<w, d, delivery[d].attempts>>} ELSE {}
  /\ UNCHANGED <<members, line, mode, taskVars, noticeVars>>

(* LINE accepted the message.  The row is updated by its id alone, whoever *)
(* has the lease now; a row that is gone stays gone.                       *)
CompleteLINEDelivery(s) ==
  LET d == s[2]
  IN /\ delivery' = IF delivery[d].status = None THEN delivery
          ELSE [delivery EXCEPT ![d].status = "Delivered"]
     /\ sending' = sending \ {s}
     /\ UNCHANGED <<members, line, mode, taskVars, noticeVars>>

(* Defect: the last delay is never used.                                   *)
RetriesFewer(attempt) == attempt < Retries

(* lineRetry, of the attempt that failed.                                  *)
LineRetry(attempt) == attempt <= Retries

(* LINE did not, for now or for good.  Also by id alone: the attempts are  *)
(* counted in the row, and whether there is another one is decided by the  *)
(* count that was read with the lease.                                     *)
FailLINEDelivery(s, permanent) ==
  LET d == s[2]
      retry == ~permanent /\ LineRetry(s[3] + 1)
  IN /\ delivery' = IF delivery[d].status = None THEN delivery
          ELSE [delivery EXCEPT ![d] =
                 [status |-> IF retry THEN "Retryable" ELSE "Failed",
                  attempts |-> @.attempts + 1,
                  refused |-> @.refused \/ permanent]]
     /\ sending' = sending \ {s}
     /\ UNCHANGED <<members, line, mode, taskVars, noticeVars>>

(* The worker dies before or after the message was sent, or its report     *)
(* fails.                                                                  *)
Crash(s) ==
  /\ sending' = sending \ {s}
  /\ UNCHANGED <<members, line, mode, taskVars, noticeVars, delivery>>

Next ==
  \/ \E u \in Users, v \in Users \cup {None} :
       CreateTask(u, v) \/ AssignReviewTasks(u, v)
  \/ \E r \in Requests :
       \/ LockTask(r) \/ UpdateTask(r)
       \/ AskToWatch(r) \/ AddWatcher(r) \/ RemoveWatcher(r)
       \/ RollBack(r)
  \/ \E u \in Users :
       \/ RemoveMember(u) \/ LinkLINE(u) \/ UnlinkLINE(u)
       \/ \E m \in {"Off", "Immediate"} : SetPreference(u, m)
  \/ \E k \in 1 .. Len(events) : ProcessDomainEvents(k)
  \/ ScheduleReminders
  \/ \E w \in Workers, d \in Followed : ClaimLINEDelivery(w, d)
  \/ \E s \in sending :
       \/ CompleteLINEDelivery(s)
       \/ \E permanent \in BOOLEAN : FailLINEDelivery(s, permanent)
       \/ Crash(s)

Spec == Init /\ [][Next]_vars

-----------------------------------------------------------------------------
(* Of the first n events, event i is the last one of these types; with     *)
(* i = 0 there is none.                                                    *)
IsLatest(i, n, types) ==
  /\ i \in 0 .. n
  /\ i # 0 => events[i].type \in types
  /\ \A k \in (i + 1) .. n : events[k].type \notin types

StatusAfter(i) == IF i = 0 THEN "Open" ELSE events[i].to

(* The domain events tell how the task came to its status: each change     *)
(* starts from where the one before it ended, and the last one ended where *)
(* the task is.  Two updates of the same task that both read it before     *)
(* either wrote it would leave events that no task went through, or put    *)
(* back a field that neither set.  The assignee is who was assigned last,  *)
(* unless that membership has ended.                                       *)
HistoryTellsTask ==
  \A i \in 0 .. Len(events) :
    /\ \A k \in 1 .. Len(events) :
         events[k].type = "status" /\ IsLatest(i, k - 1, {"status"})
           => events[k].from = StatusAfter(i)
    /\ IsLatest(i, Len(events), {"status"}) => task.status = StatusAfter(i)
    /\ IsLatest(i, Len(events), {"created", "assigned"})
         => task.assignee = None \/ (i # 0 /\ task.assignee = events[i].to)

(* When a membership has ended nothing is left with that user: no          *)
(* assignment, no watch, no notification and no delivery, whatever update, *)
(* watcher or event was under way while the membership ended.              *)
RemovedIsGone ==
  /\ task.assignee \in members \cup {None}
  /\ watchers \cup reminded \subseteq members
  /\ \A n \in notices : n[2] \in members
  /\ \A d \in Followed : delivery[d].status # None => d \in notices

(* A delivery is given up only after LINE refused it for good, or after    *)
(* the first attempt and all the retries have failed, however many workers *)
(* tried it with counts that were out of date.                             *)
GivenUpForCause ==
  \A d \in Followed :
    delivery[d].status = "Failed" =>
      delivery[d].refused \/ delivery[d].attempts > Retries
=============================================================================
