---------------------------- MODULE DocumentIntake ----------------------------
(***************************************************************************)
(* The intake of original files of one organization, from the Web, LINE    *)
(* and Google Drive: the file is put into the object store and examined,   *)
(* then one transaction under the organization's advisory lock decides     *)
(* whether it is a document already known, one too many for the period,    *)
(* or a new one; the object is deleted unless it became the original of a  *)
(* document.                                                               *)
(*                                                                         *)
(* Requests run concurrently, and what the transaction reads is a step     *)
(* apart from what it commits: the lock keeps other intakes out, not the   *)
(* requests that archive, trash or restore a document.  The object store   *)
(* may refuse, a process may die between any two steps, and a COMMIT may   *)
(* succeed and be reported as failed.  An attempt id is new for every      *)
(* request, so the request stands for it, for its object and for the       *)
(* document it may create.                                                 *)
(***************************************************************************)
EXTENDS Naturals, FiniteSets

CONSTANTS
  Requests,       \* what stands for attempt ids
  Users,
  Origins,        \* the origin keys, each with its channel
  Contents,       \* what files contain, by their SHA-256
  Unsafe,         \* the contents that are refused: type, size or malware
  ChannelOf,      \* the channel of an origin
  SendersOf,      \* who can submit under an origin
  FilesOf,        \* what an origin may contain: a web key can be reused
  Groups,         \* the origins that are messages of a LINE group
  Managers,       \* the owner and the administrators
  Limit,          \* documentLimit of the plan
  MaxPeriod       \* the periods that pass (a bound of the model)

Channels == {"Web", "LINE", "Drive"}

ASSUME IntakeAssumption ==
  /\ IsFiniteSet(Requests)
  /\ Unsafe \subseteq Contents
  /\ ChannelOf \in [Origins -> Channels]
  /\ SendersOf \in [Origins -> SUBSET Users]
  /\ FilesOf \in [Origins -> SUBSET Contents]
  /\ Groups \subseteq {o \in Origins : ChannelOf[o] = "LINE"}
  /\ Managers \subseteq Users
  /\ Limit \in Nat
  /\ MaxPeriod \in Nat

VARIABLES
  period,     \* the month it is
  request,    \* each request: how far it is and what it was answered
  objects,    \* the keys in the object store
  document,   \* documents and their usage charges, by creating request
  source,     \* document_sources, at most one of an origin
  attempt,    \* document_intake_attempts, at most one of an origin
  lock        \* who holds pg_advisory_xact_lock

vars == <<period, request, objects, document, source, attempt, lock>>

None == "none"
ASSUME NoneIsNothing == None \notin Requests \cup Users \cup Origins \cup Contents

NoRequest == [step |-> "idle", user |-> None, origin |-> None, content |-> None,
              period |-> 0, plan |-> None, doc |-> None, result |-> None]
NoDocument == [content |-> None, status |-> None, by |-> None, group |-> FALSE,
               period |-> 0]
NoSource == [user |-> None, doc |-> None]
NoAttempt == [user |-> None, status |-> None]

-----------------------------------------------------------------------------
(* Defect: one object of an origin, however often it is sent.              *)
KeyPerOrigin(r) == CHOOSE q \in Requests : request[q].origin = request[r].origin

(* The storage key is a digest of the attempt id.                          *)
Key(r) == r

At(r, step) == request[r].step = step
To(r, step) == request' = [request EXCEPT ![r].step = step]

(* What was read in the transaction is forgotten with its answer.          *)
Answer(r, step, result) ==
  request' = [request EXCEPT ![r] =
    [@ EXCEPT !.step = step, !.result = result,
              !.period = 0, !.plan = None, !.doc = None]]

(* The documents not purged; nothing in the code purges one.               *)
Documents == {d \in Requests : document[d].status # None}
WithContent(c) == {d \in Documents : document[d].content = c}
ChargedIn(p) == {d \in Documents : document[d].period = p}

Init ==
  /\ period = 1
  /\ request = [r \in Requests |-> NoRequest]
  /\ objects = {}
  /\ document = [d \in Requests |-> NoDocument]
  /\ source = [o \in Origins |-> NoSource]
  /\ attempt = [o \in Origins |-> NoAttempt]
  /\ lock = None

(* Intake.Prepare begins: the file is in the store under the attempt's     *)
(* key, and the clock is read.                                             *)
Receive(r, channel) ==
  /\ At(r, "idle")
  /\ \E o \in Origins : \E u \in SendersOf[o], c \in FilesOf[o] :
       /\ ChannelOf[o] = channel
       /\ request' = [request EXCEPT ![r] =
            [NoRequest EXCEPT !.step = "stored", !.user = u, !.origin = o,
                              !.content = c, !.period = period]]
  /\ objects' = objects \cup {Key(r)'}
  /\ UNCHANGED <<period, document, source, attempt, lock>>

(* The three handlers.  A web origin is made of the user and a key that    *)
(* the client may send again with any file; a LINE origin is one message,  *)
(* handled again when its event is retried; a Drive origin is a file and   *)
(* its revision, which any owner or administrator may select.              *)
UploadDocument(r) == Receive(r, "Web")
HandleLINE(r) == Receive(r, "LINE")
ImportDrive(r) == Receive(r, "Drive")

(* Prepare's deferred cleanup: its error is ignored, and the object stays. *)
DeleteQuietly(r) == objects' \in {objects, objects \ {Key(r)}}

(* The file's type, size and scan are those of its bytes.                  *)
Examine(r) ==
  /\ At(r, "stored")
  /\ request[r].content \notin Unsafe
  /\ To(r, "prepared")
  /\ UNCHANGED <<period, objects, document, source, attempt, lock>>

RefuseFile(r) ==
  /\ At(r, "stored")
  /\ request[r].content \in Unsafe
  /\ DeleteQuietly(r)
  /\ To(r, "refused")
  /\ UNCHANGED <<period, document, source, attempt, lock>>

(* The store or the scanner is unavailable: no attempt is recorded.        *)
ExamineFails(r) ==
  /\ At(r, "stored")
  /\ DeleteQuietly(r)
  /\ Answer(r, IF Key(r) \in objects' THEN "left" ELSE "done", "error")
  /\ UNCHANGED <<period, document, source, attempt, lock>>

Over(r) == IF Key(r) \in objects THEN "left" ELSE "done"

(* Defect: a rejection is written over whatever is recorded.               *)
RejectOver(r) ==
  /\ At(r, "refused")
  /\ attempt' = [attempt EXCEPT ![request[r].origin] =
                   [user |-> request[r].user, status |-> "Rejected"]]
  /\ Answer(r, Over(r), "rejected")
  /\ UNCHANGED <<period, objects, document, source, lock>>

(* RecordRejected takes no lock.  An accepted attempt stays accepted, and  *)
(* row security refuses to touch another member's; its error is ignored.   *)
RecordRejected(r) ==
  LET o == request[r].origin IN
  /\ At(r, "refused")
  /\ \/ /\ attempt[o] = NoAttempt
        /\ attempt' = [attempt EXCEPT ![o] =
                         [user |-> request[r].user, status |-> "Rejected"]]
     \/ UNCHANGED attempt
  /\ Answer(r, Over(r), "rejected")
  /\ UNCHANGED <<period, objects, document, source, lock>>

-----------------------------------------------------------------------------
(* CommitPrepared                                                          *)

(* Defect: the origin alone decides, not what was sent under it.           *)
PriorWhatever(r) ==
  LET o == request[r].origin IN
  IF source[o] = NoSource \/ source[o].user # request[r].user THEN None
  ELSE "same"

(* What was submitted before by the same member under the same origin.     *)
Prior(r) ==
  LET o == request[r].origin IN
  IF source[o] = NoSource \/ source[o].user # request[r].user THEN None
  ELSE IF document[source[o].doc].content = request[r].content THEN "same"
  ELSE "other"

(* Defect: the charges of the period are counted for the month it is now.  *)
UsedNow(r) == ChargedIn(period)

(* The usage charges of the period the request's clock was read in.        *)
Used(r) == ChargedIn(request[r].period)

(* Every read of the transaction: what it is going to do, and with which   *)
(* document.                                                               *)
Plan(r) ==
  LET known == WithContent(request[r].content) IN
  CASE Prior(r) = "same" -> [kind |-> "repeat", doc |-> source[request[r].origin].doc]
    [] Prior(r) = "other" -> [kind |-> "conflict", doc |-> None]
    [] Prior(r) = None /\ known # {} ->
         LET d == CHOOSE d \in known : TRUE IN
         IF document[d].status = "Trash" THEN [kind |-> "trashed", doc |-> None]
         ELSE [kind |-> "attach", doc |-> d]
    [] OTHER -> IF Cardinality(Used(r)) < Limit THEN [kind |-> "new", doc |-> r]
                ELSE [kind |-> "quota", doc |-> None]

(* Defect: each intake decides for itself.                                 *)
LockFreeToDecide == TRUE

LockFree == lock = None

(* The lock is taken before the first read.                                *)
Decide(r) ==
  /\ At(r, "prepared")
  /\ LockFree
  /\ request' = [request EXCEPT ![r].step = "deciding",
                   ![r].plan = Plan(r).kind, ![r].doc = Plan(r).doc]
  /\ lock' = r
  /\ UNCHANGED <<period, objects, document, source, attempt>>

Deciding(r, kinds) ==
  /\ At(r, "deciding")
  /\ request[r].plan \in kinds
  /\ lock' = None

(* Nothing is written, and the answer follows from what was read.          *)
CommitRepeat(r) ==
  /\ Deciding(r, {"repeat"})
  /\ Answer(r, "answered", "duplicate")
  /\ UNCHANGED <<period, objects, document, source, attempt>>

Refuse(r) ==
  /\ Deciding(r, {"conflict", "trashed"})
  /\ Answer(r, "answered", request[r].plan)
  /\ UNCHANGED <<period, objects, document, source, attempt>>

(* The attempt that is already there stays as it is.                       *)
CommitQuota(r) ==
  LET o == request[r].origin IN
  /\ Deciding(r, {"quota"})
  /\ attempt' = IF attempt[o] # NoAttempt THEN attempt
                ELSE [attempt EXCEPT ![o] =
                        [user |-> request[r].user, status |-> "Rejected"]]
  /\ Answer(r, "answered", "quota")
  /\ UNCHANGED <<period, objects, document, source>>

(* An origin is unique whoever submitted it.                               *)
SourceTaken(r) ==
  /\ Deciding(r, {"attach", "new"})
  /\ source[request[r].origin] # NoSource
  /\ Answer(r, "answered", "conflict")
  /\ UNCHANGED <<period, objects, document, source, attempt>>

(* The attempt of another member may not be updated: the transaction       *)
(* breaks.                                                                 *)
AttemptTaken(r) ==
  LET o == request[r].origin IN
  /\ Deciding(r, {"attach", "new"})
  /\ source[o] = NoSource
  /\ attempt[o] # NoAttempt
  /\ attempt[o].user # request[r].user
  /\ Answer(r, "answered", "error")
  /\ UNCHANGED <<period, objects, document, source, attempt>>

(* The unique index on the bytes of the documents that are not purged.     *)
UniqueContent(r) ==
  request[r].plan = "new" => WithContent(request[r].content) = {}

Accepts(r) ==
  LET o == request[r].origin IN
  /\ Deciding(r, {"attach", "new"})
  /\ UniqueContent(r)
  /\ source[o] = NoSource
  /\ attempt[o] = NoAttempt \/ attempt[o].user = request[r].user

(* The document unless there is one, its source, its charge, its attempt.  *)
Write(r) ==
  LET o == request[r].origin IN
  /\ document' = IF request[r].plan = "attach" THEN document
                 ELSE [document EXCEPT ![r] =
                         [content |-> request[r].content, status |-> "Available",
                          by |-> request[r].user, group |-> o \in Groups,
                          period |-> request[r].period]]
  /\ source' = [source EXCEPT ![o] =
                  [user |-> request[r].user, doc |-> request[r].doc]]
  /\ attempt' = [attempt EXCEPT ![o] =
                   [user |-> request[r].user, status |-> "Accepted"]]

Commit(r) ==
  /\ Accepts(r)
  /\ Write(r)
  /\ Answer(r, "answered", IF request[r].plan = "new" THEN "accepted" ELSE "duplicate")
  /\ UNCHANGED <<period, objects>>

(* The COMMIT succeeds and is reported as failed.                          *)
CommitUnknown(r) ==
  /\ Accepts(r)
  /\ Write(r)
  /\ Answer(r, "answered", "unknown")
  /\ UNCHANGED <<period, objects>>

(* A statement fails, or the membership has ended meanwhile.               *)
CommitFails(r) ==
  /\ Deciding(r, {"repeat", "conflict", "trashed", "quota", "attach", "new"})
  /\ Answer(r, "answered", "error")
  /\ UNCHANGED <<period, objects, document, source, attempt>>

(* Defect: the object is deleted after an error only.                      *)
DiscardAfterError(r) ==
  /\ At(r, "answered")
  /\ IF request[r].result \in {"accepted", "duplicate"}
     THEN objects' = objects /\ To(r, "done")
     ELSE objects' = objects \ {Key(r)} /\ To(r, "done")
  /\ UNCHANGED <<period, document, source, attempt, lock>>

(* Accept's end: anything but a new document deletes the object.           *)
Discard(r) ==
  /\ At(r, "answered")
  /\ request[r].result # "accepted"
  /\ objects' = objects \ {Key(r)}
  /\ To(r, "done")
  /\ UNCHANGED <<period, document, source, attempt, lock>>

(* The failed deletion replaces an answer that was not an error.           *)
DiscardFails(r) ==
  /\ At(r, "answered")
  /\ request[r].result # "accepted"
  /\ Answer(r, "left", IF request[r].result = "duplicate" THEN "error"
                       ELSE request[r].result)
  /\ UNCHANGED <<period, objects, document, source, attempt, lock>>

Keep(r) ==
  /\ At(r, "answered")
  /\ request[r].result = "accepted"
  /\ To(r, "done")
  /\ UNCHANGED <<period, objects, document, source, attempt, lock>>

(* The process dies: its transaction is rolled back, its object stays.     *)
Crash(r) ==
  /\ request[r].step \notin {"idle", "done", "left", "crashed"}
  /\ request' = [request EXCEPT ![r] = [NoRequest EXCEPT !.step = "crashed"]]
  /\ lock' = IF lock = r THEN None ELSE lock
  /\ UNCHANGED <<period, objects, document, source, attempt>>

-----------------------------------------------------------------------------
(* Reading a document: who sees it, and whether its original opens.        *)

SentInPerson(u, d) == \E o \in Origins \ Groups :
  source[o] = [user |-> u, doc |-> d]

(* Defect: the submitter sees it, from a group or not.                     *)
SeesOwn(u, d) == u \in Managers \/ document[d].by = u \/ SentInPerson(u, d)

Sees(u, d) ==
  \/ u \in Managers
  \/ document[d].by = u /\ ~document[d].group
  \/ SentInPerson(u, d)

Opens(u, d) ==
  /\ document[d].status \in {"Available", "Archived"}
  /\ Sees(u, d)
  /\ Key(d) \in objects

Moves == {<<"Available", "Archived">>, <<"Available", "Trash">>,
          <<"Archived", "Trash">>, <<"Trash", "Available">>}

(* ChangeDocumentStatus takes the row, not the advisory lock.              *)
ChangeStatus(d) ==
  /\ \E s \in {"Archived", "Trash", "Available"} :
       /\ <<document[d].status, s>> \in Moves
       /\ document' = [document EXCEPT ![d].status = s]
  /\ UNCHANGED <<period, request, objects, source, attempt, lock>>

NextPeriod ==
  /\ period < MaxPeriod
  /\ period' = period + 1
  /\ UNCHANGED <<request, objects, document, source, attempt, lock>>

Handler(r) ==
  \/ UploadDocument(r) \/ HandleLINE(r) \/ ImportDrive(r)
  \/ Examine(r) \/ RefuseFile(r) \/ ExamineFails(r) \/ RecordRejected(r)
  \/ Decide(r) \/ CommitRepeat(r) \/ Refuse(r) \/ CommitQuota(r)
  \/ SourceTaken(r) \/ AttemptTaken(r) \/ Commit(r) \/ CommitUnknown(r)
  \/ CommitFails(r) \/ Discard(r) \/ DiscardFails(r) \/ Keep(r) \/ Crash(r)

Next ==
  \/ \E r \in Requests : Handler(r) \/ ChangeStatus(r)
  \/ NextPeriod

Spec == Init /\ [][Next]_vars

-----------------------------------------------------------------------------
(* What must hold                                                          *)

Steps == {"idle", "stored", "refused", "prepared", "deciding", "answered",
          "done", "left", "crashed"}
Kinds == {None, "repeat", "conflict", "trashed", "attach", "new", "quota"}
Results == {None, "accepted", "duplicate", "conflict", "trashed", "quota",
            "rejected", "error", "unknown"}

(* Every variable has its type, and the lock is held by the request that   *)
(* is deciding, if any.                                                    *)
IntakeTypeOK ==
  /\ period \in 1..(MaxPeriod + 1)
  /\ request \in [Requests ->
       [step : Steps, user : Users \cup {None}, origin : Origins \cup {None},
        content : Contents \cup {None}, period : Nat, plan : Kinds,
        doc : Requests \cup {None}, result : Results]]
  /\ objects \subseteq Requests
  /\ document \in [Requests ->
       [content : Contents \cup {None},
        status : {None, "Available", "Archived", "Trash"},
        by : Users \cup {None}, group : BOOLEAN, period : Nat]]
  /\ source \in [Origins -> [user : Users \cup {None}, doc : Requests \cup {None}]]
  /\ attempt \in [Origins ->
       [user : Users \cup {None}, status : {None, "Rejected", "Accepted"}]]
  /\ \A r \in Requests : At(r, "deciding") <=> lock = r

(* The original of every document is in the store, unless the COMMIT that  *)
(* created it was reported as failed: Accept deletes the object of every   *)
(* answer that is not an accepted document, and never another one's.       *)
OriginalStored == \A d \in Documents :
  Key(d) \in objects \/ request[d].result = "unknown"

(* A file that was refused, repeated or attached leaves no object behind,  *)
(* in whatever order requests ran, unless its deletion failed or the       *)
(* process died.                                                           *)
NothingLeftBehind == \A r \in Requests :
  At(r, "done") /\ Key(r) \in objects => r \in Documents

(* No period is charged for more documents than the plan allows, though    *)
(* intakes run concurrently and one may commit after its period ended.     *)
QuotaHeld == \A p \in 1..MaxPeriod : Cardinality(ChargedIn(p)) <= Limit

(* Who is told "accepted" or "duplicate" has a source under the origin     *)
(* sent, in the sender's own name, and it is a document with the bytes     *)
(* sent, whoever sent them first.  If it was not sent to a group, the      *)
(* sender can open it until it is moved to the trash.                      *)
AnswersHold == \A r \in Requests :
  request[r].result \in {"accepted", "duplicate"} =>
    LET s == source[request[r].origin] IN
    /\ s.user = request[r].user
    /\ s.doc \in WithContent(request[r].content)
    /\ request[r].origin \notin Groups =>
         \/ Opens(s.user, s.doc)
         \/ document[s.doc].status = "Trash"
         \/ Key(s.doc) \notin objects /\ request[s.doc].result = "unknown"

(* What was sent to a group, or by somebody else, is seen by managers      *)
(* only: equal bytes do not open a document to who sent them to a group.   *)
GroupFilesPrivate == \A u \in Users \ Managers, d \in Documents :
  Sees(u, d) => SentInPerson(u, d)

(* The inbox agrees with the documents: an attempt is accepted exactly if  *)
(* its origin has a source, by the same member, although rejections are    *)
(* recorded outside the lock and may arrive late.                          *)
AttemptsAgree == \A o \in Origins :
  /\ attempt[o].status = "Accepted" <=> source[o] # NoSource
  /\ source[o] # NoSource => attempt[o].user = source[o].user

(* Seen from outside, files arrive one at a time: every step of the        *)
(* requests is one of Inbox or changes nothing there.  No bytes have two   *)
(* documents, an origin never comes to stand for another file or sender,   *)
(* and what is charged is what was new, in a period that had room for it.  *)
StatusOf(c) ==
  IF WithContent(c) = {} THEN None
  ELSE document[CHOOSE d \in WithContent(c) : TRUE].status

HeldUnder(o) ==
  [user |-> source[o].user,
   content |-> IF source[o] = NoSource THEN None ELSE document[source[o].doc].content]

Box == INSTANCE Inbox WITH
  shelf <- [c \in Contents |-> StatusOf(c)],
  held <- [o \in Origins |-> HeldUnder(o)],
  charged <- [p \in 1 .. (MaxPeriod + 1) |-> Cardinality(ChargedIn(p))]

InboxKept == Box!Spec
=============================================================================
