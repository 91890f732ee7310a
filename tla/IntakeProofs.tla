---------------------------- MODULE IntakeProofs ----------------------------
(***************************************************************************)
(* The intake of files, for any number of requests, members, origins and   *)
(* files and any limit of the plan.  What a request read is still so when  *)
(* it commits, because whoever writes documents, sources and charges holds *)
(* the lock; and an object is deleted only by a request that made no       *)
(* document of it, or does not know that it did.                           *)
(***************************************************************************)
EXTENDS DocumentIntake, FiniteSetTheorems, TLAPS

RequestRow ==
  [step : Steps, user : Users \cup {None}, origin : Origins \cup {None},
   content : Contents \cup {None}, period : Nat, plan : Kinds,
   doc : Requests \cup {None}, result : Results]

(* What a request read in its transaction.                                 *)
PlanStands(r) ==
  LET q == request[r]
  IN /\ q.plan # None
     /\ q.plan = "repeat" =>
          /\ source[q.origin].user = q.user
          /\ source[q.origin].doc \in WithContent(q.content)
     /\ q.plan = "attach" => q.doc \in WithContent(q.content)
     /\ q.plan = "new" => q.doc = r /\ Cardinality(ChargedIn(q.period)) < Limit

(* What stands behind an answer.                                           *)
AnswerStands(r) ==
  LET q == request[r]
  IN q.result \in {"accepted", "duplicate"} =>
       /\ q.origin \in Origins /\ source[q.origin].user = q.user
       /\ source[q.origin].doc \in WithContent(q.content)

(* Where the object and the document of a request are, by its step.        *)
ObjectAndDocument(r) ==
  LET q == request[r]
  IN /\ q.step \in {"idle", "stored", "refused", "prepared", "deciding"} =>
          r \notin Documents /\ q.result = None
     /\ q.step \in {"stored", "prepared", "deciding", "answered"} => r \in objects
     /\ q.step \in {"answered", "done", "left"} /\ r \in Documents =>
          q.result \in {"accepted", "unknown"}
     /\ r \in Documents => r \in objects \/ (q.step = "done" /\ q.result = "unknown")
     /\ q.result = "accepted" => r \in Documents
     /\ q.step = "done" /\ r \in objects => r \in Documents

RequestOK(r) ==
  /\ request[r].step \notin {"idle", "crashed"} =>
       /\ request[r].user \in Users /\ request[r].origin \in Origins
       /\ request[r].content \in Contents
  /\ ObjectAndDocument(r)
  /\ request[r].step = "deciding" => PlanStands(r)
  /\ AnswerStands(r)
RequestsOK == \A r \in Requests : RequestOK(r)

(* A source is somebody's and leads to a document.                         *)
SourcesLead == \A o \in Origins : source[o] # NoSource =>
  source[o].user \in Users /\ source[o].doc \in Documents

(* Who created a document outside a group has a source that leads to it.   *)
CreatorSent == \A d \in Documents :
  ~document[d].group => SentInPerson(document[d].by, d)

IInv ==
  /\ IntakeTypeOK /\ lock \in Requests \cup {None}
  /\ RequestsOK
  /\ SourcesLead
  /\ AttemptsAgree
  /\ CreatorSent
  /\ QuotaHeld
-----------------------------------------------------------------------------
LEMMA InitInv == Init => IInv
<1> SUFFICES ASSUME Init PROVE IInv
  OBVIOUS
<1>1. \A d \in Requests : document[d] = NoDocument /\ request[d] = NoRequest
  BY DEF Init
<1>2. Documents = {}
  BY <1>1 DEF Documents, NoDocument
<1>3. IntakeTypeOK /\ lock \in Requests \cup {None}
  <2>1. NoRequest \in RequestRow
    BY DEF NoRequest, RequestRow, Steps, Kinds, Results
  <2>2. NoDocument \in [content : Contents \cup {None},
          status : {None, "Available", "Archived", "Trash"},
          by : Users \cup {None}, group : BOOLEAN, period : Nat]
    BY DEF NoDocument
  <2>3. period \in 1..(MaxPeriod + 1)
    BY IntakeAssumption DEF Init
  <2>4. \A r \in Requests : At(r, "deciding") <=> lock = r
    BY <1>1, NoneIsNothing DEF Init, At, NoRequest
  <2> QED BY <2>1, <2>2, <2>3, <2>4
          DEF Init, IntakeTypeOK, RequestRow, NoSource, NoAttempt
<1>4. RequestsOK
  BY <1>1, <1>2 DEF RequestsOK, RequestOK, ObjectAndDocument, AnswerStands, NoRequest, None
<1>5. SourcesLead /\ AttemptsAgree
  BY DEF Init, SourcesLead, AttemptsAgree, NoAttempt, None
<1>6. CreatorSent
  BY <1>2 DEF CreatorSent
<1>7. QuotaHeld
  <2>1. \A p \in 1 .. MaxPeriod : ChargedIn(p) = {}
    BY <1>2 DEF ChargedIn
  <2> QED BY <2>1, FS_EmptySet, IntakeAssumption DEF QuotaHeld
<1> QED BY <1>3, <1>4, <1>5, <1>6, <1>7 DEF IInv

LEMMA SameDocuments ==
  ASSUME UNCHANGED document
  PROVE  /\ Documents' = Documents
         /\ \A c : WithContent(c)' = WithContent(c)
         /\ \A p : ChargedIn(p)' = ChargedIn(p)
BY DEF Documents, WithContent, ChargedIn

(* A step of one request that leaves documents and sources alone.          *)
LEMMA RequestStep ==
  ASSUME IInv, NEW r \in Requests,
         request' \in [Requests -> RequestRow],
         \A k \in Requests \ {r} :
           request'[k] = request[k] /\ (k \in objects' <=> k \in objects),
         objects' \subseteq Requests,
         UNCHANGED <<period, document, source>>,
         attempt' \in [Origins ->
           [user : Users \cup {None}, status : {None, "Rejected", "Accepted"}]],
         AttemptsAgree',
         lock' \in Requests \cup {None},
         \A k \in Requests : request'[k].step = "deciding" <=> lock' = k,
         RequestOK(r)'
  PROVE  IInv'
<1>1. IntakeTypeOK'
  BY DEF IInv, IntakeTypeOK, RequestRow, At
<1>2. RequestsOK'
  <2> SUFFICES ASSUME NEW k \in Requests \ {r} PROVE RequestOK(k)'
    BY DEF RequestsOK
  <2>1. RequestOK(k)
    BY DEF IInv, RequestsOK
  <2> QED BY <2>1, SameDocuments
          DEF RequestOK, ObjectAndDocument, PlanStands, AnswerStands
<1>3. SourcesLead' /\ CreatorSent' /\ QuotaHeld'
  BY SameDocuments DEF IInv, SourcesLead, CreatorSent, SentInPerson, QuotaHeld
<1> QED BY <1>1, <1>2, <1>3 DEF IInv

(* What a request becomes, and the others stay.                            *)
LEMMA ToStep ==
  ASSUME IInv, NEW r \in Requests, NEW step \in Steps, To(r, step)
  PROVE  /\ request' \in [Requests -> RequestRow]
         /\ \A k \in Requests \ {r} : request'[k] = request[k]
         /\ request'[r].step = step
         /\ request'[r].user = request[r].user
         /\ request'[r].origin = request[r].origin
         /\ request'[r].content = request[r].content
         /\ request'[r].plan = request[r].plan
         /\ request'[r].period = request[r].period
         /\ request'[r].result = request[r].result
<1>1. request \in [Requests -> RequestRow]
  BY DEF IInv, IntakeTypeOK, RequestRow
<1> QED BY <1>1 DEF To, RequestRow

LEMMA AnswerStep ==
  ASSUME IInv, NEW r \in Requests, NEW step \in Steps, NEW result \in Results,
         Answer(r, step, result)
  PROVE  /\ request' \in [Requests -> RequestRow]
         /\ \A k \in Requests \ {r} : request'[k] = request[k]
         /\ request'[r].step = step
         /\ request'[r].user = request[r].user
         /\ request'[r].origin = request[r].origin
         /\ request'[r].content = request[r].content
         /\ request'[r].result = result
<1> DEFINE old == request[r]
           new == [old EXCEPT !.step = step, !.result = result,
                              !.period = 0, !.plan = None, !.doc = None]
<1>1. request \in [Requests -> RequestRow] /\ old \in RequestRow
  BY DEF IInv, IntakeTypeOK, RequestRow
<1>2. request' = [request EXCEPT ![r] = new]
  BY DEF Answer
<1>3. /\ new.step = step /\ new.user = old.user /\ new.origin = old.origin
      /\ new.content = old.content /\ new.result = result
  BY <1>1 DEF RequestRow
<1>4. new \in RequestRow
  <2>1. [old EXCEPT !.step = step] \in RequestRow
    BY <1>1 DEF RequestRow
  <2>2. \A row \in RequestRow : [row EXCEPT !.result = result] \in RequestRow
    BY DEF RequestRow
  <2>3. \A row \in RequestRow : [row EXCEPT !.period = 0] \in RequestRow
    BY DEF RequestRow
  <2>4. \A row \in RequestRow : [row EXCEPT !.plan = None] \in RequestRow
    BY DEF RequestRow, Kinds
  <2>5. \A row \in RequestRow : [row EXCEPT !.doc = None] \in RequestRow
    BY DEF RequestRow
  <2> QED BY <2>1, <2>2, <2>3, <2>4, <2>5
<1> HIDE DEF new
<1> QED BY <1>1, <1>2, <1>3, <1>4
-----------------------------------------------------------------------------
LEMMA ReceiveStep ==
  ASSUME IInv, NEW r \in Requests, NEW channel, Receive(r, channel)
  PROVE  IInv'
<1>1. PICK o \in Origins : \E u \in SendersOf[o], c \in FilesOf[o] :
        request' = [request EXCEPT ![r] =
            [NoRequest EXCEPT !.step = "stored", !.user = u, !.origin = o,
                              !.content = c, !.period = period]]
  BY DEF Receive
<1>2. PICK u \in SendersOf[o], c \in FilesOf[o] :
        request' = [request EXCEPT ![r] =
            [NoRequest EXCEPT !.step = "stored", !.user = u, !.origin = o,
                              !.content = c, !.period = period]]
  BY <1>1
<1> DEFINE new == [NoRequest EXCEPT !.step = "stored", !.user = u, !.origin = o,
                                    !.content = c, !.period = period]
<1>3. u \in Users /\ c \in Contents /\ period \in Nat
  BY IntakeAssumption DEF IInv, IntakeTypeOK
<1>4. new \in RequestRow
  <2>1. NoRequest \in RequestRow
    BY DEF NoRequest, RequestRow, Steps, Kinds, Results
  <2>2. \A row \in RequestRow : [row EXCEPT !.step = "stored"] \in RequestRow
    BY DEF RequestRow, Steps
  <2>3. \A row \in RequestRow : [row EXCEPT !.user = u] \in RequestRow
    BY <1>3 DEF RequestRow
  <2>4. \A row \in RequestRow : [row EXCEPT !.origin = o] \in RequestRow
    BY DEF RequestRow
  <2>5. \A row \in RequestRow : [row EXCEPT !.content = c] \in RequestRow
    BY <1>3 DEF RequestRow
  <2>6. \A row \in RequestRow : [row EXCEPT !.period = period] \in RequestRow
    BY <1>3 DEF RequestRow
  <2> QED BY <2>1, <2>2, <2>3, <2>4, <2>5, <2>6
<1>5. /\ new.step = "stored" /\ new.user = u /\ new.origin = o
      /\ new.content = c /\ new.result = None
  BY DEF NoRequest
<1>6. request' = [request EXCEPT ![r] = new]
  BY <1>2
<1> HIDE DEF new
<1>7. /\ request' \in [Requests -> RequestRow] /\ request'[r] = new
      /\ \A k \in Requests \ {r} : request'[k] = request[k]
  BY <1>4, <1>6 DEF IInv, IntakeTypeOK, RequestRow
<1>8. objects' = objects \cup {r} /\ UNCHANGED <<period, document, source, attempt, lock>>
  BY DEF Receive, Key
<1>9. At(r, "idle") /\ RequestOK(r) /\ lock # r
  BY DEF Receive, IInv, RequestsOK, IntakeTypeOK, At
<1>10. RequestOK(r)'
  BY <1>3, <1>5, <1>7, <1>8, <1>9, SameDocuments
     DEF RequestOK, ObjectAndDocument, AnswerStands, At, None
<1>11. \A k \in Requests : request'[k].step = "deciding" <=> lock' = k
  BY <1>5, <1>7, <1>8, <1>9 DEF IInv, IntakeTypeOK, At
<1>12. AttemptsAgree' /\ lock' \in Requests \cup {None} /\ objects' \subseteq Requests
  BY <1>8 DEF IInv, IntakeTypeOK, AttemptsAgree
<1> QED BY <1>7, <1>8, <1>10, <1>11, <1>12, RequestStep DEF IInv, IntakeTypeOK

LEMMA ExamineStep ==
  ASSUME IInv, NEW r \in Requests,
         Examine(r) \/ RefuseFile(r)
  PROVE  IInv'
<1>1. PICK step \in {"refused", "prepared"} :
        To(r, step) /\ (step = "prepared" => UNCHANGED objects)
  BY DEF Examine, RefuseFile
<1>2. /\ At(r, "stored") /\ objects' \in {objects, objects \ {r}}
      /\ UNCHANGED <<period, document, source, attempt, lock>>
  BY DEF Examine, RefuseFile, DeleteQuietly, Key
<1>3. RequestOK(r) /\ lock # r
  BY <1>2 DEF IInv, RequestsOK, IntakeTypeOK, At
<1>4. /\ request' \in [Requests -> RequestRow] /\ request'[r].step = step
      /\ \A k \in Requests \ {r} : request'[k] = request[k]
      /\ request'[r].user = request[r].user /\ request'[r].origin = request[r].origin
      /\ request'[r].content = request[r].content
      /\ request'[r].result = request[r].result
  BY <1>1, ToStep DEF Steps
<1>5. RequestOK(r)'
  BY <1>1, <1>2, <1>3, <1>4, SameDocuments
     DEF RequestOK, ObjectAndDocument, AnswerStands, At, None
<1>6. \A k \in Requests : request'[k].step = "deciding" <=> lock' = k
  BY <1>2, <1>3, <1>4 DEF IInv, IntakeTypeOK, At
<1>7. AttemptsAgree' /\ lock' \in Requests \cup {None} /\ objects' \subseteq Requests
  BY <1>2 DEF IInv, IntakeTypeOK, AttemptsAgree
<1> QED BY <1>2, <1>4, <1>5, <1>6, <1>7, RequestStep DEF IInv, IntakeTypeOK

(* A file that was not taken: no document, and no object if all is done.   *)
LEMMA NotTakenStep ==
  ASSUME IInv, NEW r \in Requests, NEW result \in {"error", "rejected"},
         request[r].step \in {"stored", "refused"},
         objects' \in {objects, objects \ {r}},
         Answer(r, IF r \in objects' THEN "left" ELSE "done", result),
         UNCHANGED <<period, document, source, lock>>,
         attempt' \in [Origins ->
           [user : Users \cup {None}, status : {None, "Rejected", "Accepted"}]],
         AttemptsAgree'
  PROVE  IInv'
<1> DEFINE step == IF r \in objects' THEN "left" ELSE "done"
<1>1. step \in Steps /\ result \in Results
  BY DEF Steps, Results
<1>2. RequestOK(r) /\ lock # r
  BY DEF IInv, RequestsOK, IntakeTypeOK, At
<1>3. /\ request' \in [Requests -> RequestRow] /\ request'[r].step = step
      /\ \A k \in Requests \ {r} : request'[k] = request[k]
      /\ request'[r].user = request[r].user /\ request'[r].origin = request[r].origin
      /\ request'[r].content = request[r].content
      /\ request'[r].result = result
  BY <1>1, AnswerStep
<1>4. RequestOK(r)'
  BY <1>2, <1>3, SameDocuments DEF RequestOK, ObjectAndDocument, AnswerStands
<1>5. \A k \in Requests : request'[k].step = "deciding" <=> lock' = k
  BY <1>2, <1>3 DEF IInv, IntakeTypeOK, At
<1>6. lock' \in Requests \cup {None} /\ objects' \subseteq Requests
  BY DEF IInv, IntakeTypeOK
<1> QED BY <1>3, <1>4, <1>5, <1>6, RequestStep

LEMMA ExamineFailsStep ==
  ASSUME IInv, NEW r \in Requests, ExamineFails(r)
  PROVE  IInv'
<1>1. /\ request[r].step = "stored" /\ objects' \in {objects, objects \ {r}}
      /\ Answer(r, IF r \in objects' THEN "left" ELSE "done", "error")
      /\ UNCHANGED <<period, document, source, attempt, lock>>
  BY DEF ExamineFails, At, DeleteQuietly, Key
<1>2. AttemptsAgree'
  BY <1>1 DEF IInv, AttemptsAgree
<1> QED BY <1>1, <1>2, NotTakenStep DEF IInv, IntakeTypeOK

(* A rejection, or a quota, is recorded only where nothing is.             *)
LEMMA RejectionRecorded ==
  ASSUME IInv, NEW o \in Origins, NEW u \in Users,
         \/ UNCHANGED attempt
         \/ /\ attempt[o] = NoAttempt
            /\ attempt' = [attempt EXCEPT ![o] = [user |-> u, status |-> "Rejected"]],
         UNCHANGED source
  PROVE  /\ attempt' \in [Origins ->
              [user : Users \cup {None}, status : {None, "Rejected", "Accepted"}]]
         /\ AttemptsAgree'
<1>1. CASE UNCHANGED attempt
  BY <1>1 DEF IInv, IntakeTypeOK, AttemptsAgree
<1>2. CASE /\ attempt[o] = NoAttempt
           /\ attempt' = [attempt EXCEPT ![o] = [user |-> u, status |-> "Rejected"]]
  BY <1>2 DEF IInv, IntakeTypeOK, AttemptsAgree, NoAttempt, None
<1> QED BY <1>1, <1>2

LEMMA RecordRejectedStep ==
  ASSUME IInv, NEW r \in Requests, RecordRejected(r)
  PROVE  IInv'
<1>1. /\ request[r].step = "refused" /\ objects' = objects
      /\ Answer(r, IF r \in objects' THEN "left" ELSE "done", "rejected")
      /\ UNCHANGED <<period, document, source, lock>>
  BY DEF RecordRejected, At, Over, Key
<1>2. request[r].origin \in Origins /\ request[r].user \in Users
  BY <1>1 DEF IInv, RequestsOK, RequestOK
<1>3. /\ attempt' \in [Origins ->
           [user : Users \cup {None}, status : {None, "Rejected", "Accepted"}]]
      /\ AttemptsAgree'
  BY <1>1, <1>2, RejectionRecorded DEF RecordRejected
<1> QED BY <1>1, <1>3, NotTakenStep

LEMMA CrashStep ==
  ASSUME IInv, NEW r \in Requests, Crash(r)
  PROVE  IInv'
<1> DEFINE new == [NoRequest EXCEPT !.step = "crashed"]
<1>1. new \in RequestRow /\ new.step = "crashed" /\ new.result = None
  BY DEF NoRequest, RequestRow, Steps, Kinds, Results
<1>2. /\ request' = [request EXCEPT ![r] = new]
      /\ request[r].step \notin {"idle", "done", "left", "crashed"}
      /\ lock' = IF lock = r THEN None ELSE lock
      /\ UNCHANGED <<period, objects, document, source, attempt>>
  BY DEF Crash
<1> HIDE DEF new
<1>3. /\ request' \in [Requests -> RequestRow] /\ request'[r] = new
      /\ \A k \in Requests \ {r} : request'[k] = request[k]
  BY <1>1, <1>2 DEF IInv, IntakeTypeOK, RequestRow
<1>4. RequestOK(r)
  BY DEF IInv, RequestsOK
<1>5. RequestOK(r)'
  BY <1>1, <1>2, <1>3, <1>4, SameDocuments
     DEF RequestOK, ObjectAndDocument, AnswerStands, None
<1>6. \A k \in Requests : request'[k].step = "deciding" <=> lock' = k
  BY <1>1, <1>2, <1>3, NoneIsNothing DEF IInv, IntakeTypeOK, At
<1>7. AttemptsAgree' /\ lock' \in Requests \cup {None} /\ objects' \subseteq Requests
  BY <1>2 DEF IInv, IntakeTypeOK, AttemptsAgree
<1> QED BY <1>2, <1>3, <1>5, <1>6, <1>7, RequestStep DEF IInv, IntakeTypeOK
-----------------------------------------------------------------------------
(* What the transaction reads is so while it reads it.                     *)
LEMMA PlanRead ==
  ASSUME IInv, NEW r \in Requests, request[r].origin \in Origins,
         request[r].user \in Users
  PROVE  LET q == request[r]
         IN /\ Plan(r).kind \in Kinds \ {None}
            /\ Plan(r).doc \in Requests \cup {None}
            /\ Plan(r).kind = "repeat" =>
                 /\ source[q.origin].user = q.user
                 /\ source[q.origin].doc \in WithContent(q.content)
            /\ Plan(r).kind = "attach" => Plan(r).doc \in WithContent(q.content)
            /\ Plan(r).kind = "new" =>
                 Plan(r).doc = r /\ Cardinality(ChargedIn(q.period)) < Limit
<1> DEFINE q == request[r]
           known == WithContent(q.content)
           d == CHOOSE d \in known : TRUE
<1>1. Prior(r) \in {None, "same", "other"}
  BY DEF Prior
<1>2. CASE Prior(r) = "same"
  <2>1. source[q.origin] # NoSource /\ source[q.origin].user = q.user
    BY <1>2 DEF Prior, None
  <2>2. source[q.origin].doc \in known
    BY <1>2, <2>1 DEF Prior, None, WithContent, IInv, SourcesLead
  <2>3. Plan(r) = [kind |-> "repeat", doc |-> source[q.origin].doc]
    BY <1>2 DEF Plan, None
  <2>4. source[q.origin].doc \in Requests
    BY <2>2 DEF WithContent, Documents
  <2> QED BY <2>1, <2>2, <2>3, <2>4 DEF Kinds, None
<1>3. CASE Prior(r) = "other"
  <2>1. Plan(r) = [kind |-> "conflict", doc |-> None]
    BY <1>3 DEF Plan, None
  <2> QED BY <2>1 DEF Kinds, None
<1>4. CASE Prior(r) = None /\ known # {}
  <2>1. Plan(r) = IF document[d].status = "Trash" THEN [kind |-> "trashed", doc |-> None]
                  ELSE [kind |-> "attach", doc |-> d]
    BY <1>4 DEF Plan, None
  <2>2. d \in known
    BY <1>4
  <2>3. d \in Requests
    BY <2>2 DEF WithContent, Documents
  <2> HIDE DEF d
  <2> QED BY <2>1, <2>2, <2>3 DEF Kinds, None
<1>5. CASE Prior(r) = None /\ known = {}
  <2>1. Plan(r) = IF Cardinality(ChargedIn(q.period)) < Limit
                  THEN [kind |-> "new", doc |-> r] ELSE [kind |-> "quota", doc |-> None]
    BY <1>5 DEF Plan, None, Used
  <2> QED BY <2>1 DEF Kinds, None
<1> QED BY <1>1, <1>2, <1>3, <1>4, <1>5

LEMMA DecideStep ==
  ASSUME IInv, NEW r \in Requests, Decide(r)
  PROVE  IInv'
<1> DEFINE new == [request[r] EXCEPT !.step = "deciding", !.plan = Plan(r).kind,
                                     !.doc = Plan(r).doc]
<1>1. /\ request[r].step = "prepared" /\ lock = None /\ lock' = r
      /\ request' = [request EXCEPT ![r] = new]
      /\ UNCHANGED <<period, objects, document, source, attempt>>
  BY DEF Decide, LockFree, At, IInv, IntakeTypeOK
<1>2. RequestOK(r) /\ request[r] \in RequestRow
  BY DEF IInv, RequestsOK, IntakeTypeOK, RequestRow
<1>3. /\ Plan(r).kind \in Kinds \ {None}
      /\ Plan(r).doc \in Requests \cup {None}
      /\ Plan(r).kind = "repeat" =>
           /\ source[request[r].origin].user = request[r].user
           /\ source[request[r].origin].doc \in WithContent(request[r].content)
      /\ Plan(r).kind = "attach" => Plan(r).doc \in WithContent(request[r].content)
      /\ Plan(r).kind = "new" =>
           Plan(r).doc = r /\ Cardinality(ChargedIn(request[r].period)) < Limit
  BY <1>1, <1>2, PlanRead DEF RequestOK
<1>4. /\ new.step = "deciding" /\ new.user = request[r].user
      /\ new.origin = request[r].origin /\ new.content = request[r].content
      /\ new.period = request[r].period /\ new.result = request[r].result
      /\ new.plan = Plan(r).kind /\ new.doc = Plan(r).doc
  BY <1>2 DEF RequestRow
<1>5. new \in RequestRow
  <2>1. [request[r] EXCEPT !.step = "deciding"] \in RequestRow
    BY <1>2 DEF RequestRow, Steps
  <2>2. \A row \in RequestRow : [row EXCEPT !.plan = Plan(r).kind] \in RequestRow
    BY <1>3 DEF RequestRow
  <2>3. \A row \in RequestRow : [row EXCEPT !.doc = Plan(r).doc] \in RequestRow
    BY <1>3 DEF RequestRow
  <2> QED BY <2>1, <2>2, <2>3
<1> HIDE DEF new
<1>6. /\ request' \in [Requests -> RequestRow] /\ request'[r] = new
      /\ \A k \in Requests \ {r} : request'[k] = request[k]
  BY <1>1, <1>5 DEF IInv, IntakeTypeOK, RequestRow
<1>7. RequestOK(r)'
  <2>1. PlanStands(r)'
    BY <1>1, <1>3, <1>4, <1>6, SameDocuments DEF PlanStands
  <2>2. AnswerStands(r)'
    BY <1>1, <1>2, <1>4, <1>6 DEF RequestOK, ObjectAndDocument, AnswerStands, None
  <2>3. ObjectAndDocument(r)'
    BY <1>1, <1>2, <1>4, <1>6, SameDocuments DEF RequestOK, ObjectAndDocument, None
  <2> QED BY <1>1, <1>2, <1>4, <1>6, <2>1, <2>2, <2>3 DEF RequestOK
<1>8. \A k \in Requests : request'[k].step = "deciding" <=> lock' = k
  BY <1>1, <1>4, <1>6, NoneIsNothing DEF IInv, IntakeTypeOK, At
<1>9. AttemptsAgree' /\ lock' \in Requests \cup {None} /\ objects' \subseteq Requests
  BY <1>1 DEF IInv, IntakeTypeOK, AttemptsAgree
<1> QED BY <1>1, <1>6, <1>7, <1>8, <1>9, RequestStep DEF IInv, IntakeTypeOK

(* An answer that names no new document.                                   *)
LEMMA AnsweredStep ==
  ASSUME IInv, NEW r \in Requests, NEW result \in Results \ {None, "accepted"},
         request[r].step = "deciding", Answer(r, "answered", result),
         lock' = None, UNCHANGED <<period, objects, document, source>>,
         result = "duplicate" => request[r].plan = "repeat",
         attempt' \in [Origins ->
           [user : Users \cup {None}, status : {None, "Rejected", "Accepted"}]],
         AttemptsAgree'
  PROVE  IInv'
<1>1. RequestOK(r) /\ lock = r
  BY DEF IInv, RequestsOK, IntakeTypeOK, At
<1>2. /\ request' \in [Requests -> RequestRow] /\ request'[r].step = "answered"
      /\ \A k \in Requests \ {r} : request'[k] = request[k]
      /\ request'[r].user = request[r].user /\ request'[r].origin = request[r].origin
      /\ request'[r].content = request[r].content
      /\ request'[r].result = result
  BY AnswerStep DEF Steps
<1>3. RequestOK(r)'
  <2>1. AnswerStands(r)'
    BY <1>1, <1>2, SameDocuments DEF RequestOK, PlanStands, AnswerStands
  <2>2. ObjectAndDocument(r)'
    BY <1>1, <1>2, SameDocuments DEF RequestOK, ObjectAndDocument
  <2> QED BY <1>1, <1>2, <2>1, <2>2 DEF RequestOK
<1>4. \A k \in Requests : request'[k].step = "deciding" <=> lock' = k
  BY <1>1, <1>2, NoneIsNothing DEF IInv, IntakeTypeOK, At
<1>5. lock' \in Requests \cup {None} /\ objects' \subseteq Requests
  BY DEF IInv, IntakeTypeOK
<1> QED BY <1>2, <1>3, <1>4, <1>5, RequestStep

LEMMA NothingWrittenStep ==
  ASSUME IInv, NEW r \in Requests,
         \/ CommitRepeat(r) \/ Refuse(r) \/ CommitQuota(r)
         \/ SourceTaken(r) \/ AttemptTaken(r) \/ CommitFails(r)
  PROVE  IInv'
<1>1. PICK result \in Results \ {None, "accepted"} :
        /\ Answer(r, "answered", result)
        /\ result = "duplicate" => request[r].plan = "repeat"
  BY DEF CommitRepeat, Refuse, CommitQuota, SourceTaken, AttemptTaken,
         CommitFails, Deciding, Results, None
<1>2. /\ request[r].step = "deciding" /\ lock' = None
      /\ UNCHANGED <<period, objects, document, source>>
  BY DEF CommitRepeat, Refuse, CommitQuota, SourceTaken, AttemptTaken,
         CommitFails, Deciding, At
<1>3. request[r].origin \in Origins /\ request[r].user \in Users
  BY <1>2 DEF IInv, RequestsOK, RequestOK
<1>4. \/ UNCHANGED attempt
      \/ /\ attempt[request[r].origin] = NoAttempt
         /\ attempt' = [attempt EXCEPT ![request[r].origin] =
                          [user |-> request[r].user, status |-> "Rejected"]]
  BY DEF CommitRepeat, Refuse, CommitQuota, SourceTaken, AttemptTaken, CommitFails
<1>5. /\ attempt' \in [Origins ->
           [user : Users \cup {None}, status : {None, "Rejected", "Accepted"}]]
      /\ AttemptsAgree'
  BY <1>2, <1>3, <1>4, RejectionRecorded
<1> QED BY <1>1, <1>2, <1>5, AnsweredStep

LEMMA DiscardStep ==
  ASSUME IInv, NEW r \in Requests, Discard(r) \/ Keep(r)
  PROVE  IInv'
<1>1. /\ request[r].step = "answered" /\ To(r, "done")
      /\ objects' = IF request[r].result = "accepted" THEN objects ELSE objects \ {r}
      /\ UNCHANGED <<period, document, source, attempt, lock>>
  BY DEF Discard, Keep, At, Key
<1>2. RequestOK(r) /\ lock # r
  BY <1>1 DEF IInv, RequestsOK, IntakeTypeOK, At
<1>3. /\ request' \in [Requests -> RequestRow] /\ request'[r].step = "done"
      /\ \A k \in Requests \ {r} : request'[k] = request[k]
      /\ request'[r].user = request[r].user /\ request'[r].origin = request[r].origin
      /\ request'[r].content = request[r].content
      /\ request'[r].result = request[r].result
  BY <1>1, ToStep DEF Steps
<1>4. RequestOK(r)'
  BY <1>1, <1>2, <1>3, SameDocuments DEF RequestOK, ObjectAndDocument, AnswerStands
<1>5. \A k \in Requests : request'[k].step = "deciding" <=> lock' = k
  BY <1>1, <1>2, <1>3 DEF IInv, IntakeTypeOK, At
<1>6. AttemptsAgree' /\ lock' \in Requests \cup {None} /\ objects' \subseteq Requests
  BY <1>1 DEF IInv, IntakeTypeOK, AttemptsAgree
<1> QED BY <1>1, <1>3, <1>4, <1>5, <1>6, RequestStep DEF IInv, IntakeTypeOK

LEMMA DiscardFailsStep ==
  ASSUME IInv, NEW r \in Requests, DiscardFails(r)
  PROVE  IInv'
<1> DEFINE result == IF request[r].result = "duplicate" THEN "error" ELSE request[r].result
<1>1. /\ request[r].step = "answered" /\ request[r].result # "accepted"
      /\ Answer(r, "left", result)
      /\ UNCHANGED <<period, objects, document, source, attempt, lock>>
  BY DEF DiscardFails, At
<1>2. RequestOK(r) /\ lock # r
  BY <1>1 DEF IInv, RequestsOK, IntakeTypeOK, At
<1>3. result \in Results \ {"duplicate", "accepted"}
  BY <1>1 DEF IInv, IntakeTypeOK, Results
<1>4. result = "unknown" <=> request[r].result = "unknown"
  OBVIOUS
<1> HIDE DEF result
<1>5. /\ request' \in [Requests -> RequestRow] /\ request'[r].step = "left"
      /\ \A k \in Requests \ {r} : request'[k] = request[k]
      /\ request'[r].user = request[r].user /\ request'[r].origin = request[r].origin
      /\ request'[r].content = request[r].content
      /\ request'[r].result = result
  BY <1>1, <1>3, AnswerStep DEF Steps
<1>6. RequestOK(r)'
  BY <1>1, <1>2, <1>3, <1>4, <1>5, SameDocuments
     DEF RequestOK, ObjectAndDocument, AnswerStands
<1>7. \A k \in Requests : request'[k].step = "deciding" <=> lock' = k
  BY <1>1, <1>2, <1>5 DEF IInv, IntakeTypeOK, At
<1>8. AttemptsAgree' /\ lock' \in Requests \cup {None} /\ objects' \subseteq Requests
  BY <1>1 DEF IInv, IntakeTypeOK, AttemptsAgree
<1> QED BY <1>1, <1>5, <1>6, <1>7, <1>8, RequestStep DEF IInv, IntakeTypeOK

-----------------------------------------------------------------------------
(* The documents after a write: those before and perhaps the request's own.*)
LEMMA DocumentsWritten ==
  ASSUME IInv, NEW r \in Requests, Accepts(r), Write(r)
  PROVE  LET q == request[r]
         IN /\ document' \in [Requests ->
                 [content : Contents \cup {None},
                  status : {None, "Available", "Archived", "Trash"},
                  by : Users \cup {None}, group : BOOLEAN, period : Nat]]
            /\ \A d \in Requests \ {r} : document'[d] = document[d]
            /\ q.plan = "attach" => document' = document
            /\ q.plan = "new" =>
                 /\ document'[r].by = q.user /\ document'[r].period = q.period
                 /\ document'[r].group <=> q.origin \in Groups
            /\ Documents' = Documents \cup (IF q.plan = "new" THEN {r} ELSE {})
            /\ r \notin Documents
            /\ \A c : WithContent(c) \subseteq WithContent(c)'
            /\ \A c : c = q.content => q.doc \in WithContent(c)'
<1> DEFINE q == request[r]
           new == [content |-> q.content, status |-> "Available",
                   by |-> q.user, group |-> q.origin \in Groups, period |-> q.period]
           Row == [content : Contents \cup {None},
                   status : {None, "Available", "Archived", "Trash"},
                   by : Users \cup {None}, group : BOOLEAN, period : Nat]
<1>1. /\ q.step = "deciding" /\ q.plan \in {"attach", "new"}
      /\ document' = IF q.plan = "attach" THEN document
                     ELSE [document EXCEPT ![r] = new]
  BY DEF Accepts, Deciding, At, Write
<1>2. /\ q.user \in Users /\ q.content \in Contents /\ q.period \in Nat
      /\ r \notin Documents
      /\ q.plan = "attach" => q.doc \in WithContent(q.content)
      /\ q.plan = "new" => q.doc = r
  BY <1>1 DEF IInv, IntakeTypeOK, RequestsOK, RequestOK, ObjectAndDocument, PlanStands
<1>3. document \in [Requests -> Row]
  BY DEF IInv, IntakeTypeOK
<1>4. /\ new \in Row /\ new.status # None /\ new.content = q.content
      /\ new.by = q.user /\ new.period = q.period
      /\ new.group <=> q.origin \in Groups
  <2>1. new \in Row
    BY <1>2 DEF None
  <2>2. /\ new.status # None /\ new.content = q.content
        /\ new.by = q.user /\ new.period = q.period
    BY DEF None
  <2>3. new.group <=> q.origin \in Groups
    BY Zenon
  <2> QED BY <2>1, <2>2, <2>3
<1> HIDE DEF new, Row
<1>5. /\ document' \in [Requests -> Row]
      /\ \A d \in Requests \ {r} : document'[d] = document[d]
      /\ q.plan = "attach" => document' = document
      /\ q.plan = "new" => document'[r] = new
  BY <1>1, <1>3, <1>4
<1>6. Documents' = Documents \cup (IF q.plan = "new" THEN {r} ELSE {})
  BY <1>1, <1>2, <1>4, <1>5 DEF Documents
<1>7. \A c : WithContent(c) \subseteq WithContent(c)'
  BY <1>2, <1>5, <1>6 DEF WithContent, Documents
<1>8. \A c : c = q.content => q.doc \in WithContent(c)'
  BY <1>1, <1>2, <1>4, <1>5, <1>6, <1>7 DEF WithContent
<1> QED BY <1>2, <1>4, <1>5, <1>6, <1>7, <1>8 DEF Row

LEMMA QuotaKept ==
  ASSUME IInv, NEW r \in Requests, Accepts(r), Write(r)
  PROVE  QuotaHeld'
<1> DEFINE q == request[r]
<1>1. /\ q.plan \in {"attach", "new"} /\ q.step = "deciding"
      /\ q.plan = "new" => Cardinality(ChargedIn(q.period)) < Limit
  BY DEF Accepts, Deciding, At, IInv, RequestsOK, RequestOK, PlanStands
<1>2. CASE q.plan = "attach"
  BY <1>2, DocumentsWritten, SameDocuments DEF IInv, QuotaHeld
<1>3. CASE q.plan = "new"
  <2> SUFFICES ASSUME NEW p \in 1 .. MaxPeriod PROVE Cardinality(ChargedIn(p)') <= Limit
    BY DEF QuotaHeld
  <2>1. /\ Documents' = Documents \cup {r} /\ r \notin Documents
        /\ document'[r].period = q.period
        /\ \A d \in Requests \ {r} : document'[d] = document[d]
    BY <1>3, DocumentsWritten
  <2>2. ChargedIn(p)' = ChargedIn(p) \cup (IF p = q.period THEN {r} ELSE {})
    BY <2>1 DEF ChargedIn, Documents
  <2>3. r \notin ChargedIn(p) /\ IsFiniteSet(ChargedIn(p))
    <3>1. ChargedIn(p) \subseteq Requests
      BY DEF ChargedIn, Documents
    <3>2. r \notin ChargedIn(p)
      BY <2>1 DEF ChargedIn
    <3> QED BY <3>1, <3>2, FS_Subset, IntakeAssumption
  <2>4. Cardinality(ChargedIn(p)) \in Nat /\ Limit \in Nat
    BY <2>3, FS_CardinalityType, IntakeAssumption
  <2>5. CASE p = q.period
    <3>1. Cardinality(ChargedIn(p) \cup {r}) = Cardinality(ChargedIn(p)) + 1
      BY <2>3, FS_AddElement
    <3>2. ChargedIn(p)' = ChargedIn(p) \cup {r}
      BY <2>2, <2>5
    <3> QED BY <1>1, <1>3, <2>4, <2>5, <3>1, <3>2
  <2>6. CASE p # q.period
    BY <2>2, <2>6 DEF IInv, QuotaHeld
  <2> QED BY <2>5, <2>6
<1> QED BY <1>1, <1>2, <1>3

(* Only who has the lock writes, so no one else was deciding.              *)
LEMMA WriteStep ==
  ASSUME IInv, NEW r \in Requests, Accepts(r), Write(r),
         NEW result \in {"accepted", "duplicate", "unknown"},
         Answer(r, "answered", result),
         result = "accepted" => request[r].plan = "new",
         result = "duplicate" => request[r].plan = "attach",
         UNCHANGED <<period, objects>>
  PROVE  IInv'
<1> DEFINE q == request[r]
           o == q.origin
<1>1. /\ q.step = "deciding" /\ q.plan \in {"attach", "new"} /\ lock' = None
      /\ source[o] = NoSource
      /\ source' = [source EXCEPT ![o] = [user |-> q.user, doc |-> q.doc]]
      /\ attempt' = [attempt EXCEPT ![o] = [user |-> q.user, status |-> "Accepted"]]
  BY DEF Accepts, Deciding, At, Write
<1>2. RequestOK(r) /\ lock = r
  BY <1>1 DEF IInv, RequestsOK, IntakeTypeOK, At
<1>3. o \in Origins /\ q.user \in Users /\ q.user # None /\ r \in objects
  BY <1>1, <1>2, NoneIsNothing DEF RequestOK, ObjectAndDocument
<1>4. /\ request' \in [Requests -> RequestRow] /\ request'[r].step = "answered"
      /\ \A k \in Requests \ {r} : request'[k] = request[k]
      /\ request'[r].user = q.user /\ request'[r].origin = o
      /\ request'[r].content = q.content /\ request'[r].result = result
  BY AnswerStep DEF Steps, Results
<1>5. /\ document' \in [Requests ->
           [content : Contents \cup {None},
            status : {None, "Available", "Archived", "Trash"},
            by : Users \cup {None}, group : BOOLEAN, period : Nat]]
      /\ \A d \in Requests \ {r} : document'[d] = document[d]
      /\ q.plan = "attach" => document' = document
      /\ q.plan = "new" =>
           document'[r].by = q.user /\ (document'[r].group <=> o \in Groups)
      /\ Documents' = Documents \cup (IF q.plan = "new" THEN {r} ELSE {})
      /\ r \notin Documents
      /\ \A c : WithContent(c) \subseteq WithContent(c)'
      /\ \A c : c = q.content => q.doc \in WithContent(c)'
  BY DocumentsWritten
<1>6. Documents \subseteq Requests /\ Documents' \subseteq Requests
      /\ \A c : WithContent(c) \subseteq Documents /\ WithContent(c)' \subseteq Documents'
  BY DEF Documents, WithContent
<1>7. q.doc \in Requests /\ None \notin Requests
  BY <1>5, <1>6, NoneIsNothing
<1>8. /\ source'[o] = [user |-> q.user, doc |-> q.doc]
      /\ \A x \in Origins \ {o} : source'[x] = source[x] /\ attempt'[x] = attempt[x]
      /\ attempt'[o] = [user |-> q.user, status |-> "Accepted"]
      /\ source' \in [Origins -> [user : Users \cup {None}, doc : Requests \cup {None}]]
      /\ attempt' \in [Origins ->
           [user : Users \cup {None}, status : {None, "Rejected", "Accepted"}]]
  BY <1>1, <1>3, <1>7 DEF IInv, IntakeTypeOK
<1> HIDE DEF q, o
<1>9. IntakeTypeOK' /\ lock' \in Requests \cup {None}
  <2>1. \A k \in Requests : request'[k].step = "deciding" <=> lock' = k
    BY <1>1, <1>2, <1>4, <1>7 DEF IInv, IntakeTypeOK, At
  <2> QED BY <1>1, <1>4, <1>5, <1>8, <2>1 DEF IInv, IntakeTypeOK, RequestRow, At
<1>10. RequestsOK'
  <2>1. RequestOK(r)'
    BY <1>1, <1>3, <1>4, <1>5, <1>8, <1>2
       DEF RequestOK, ObjectAndDocument, AnswerStands, q, o
  <2>2. ASSUME NEW k \in Requests \ {r} PROVE RequestOK(k)'
    <3>1. RequestOK(k) /\ request[k].step # "deciding" /\ request'[k] = request[k]
      BY <1>2, <1>4 DEF IInv, RequestsOK, IntakeTypeOK, At
    <3>2. ObjectAndDocument(k)'
      BY <1>5, <3>1 DEF RequestOK, ObjectAndDocument
    <3>3. AnswerStands(k)'
      <4> SUFFICES ASSUME request[k].result \in {"accepted", "duplicate"}
                   PROVE  AnswerStands(k)'
        BY <3>1 DEF AnswerStands
      <4>1. /\ request[k].origin \in Origins
            /\ source[request[k].origin].user = request[k].user
            /\ source[request[k].origin].doc \in WithContent(request[k].content)
        BY <3>1 DEF RequestOK, AnswerStands
      <4>2. request[k].origin # o
        BY <1>1, <1>6, <1>7, <4>1 DEF NoSource
      <4> QED BY <1>5, <1>8, <3>1, <4>1, <4>2 DEF AnswerStands
    <3> QED BY <3>1, <3>2, <3>3 DEF RequestOK
  <2> QED BY <2>1, <2>2 DEF RequestsOK
<1>11. SourcesLead'
  BY <1>3, <1>5, <1>6, <1>8 DEF IInv, SourcesLead
<1>12. AttemptsAgree'
  BY <1>1, <1>3, <1>8 DEF IInv, AttemptsAgree, NoSource
<1>13. CreatorSent'
  <2> SUFFICES ASSUME NEW d \in Documents', ~document'[d].group
               PROVE  \E x \in Origins \ Groups :
                        source'[x] = [user |-> document'[d].by, doc |-> d]
    BY DEF CreatorSent, SentInPerson
  <2>1. CASE d \in Documents
    <3>1. document'[d] = document[d] /\ d \in Requests
      BY <1>5, <1>6, <2>1
    <3>2. PICK x \in Origins \ Groups :
            source[x] = [user |-> document[d].by, doc |-> d]
      BY <2>1, <3>1 DEF IInv, CreatorSent, SentInPerson
    <3>3. x # o
      BY <1>1, <1>7, <3>1, <3>2 DEF NoSource
    <3> QED BY <1>8, <3>1, <3>2, <3>3
  <2>2. CASE d = r /\ q.plan = "new"
    <3>1. q.doc = r
      BY <1>1, <1>2, <2>2 DEF RequestOK, PlanStands, q
    <3> QED BY <1>3, <1>5, <1>8, <2>2, <3>1
  <2> QED BY <1>5, <2>1, <2>2
<1>14. QuotaHeld'
  BY QuotaKept
<1> QED BY <1>9, <1>10, <1>11, <1>12, <1>13, <1>14 DEF IInv

LEMMA CommitStep ==
  ASSUME IInv, NEW r \in Requests, Commit(r) \/ CommitUnknown(r)
  PROVE  IInv'
<1>1. /\ Accepts(r) /\ Write(r) /\ UNCHANGED <<period, objects>>
      /\ request[r].plan \in {"attach", "new"}
  BY DEF Commit, CommitUnknown, Accepts, Deciding
<1>2. PICK result \in {"accepted", "duplicate", "unknown"} :
        /\ Answer(r, "answered", result)
        /\ result = "accepted" => request[r].plan = "new"
        /\ result = "duplicate" => request[r].plan = "attach"
  BY <1>1 DEF Commit, CommitUnknown
<1> QED BY <1>1, <1>2, WriteStep

(* A document keeps its bytes, its creator and its charge.                 *)
LEMMA ChangeStatusStep ==
  ASSUME IInv, NEW d \in Requests, ChangeStatus(d)
  PROVE  IInv'
<1>1. PICK s \in {"Archived", "Trash", "Available"} :
        /\ <<document[d].status, s>> \in Moves
        /\ document' = [document EXCEPT ![d].status = s]
  BY DEF ChangeStatus
<1>2. UNCHANGED <<period, request, objects, source, attempt, lock>>
  BY DEF ChangeStatus
<1>3. document[d].status # None
  BY <1>1 DEF Moves, None
<1>4. /\ document' \in [Requests ->
           [content : Contents \cup {None},
            status : {None, "Available", "Archived", "Trash"},
            by : Users \cup {None}, group : BOOLEAN, period : Nat]]
      /\ \A e \in Requests :
           /\ document'[e].content = document[e].content
           /\ document'[e].by = document[e].by
           /\ document'[e].group = document[e].group
           /\ document'[e].period = document[e].period
           /\ document'[e].status # None <=> document[e].status # None
  BY <1>1, <1>3 DEF IInv, IntakeTypeOK, None
<1>5. Documents' = Documents /\ Documents \subseteq Requests
  BY <1>4 DEF Documents
<1>6. \A c : WithContent(c)' = WithContent(c)
  BY <1>4, <1>5 DEF WithContent
<1>7. \A p : ChargedIn(p)' = ChargedIn(p)
  BY <1>4, <1>5 DEF ChargedIn
<1>8. IntakeTypeOK' /\ lock' \in Requests \cup {None}
  BY <1>2, <1>4 DEF IInv, IntakeTypeOK, At
<1>9. RequestsOK'
  BY <1>2, <1>5, <1>6, <1>7
     DEF IInv, RequestsOK, RequestOK, ObjectAndDocument, PlanStands, AnswerStands
<1>10. SourcesLead' /\ AttemptsAgree'
  BY <1>2, <1>5 DEF IInv, SourcesLead, AttemptsAgree
<1>11. CreatorSent'
  BY <1>2, <1>4, <1>5 DEF IInv, CreatorSent, SentInPerson
<1>12. QuotaHeld'
  BY <1>7 DEF IInv, QuotaHeld
<1> QED BY <1>8, <1>9, <1>10, <1>11, <1>12 DEF IInv

LEMMA NextInv == IInv /\ [Next]_vars => IInv'
<1> SUFFICES ASSUME IInv, [Next]_vars PROVE IInv'
  OBVIOUS
<1>1. CASE UNCHANGED <<request, objects, document, source, attempt, lock>>
           /\ period' \in 1..(MaxPeriod + 1)
  <2>1. IntakeTypeOK' /\ lock' \in Requests \cup {None}
    BY <1>1 DEF IInv, IntakeTypeOK, At
  <2>2. RequestsOK'
    BY <1>1, SameDocuments
       DEF IInv, RequestsOK, RequestOK, ObjectAndDocument, PlanStands, AnswerStands
  <2>3. SourcesLead' /\ AttemptsAgree' /\ CreatorSent' /\ QuotaHeld'
    BY <1>1, SameDocuments
       DEF IInv, SourcesLead, AttemptsAgree, CreatorSent, SentInPerson, QuotaHeld
  <2> QED BY <2>1, <2>2, <2>3 DEF IInv
<1>2. CASE NextPeriod
  BY <1>1, <1>2, IntakeAssumption DEF NextPeriod, IInv, IntakeTypeOK
<1>3. CASE UNCHANGED vars
  BY <1>1, <1>3 DEF vars, IInv, IntakeTypeOK
<1>4. ASSUME NEW r \in Requests, Handler(r) PROVE IInv'
  <2>1. CASE UploadDocument(r) \/ HandleLINE(r) \/ ImportDrive(r)
    BY <2>1, ReceiveStep DEF UploadDocument, HandleLINE, ImportDrive
  <2>2. CASE Examine(r) \/ RefuseFile(r)
    BY <2>2, ExamineStep
  <2>3. CASE ExamineFails(r)
    BY <2>3, ExamineFailsStep
  <2>4. CASE RecordRejected(r)
    BY <2>4, RecordRejectedStep
  <2>5. CASE Decide(r)
    BY <2>5, DecideStep
  <2>6. CASE \/ CommitRepeat(r) \/ Refuse(r) \/ CommitQuota(r)
             \/ SourceTaken(r) \/ AttemptTaken(r) \/ CommitFails(r)
    BY <2>6, NothingWrittenStep
  <2>7. CASE Commit(r) \/ CommitUnknown(r)
    BY <2>7, CommitStep
  <2>8. CASE Discard(r) \/ Keep(r)
    BY <2>8, DiscardStep
  <2>9. CASE DiscardFails(r)
    BY <2>9, DiscardFailsStep
  <2>10. CASE Crash(r)
    BY <2>10, CrashStep
  <2> QED BY <1>4, <2>1, <2>2, <2>3, <2>4, <2>5, <2>6, <2>7, <2>8, <2>9, <2>10
          DEF Handler
<1> QED BY <1>2, <1>3, <1>4, ChangeStatusStep DEF Next

-----------------------------------------------------------------------------
(* The inbox seen from outside.  A request carries what its origin can be  *)
(* sent, by whom, and a safe file from its examination on; no bytes have   *)
(* two documents, which the unique index sees to.                          *)
Sent(r) ==
  LET q == request[r]
  IN /\ q.step \in {"stored", "refused", "prepared", "deciding"} =>
          /\ q.user \in SendersOf[q.origin] /\ q.content \in FilesOf[q.origin]
          /\ q.period \in 1 .. (MaxPeriod + 1)
     /\ q.step \in {"prepared", "deciding"} => q.content \notin Unsafe

OnePerContent == \A d, e \in Documents :
  document[d].content = document[e].content => d = e

BoxInv ==
  /\ \A r \in Requests : Sent(r)
  /\ OnePerContent
  /\ \A d \in Documents : document[d].content \in Contents

LEMMA InitBoxInv == Init => BoxInv
<1> SUFFICES ASSUME Init PROVE BoxInv
  OBVIOUS
<1>1. Documents = {}
  BY DEF Init, Documents, NoDocument
<1>2. \A r \in Requests : request[r].step = "idle"
  BY DEF Init, NoRequest
<1> QED BY <1>1, <1>2 DEF BoxInv, Sent, OnePerContent

(* A request on its way keeps what it was sent with.                       *)
LEMMA SentStays ==
  ASSUME IInv, BoxInv, [Next]_vars
  PROVE  \A r \in Requests : Sent(r)'
<1>1. \A k \in Requests : Sent(k)
  BY DEF BoxInv
<1>2. ASSUME NEW r \in Requests, Sent(r)',
             \A k \in Requests \ {r} : request'[k] = request[k]
      PROVE  \A k \in Requests : Sent(k)'
  <2>1. \A k \in Requests \ {r} : Sent(k)'
    BY <1>1, <1>2 DEF Sent
  <2> QED BY <1>2, <2>1
<1>3. CASE UNCHANGED request
  BY <1>1, <1>3 DEF Sent
<1>4. ASSUME NEW r \in Requests, NEW channel, Receive(r, channel)
      PROVE  \A k \in Requests : Sent(k)'
  <2>1. PICK o \in Origins : \E u \in SendersOf[o], c \in FilesOf[o] :
          request' = [request EXCEPT ![r] =
              [NoRequest EXCEPT !.step = "stored", !.user = u, !.origin = o,
                                !.content = c, !.period = period]]
    BY <1>4 DEF Receive
  <2>2. PICK u \in SendersOf[o], c \in FilesOf[o] :
          request' = [request EXCEPT ![r] =
              [NoRequest EXCEPT !.step = "stored", !.user = u, !.origin = o,
                                !.content = c, !.period = period]]
    BY <2>1
  <2> DEFINE new == [NoRequest EXCEPT !.step = "stored", !.user = u, !.origin = o,
                                      !.content = c, !.period = period]
  <2>3. /\ new.step = "stored" /\ new.user = u /\ new.origin = o
        /\ new.content = c /\ new.period = period
    BY DEF NoRequest
  <2>4. request' = [request EXCEPT ![r] = new]
    BY <2>2
  <2> HIDE DEF new
  <2>5. request'[r] = new /\ \A k \in Requests \ {r} : request'[k] = request[k]
    BY <2>4 DEF IInv, IntakeTypeOK
  <2>6. Sent(r)'
    BY <2>3, <2>5 DEF Sent, IInv, IntakeTypeOK
  <2> QED BY <1>2, <2>5, <2>6
<1>5. ASSUME NEW r \in Requests, NEW step \in Steps, To(r, step),
             \/ step = "done"
             \/ /\ request[r].step = "stored" /\ step \in {"refused", "prepared"}
                /\ step = "prepared" => request[r].content \notin Unsafe
      PROVE  \A k \in Requests : Sent(k)'
  <2>1. /\ request'[r].step = step /\ request'[r].user = request[r].user
        /\ request'[r].origin = request[r].origin
        /\ request'[r].content = request[r].content
        /\ request'[r].period = request[r].period
        /\ \A k \in Requests \ {r} : request'[k] = request[k]
    BY <1>5, ToStep
  <2>2. Sent(r)'
    BY <1>1, <1>5, <2>1 DEF Sent
  <2> QED BY <1>2, <2>1, <2>2
<1>6. ASSUME NEW r \in Requests, NEW step \in {"answered", "done", "left"},
             NEW result \in Results, Answer(r, step, result)
      PROVE  \A k \in Requests : Sent(k)'
  <2>1. /\ request'[r].step = step
        /\ \A k \in Requests \ {r} : request'[k] = request[k]
    BY <1>6, AnswerStep DEF Steps
  <2>2. Sent(r)'
    BY <2>1 DEF Sent
  <2> QED BY <1>2, <2>1, <2>2
<1>7. ASSUME NEW r \in Requests, Decide(r) PROVE \A k \in Requests : Sent(k)'
  <2> DEFINE new == [request[r] EXCEPT !.step = "deciding", !.plan = Plan(r).kind,
                                       !.doc = Plan(r).doc]
  <2>1. request' = [request EXCEPT ![r] = new] /\ request[r].step = "prepared"
    BY <1>7 DEF Decide, At, IInv, IntakeTypeOK
  <2>2. request \in [Requests -> RequestRow] /\ request[r] \in RequestRow
    BY DEF IInv, IntakeTypeOK, RequestRow
  <2>3. /\ new.step = "deciding" /\ new.user = request[r].user
        /\ new.origin = request[r].origin /\ new.content = request[r].content
        /\ new.period = request[r].period
    BY <2>2 DEF RequestRow
  <2> HIDE DEF new
  <2>4. request'[r] = new /\ \A k \in Requests \ {r} : request'[k] = request[k]
    BY <2>1, <2>2
  <2>5. Sent(r)'
    BY <1>1, <2>1, <2>3, <2>4 DEF Sent
  <2> QED BY <1>2, <2>4, <2>5
<1>8. ASSUME NEW r \in Requests, Crash(r) PROVE \A k \in Requests : Sent(k)'
  <2>1. /\ request'[r].step = "crashed"
        /\ \A k \in Requests \ {r} : request'[k] = request[k]
    BY <1>8 DEF Crash, NoRequest, IInv, IntakeTypeOK
  <2>2. Sent(r)'
    BY <2>1 DEF Sent
  <2> QED BY <1>2, <2>1, <2>2
<1>9. ASSUME NEW r \in Requests, Handler(r) PROVE \A k \in Requests : Sent(k)'
  <2>1. CASE UploadDocument(r) \/ HandleLINE(r) \/ ImportDrive(r)
    BY <1>4, <2>1 DEF UploadDocument, HandleLINE, ImportDrive
  <2>2. CASE Examine(r) \/ RefuseFile(r)
    BY <1>5, <2>2 DEF Examine, RefuseFile, At, Steps
  <2>3. CASE ExamineFails(r) \/ RecordRejected(r)
    BY <1>6, <2>3 DEF ExamineFails, RecordRejected, Over, Results
  <2>4. CASE Decide(r)
    BY <1>7, <2>4
  <2>5. CASE \/ CommitRepeat(r) \/ Refuse(r) \/ CommitQuota(r)
             \/ SourceTaken(r) \/ AttemptTaken(r) \/ CommitFails(r)
             \/ Commit(r) \/ CommitUnknown(r)
    BY <1>6, <2>5
       DEF CommitRepeat, Refuse, CommitQuota, SourceTaken, AttemptTaken,
           CommitFails, Commit, CommitUnknown, Deciding, Results
  <2>6. CASE Discard(r) \/ Keep(r)
    BY <1>5, <2>6 DEF Discard, Keep, Steps
  <2>7. CASE DiscardFails(r)
    <3>1. request[r].result \in Results
      BY DEF IInv, IntakeTypeOK
    <3> QED BY <1>6, <2>7, <3>1 DEF DiscardFails, Results
  <2>8. CASE Crash(r)
    BY <1>8, <2>8
  <2> QED BY <1>9, <2>1, <2>2, <2>3, <2>4, <2>5, <2>6, <2>7, <2>8 DEF Handler
<1> QED BY <1>3, <1>9 DEF Next, vars, ChangeStatus, NextPeriod

LEMMA OneDocument ==
  ASSUME OnePerContent, NEW c, NEW d \in WithContent(c)
  PROVE  WithContent(c) = {d}
BY DEF OnePerContent, WithContent

(* The shelf before and after a step.                                      *)
LEMMA StatusIs ==
  ASSUME NEW c, NEW d
  PROVE  /\ WithContent(c) = {} => StatusOf(c) = None
         /\ WithContent(c)' = {} => StatusOf(c)' = None
         /\ WithContent(c) = {d} => StatusOf(c) = document[d].status
         /\ WithContent(c)' = {d} => StatusOf(c)' = document'[d].status
<1>1. (CHOOSE e \in {d} : TRUE) = d
  OBVIOUS
<1> QED BY <1>1, Zenon DEF StatusOf

LEMMA SameStatus ==
  ASSUME OnePerContent, NEW c, WithContent(c)' = WithContent(c),
         \A d \in WithContent(c) : document'[d] = document[d]
  PROVE  StatusOf(c)' = StatusOf(c)
<1>1. CASE WithContent(c) = {}
  BY <1>1, StatusIs
<1>2. CASE WithContent(c) # {}
  <2>1. PICK d \in WithContent(c) : TRUE
    BY <1>2
  <2>2. WithContent(c) = {d}
    BY <2>1, OneDocument
  <2> QED BY <2>1, <2>2, StatusIs
<1> QED BY <1>1, <1>2

(* What a write does to the shelf and to the charges.                      *)
LEMMA ShelfWritten ==
  ASSUME IInv, BoxInv, NEW r \in Requests, Accepts(r), Write(r),
         NEW c, c = request[r].content
  PROVE  LET q == request[r]
         IN /\ c \in Contents /\ q.period \in 1 .. (MaxPeriod + 1)
            /\ \A d \in Documents : document'[d] = document[d]
            /\ q.plan = "attach" =>
                 /\ StatusOf(c) # None
                 /\ \A k : StatusOf(k)' = StatusOf(k)
                 /\ \A p : ChargedIn(p)' = ChargedIn(p)
            /\ q.plan = "new" =>
                 /\ StatusOf(c) = None /\ StatusOf(c)' = "Available"
                 /\ \A k \in Contents \ {c} : StatusOf(k)' = StatusOf(k)
                 /\ \A p : ChargedIn(p)' =
                      ChargedIn(p) \cup (IF p = q.period THEN {r} ELSE {})
            /\ document'[q.doc].content = c
            /\ OnePerContent'
            /\ \A d \in Documents' : document'[d].content \in Contents
<1> DEFINE q == request[r]
           new == [content |-> q.content, status |-> "Available",
                   by |-> q.user, group |-> q.origin \in Groups, period |-> q.period]
<1>1. /\ q.step = "deciding" /\ q.plan \in {"attach", "new"}
      /\ q.plan = "new" => WithContent(c) = {}
      /\ document' = IF q.plan = "attach" THEN document
                     ELSE [document EXCEPT ![r] = new]
  BY DEF Accepts, UniqueContent, Deciding, At, Write
<1>2. /\ c \in Contents /\ r \notin Documents
      /\ q.period \in 1 .. (MaxPeriod + 1)
      /\ q.plan = "attach" => q.doc \in WithContent(c)
      /\ q.plan = "new" => q.doc = r
  BY <1>1 DEF IInv, RequestsOK, RequestOK, ObjectAndDocument, PlanStands, BoxInv, Sent
<1>3. \A d \in Documents : document'[d] = document[d]
  BY <1>1, <1>2 DEF IInv, IntakeTypeOK, Documents
<1>4. CASE q.plan = "attach"
  <2>1. /\ document' = document /\ \A k : WithContent(k)' = WithContent(k)
        /\ \A p : ChargedIn(p)' = ChargedIn(p) /\ Documents' = Documents
    BY <1>1, <1>4, SameDocuments
  <2>2. WithContent(c) = {q.doc}
    BY <1>2, <1>4, OneDocument DEF BoxInv
  <2>3. StatusOf(c) # None
    BY <1>2, <1>4, <2>2, StatusIs DEF WithContent, Documents
  <2>4. \A k : StatusOf(k)' = StatusOf(k)
    BY <2>1, SameStatus DEF BoxInv
  <2>5. document'[q.doc].content = c
    BY <1>2, <1>4, <2>1 DEF WithContent
  <2>6. OnePerContent' /\ \A d \in Documents' : document'[d].content \in Contents
    BY <2>1 DEF BoxInv, OnePerContent
  <2> QED BY <1>2, <1>3, <1>4, <2>1, <2>3, <2>4, <2>5, <2>6
<1>5. CASE q.plan = "new"
  <2>1. /\ document' = [document EXCEPT ![r] = new] /\ WithContent(c) = {}
        /\ q.doc = r
    BY <1>1, <1>2, <1>5
  <2>2. new.status = "Available" /\ new.content = c /\ new.period = q.period
    OBVIOUS
  <2> HIDE DEF new
  <2>3. /\ document'[r] = new /\ Documents \subseteq Requests
        /\ \A d \in Requests \ {r} : document'[d] = document[d]
    BY <2>1 DEF IInv, IntakeTypeOK, Documents
  <2>4. Documents' = Documents \cup {r}
    BY <2>2, <2>3 DEF Documents, None
  <2>5. \A k : WithContent(k)' = WithContent(k) \cup (IF k = c THEN {r} ELSE {})
    BY <1>2, <2>2, <2>3, <2>4 DEF WithContent
  <2>6. \A p : ChargedIn(p)' = ChargedIn(p) \cup (IF p = q.period THEN {r} ELSE {})
    BY <1>2, <2>2, <2>3, <2>4 DEF ChargedIn
  <2>7. StatusOf(c) = None /\ StatusOf(c)' = "Available"
    <3>1. WithContent(c)' = {r}
      BY <2>1, <2>5
    <3> QED BY <2>1, <2>2, <2>3, <3>1, StatusIs
  <2>8. ASSUME NEW k \in Contents \ {c} PROVE StatusOf(k)' = StatusOf(k)
    <3>1. WithContent(k)' = WithContent(k)
      BY <2>5
    <3>2. \A d \in WithContent(k) : document'[d] = document[d]
      BY <1>3 DEF WithContent
    <3> QED BY <3>1, <3>2, SameStatus DEF BoxInv
  <2>9. OnePerContent'
    <3>1. \A d \in Documents : document[d].content # c
      BY <2>1 DEF WithContent
    <3> QED BY <1>3, <2>2, <2>3, <2>4, <3>1 DEF BoxInv, OnePerContent
  <2>10. \A d \in Documents' : document'[d].content \in Contents
    BY <1>2, <1>3, <2>2, <2>3, <2>4 DEF BoxInv
  <2> QED BY <1>2, <1>3, <1>5, <2>1, <2>2, <2>3, <2>6, <2>7, <2>8, <2>9, <2>10
<1> QED BY <1>1, <1>4, <1>5

(* What an order of their owner does to them.                              *)
LEMMA ShelfMoved ==
  ASSUME IInv, BoxInv, NEW d \in Requests, ChangeStatus(d),
         NEW c, c = document[d].content
  PROVE  /\ c \in Contents
         /\ <<StatusOf(c), StatusOf(c)'>> \in Moves
         /\ \A k \in Contents \ {c} : StatusOf(k)' = StatusOf(k)
         /\ \A p : ChargedIn(p)' = ChargedIn(p)
         /\ \A e \in Requests : document'[e].content = document[e].content
         /\ OnePerContent'
         /\ \A e \in Documents' : document'[e].content \in Contents
<1>1. PICK s \in {"Archived", "Trash", "Available"} :
        /\ <<document[d].status, s>> \in Moves
        /\ document' = [document EXCEPT ![d].status = s]
  BY DEF ChangeStatus
<1>2. document[d].status # None
  BY <1>1 DEF Moves, None
<1>3. /\ document'[d].status = s
      /\ \A e \in Requests \ {d} : document'[e] = document[e]
      /\ \A e \in Requests :
           /\ document'[e].content = document[e].content
           /\ document'[e].period = document[e].period
           /\ document'[e].status # None <=> document[e].status # None
  BY <1>1, <1>2 DEF IInv, IntakeTypeOK, None
<1>4. Documents' = Documents /\ Documents \subseteq Requests /\ d \in Documents
  BY <1>2, <1>3 DEF Documents
<1>5. \A k : WithContent(k)' = WithContent(k)
  BY <1>3, <1>4 DEF WithContent
<1>6. \A p : ChargedIn(p)' = ChargedIn(p)
  BY <1>3, <1>4 DEF ChargedIn
<1>7. <<StatusOf(c), StatusOf(c)'>> \in Moves
  <2>1. d \in WithContent(c)
    BY <1>4 DEF WithContent
  <2>2. WithContent(c) = {d}
    BY <2>1, OneDocument DEF BoxInv
  <2>3. StatusOf(c) = document[d].status /\ StatusOf(c)' = s
    BY <1>3, <1>5, <2>2, StatusIs
  <2> QED BY <1>1, <2>3
<1>8. ASSUME NEW k \in Contents \ {c} PROVE StatusOf(k)' = StatusOf(k)
  <2>1. \A e \in WithContent(k) : document'[e] = document[e]
    BY <1>3, <1>4, <1>8 DEF WithContent
  <2> QED BY <1>5, <2>1, SameStatus DEF BoxInv
<1>9. OnePerContent' /\ \A e \in Documents' : document'[e].content \in Contents
  BY <1>3, <1>4 DEF BoxInv, OnePerContent
<1> QED BY <1>3, <1>4, <1>6, <1>7, <1>8, <1>9 DEF BoxInv

LEMMA NextBoxInv == IInv /\ BoxInv /\ [Next]_vars => BoxInv'
<1> SUFFICES ASSUME IInv, BoxInv, [Next]_vars PROVE BoxInv'
  OBVIOUS
<1>1. \A r \in Requests : Sent(r)'
  BY SentStays
<1>2. OnePerContent' /\ \A d \in Documents' : document'[d].content \in Contents
  <2>1. CASE UNCHANGED document
    BY <2>1, SameDocuments DEF BoxInv, OnePerContent
  <2>2. ASSUME NEW r \in Requests, Commit(r) \/ CommitUnknown(r)
        PROVE  OnePerContent' /\ \A d \in Documents' : document'[d].content \in Contents
    BY <2>2, ShelfWritten DEF Commit, CommitUnknown
  <2>3. ASSUME NEW d \in Requests, ChangeStatus(d)
        PROVE  OnePerContent' /\ \A e \in Documents' : document'[e].content \in Contents
    BY <2>3, ShelfMoved
  <2>4. ASSUME NEW r \in Requests, Handler(r)
        PROVE  UNCHANGED document \/ Commit(r) \/ CommitUnknown(r)
    BY <2>4
       DEF Handler, UploadDocument, HandleLINE, ImportDrive, Receive, Examine,
           RefuseFile, ExamineFails, RecordRejected, Decide, CommitRepeat, Refuse,
           CommitQuota, SourceTaken, AttemptTaken, CommitFails, Discard,
           DiscardFails, Keep, Crash
  <2> QED BY <2>1, <2>2, <2>3, <2>4 DEF Next, NextPeriod, vars
<1> QED BY <1>1, <1>2 DEF BoxInv

-----------------------------------------------------------------------------
(* Every step is one of the inbox.                                         *)
Shelf == [c \in Contents |-> StatusOf(c)]
Held == [o \in Origins |-> HeldUnder(o)]
Charged == [p \in 1 .. (MaxPeriod + 1) |-> Cardinality(ChargedIn(p))]

LEMMA InitBox == Init => Box!Init
<1> SUFFICES ASSUME Init PROVE Box!Init
  OBVIOUS
<1>1. Documents = {}
  BY DEF Init, Documents, NoDocument
<1>2. /\ \A c : WithContent(c) = {}
      /\ \A p : ChargedIn(p) = {}
  BY <1>1 DEF WithContent, ChargedIn
<1>3. Shelf = [c \in Contents |-> Box!None]
  BY <1>2 DEF Shelf, StatusOf, None, Box!None
<1>4. Held = [o \in Origins |-> Box!Nothing]
  BY DEF Init, Held, HeldUnder, NoSource, None, Box!Nothing, Box!None
<1>5. attempt = [o \in Origins |-> Box!NoAttempt]
  BY DEF Init, NoAttempt, None, Box!NoAttempt, Box!None
<1>6. Charged = [p \in Box!Periods |-> 0]
  BY <1>2, FS_EmptySet DEF Charged, Box!Periods
<1> QED BY <1>3, <1>4, <1>5, <1>6 DEF Box!Init, Shelf, Held, Charged

LEMMA BoxStays ==
  ASSUME OnePerContent, UNCHANGED <<document, source>>
  PROVE  Shelf' = Shelf /\ Held' = Held /\ Charged' = Charged
<1>1. Shelf' = Shelf
  <2>1. \A c : StatusOf(c)' = StatusOf(c)
    BY SameDocuments, SameStatus
  <2> QED BY <2>1 DEF Shelf
<1>2. Held' = Held
  BY DEF Held, HeldUnder
<1>3. Charged' = Charged
  BY SameDocuments DEF Charged
<1> QED BY <1>1, <1>2, <1>3

(* A rejection, where it is recorded at all.                               *)
LEMMA RejectsInBox ==
  ASSUME IInv, BoxInv, NEW r \in Requests,
         request[r].step \in {"refused", "deciding"},
         UNCHANGED <<document, source>>,
         \/ UNCHANGED attempt
         \/ /\ attempt[request[r].origin] = NoAttempt
            /\ attempt' = [attempt EXCEPT ![request[r].origin] =
                             [user |-> request[r].user, status |-> "Rejected"]]
  PROVE  [Box!Next]_(Box!vars)
<1>1. Shelf' = Shelf /\ Held' = Held /\ Charged' = Charged
  BY BoxStays DEF BoxInv
<1>2. CASE UNCHANGED attempt
  BY <1>1, <1>2 DEF Box!vars, Shelf, Held, Charged
<1>3. CASE /\ attempt[request[r].origin] = NoAttempt
           /\ attempt' = [attempt EXCEPT ![request[r].origin] =
                            [user |-> request[r].user, status |-> "Rejected"]]
  <2>1. /\ request[r].origin \in Origins
        /\ request[r].user \in SendersOf[request[r].origin]
    BY DEF IInv, RequestsOK, RequestOK, BoxInv, Sent
  <2>2. Box!Reject(request[r].origin, request[r].user)
    BY <1>1, <1>3
       DEF Box!Reject, Shelf, Held, Charged, NoAttempt, None, Box!NoAttempt, Box!None
  <2> QED BY <2>1, <2>2 DEF Box!Next
<1> QED BY <1>2, <1>3

(* An origin stands for nothing until a write, and only for what is sent.  *)
LEMMA HeldWritten ==
  ASSUME IInv, BoxInv, NEW r \in Requests, Accepts(r), Write(r),
         NEW o, o = request[r].origin, NEW u, u = request[r].user,
         NEW c, c = request[r].content
  PROVE  /\ Held[o] = Box!Nothing
         /\ Held' = [Held EXCEPT ![o] = [user |-> u, content |-> c]]
<1> DEFINE q == request[r]
<1>1. /\ source[o] = NoSource
      /\ source' = [source EXCEPT ![o] = [user |-> u, doc |-> q.doc]]
      /\ q.plan \in {"attach", "new"} /\ q.step = "deciding"
  BY DEF Accepts, Write, Deciding, At
<1>2. o \in Origins /\ u \in Users /\ u # None
  BY <1>1, NoneIsNothing DEF IInv, RequestsOK, RequestOK
<1>3. /\ source'[o] = [user |-> u, doc |-> q.doc]
      /\ \A x \in Origins \ {o} : source'[x] = source[x]
  BY <1>1, <1>2 DEF IInv, IntakeTypeOK
<1>4. /\ document'[q.doc].content = c
      /\ \A d \in Documents : document'[d] = document[d]
  BY ShelfWritten
<1>5. HeldUnder(o) = [user |-> None, content |-> None]
  BY <1>1 DEF HeldUnder, NoSource
<1>6. HeldUnder(o)' = [user |-> u, content |-> c]
  <2>1. source'[o].user = u /\ source'[o].doc = q.doc /\ source'[o] # NoSource
    BY <1>2, <1>3 DEF NoSource
  <2> HIDE DEF q
  <2> QED BY <1>4, <2>1 DEF HeldUnder
<1>7. ASSUME NEW x \in Origins \ {o} PROVE HeldUnder(x)' = HeldUnder(x)
  <2>1. source'[x] = source[x]
    BY <1>3
  <2>2. source[x] # NoSource => document'[source[x].doc] = document[source[x].doc]
    BY <1>4 DEF IInv, SourcesLead
  <2> QED BY <2>1, <2>2 DEF HeldUnder
<1>8. Held[o] = Box!Nothing
  BY <1>2, <1>5 DEF Held, Box!Nothing, None, Box!None
<1>9. Held' = [x \in Origins |-> HeldUnder(x)']
  BY DEF Held
<1> QED BY <1>2, <1>6, <1>7, <1>8, <1>9 DEF Held

LEMMA WritesInBox ==
  ASSUME IInv, BoxInv, NEW r \in Requests, Accepts(r), Write(r)
  PROVE  Box!Next
<1> PICK o, u, c, p : /\ o = request[r].origin /\ u = request[r].user
                      /\ c = request[r].content /\ p = request[r].period
  OBVIOUS
<1>1. /\ request[r].step = "deciding" /\ request[r].plan \in {"attach", "new"}
      /\ attempt[o] = NoAttempt \/ attempt[o].user = u
      /\ attempt' = [attempt EXCEPT ![o] = [user |-> u, status |-> "Accepted"]]
  BY DEF Accepts, Write, Deciding, At
<1>2. /\ o \in Origins /\ u \in SendersOf[o] /\ c \in FilesOf[o] \ Unsafe
      /\ request[r].plan = "new" => Cardinality(ChargedIn(p)) < Limit
  BY <1>1 DEF IInv, RequestsOK, RequestOK, PlanStands, BoxInv, Sent
<1>3. c \in Contents /\ p \in 1 .. (MaxPeriod + 1)
  BY ShelfWritten
<1>4. Box!Add(c) \/ Box!Recognize(c)
  <2>1. CASE request[r].plan = "attach"
    <3>1. /\ StatusOf(c) # None
          /\ \A k : StatusOf(k)' = StatusOf(k)
          /\ \A k : ChargedIn(k)' = ChargedIn(k)
      BY <2>1, ShelfWritten
    <3>2. Shelf[c] # Box!None /\ Shelf' = Shelf /\ Charged' = Charged
      BY <1>3, <3>1 DEF Shelf, Charged, None, Box!None
    <3> QED BY <3>2 DEF Box!Recognize, Shelf, Charged
  <2>2. CASE request[r].plan = "new"
    <3>1. /\ StatusOf(c) = None /\ StatusOf(c)' = "Available"
          /\ \A k \in Contents \ {c} : StatusOf(k)' = StatusOf(k)
          /\ \A k : ChargedIn(k)' = ChargedIn(k) \cup (IF k = p THEN {r} ELSE {})
      BY <2>2, ShelfWritten
    <3>2. Shelf[c] = Box!None /\ Shelf' = [Shelf EXCEPT ![c] = "Available"]
      <4>1. Shelf' = [k \in Contents |-> StatusOf(k)']
        BY DEF Shelf
      <4> QED BY <1>3, <3>1, <4>1 DEF Shelf, None, Box!None
    <3>3. Cardinality(ChargedIn(p)') = Cardinality(ChargedIn(p)) + 1
      <4>1. r \notin ChargedIn(p) /\ IsFiniteSet(ChargedIn(p))
        <5>1. ChargedIn(p) \subseteq Requests /\ ChargedIn(p) \subseteq Documents
          BY DEF ChargedIn, Documents
        <5>2. r \notin Documents
          BY <1>1 DEF IInv, RequestsOK, RequestOK, ObjectAndDocument
        <5> QED BY <5>1, <5>2, FS_Subset, IntakeAssumption
      <4>2. ChargedIn(p)' = ChargedIn(p) \cup {r}
        BY <3>1
      <4>3. Cardinality(ChargedIn(p) \cup {r}) = Cardinality(ChargedIn(p)) + 1
        BY <4>1, FS_AddElement
      <4> QED BY <4>2, <4>3
    <3>4. /\ Charged[p] < Limit
          /\ Charged' = [Charged EXCEPT ![p] = @ + 1]
      <4>1. Charged' = [k \in 1 .. (MaxPeriod + 1) |-> Cardinality(ChargedIn(k)')]
        BY DEF Charged
      <4>2. \A k : k # p => ChargedIn(k)' = ChargedIn(k)
        BY <3>1
      <4> QED BY <1>2, <1>3, <2>2, <3>3, <4>1, <4>2 DEF Charged
    <3> QED BY <1>3, <3>2, <3>4 DEF Box!Add, Box!Periods, Box!None, Shelf, Charged
  <2> QED BY <1>1, <2>1, <2>2
<1>5. /\ Held[o] = Box!Nothing
      /\ Held' = [Held EXCEPT ![o] = [user |-> u, content |-> c]]
  BY HeldWritten
<1>6. Box!Accept(o, u, c)
  BY <1>1, <1>4, <1>5
     DEF Box!Accept, Held, NoAttempt, None, Box!NoAttempt, Box!None
<1> QED BY <1>2, <1>6 DEF Box!Next

LEMMA MovesInBox ==
  ASSUME IInv, BoxInv, NEW d \in Requests, ChangeStatus(d)
  PROVE  Box!Next
<1> PICK c : c = document[d].content
  OBVIOUS
<1>1. /\ c \in Contents
      /\ <<StatusOf(c), StatusOf(c)'>> \in Moves
      /\ \A k \in Contents \ {c} : StatusOf(k)' = StatusOf(k)
      /\ \A p : ChargedIn(p)' = ChargedIn(p)
      /\ \A e \in Requests : document'[e].content = document[e].content
  BY ShelfMoved
<1> PICK s : s = StatusOf(c)'
  OBVIOUS
<1>2. Charged' = Charged
  BY <1>1 DEF Charged
<1>3. Held' = Held
  <2>1. UNCHANGED <<source, attempt>>
    BY DEF ChangeStatus
  <2>2. \A o \in Origins : source[o] # NoSource => source[o].doc \in Requests
    BY DEF IInv, SourcesLead, Documents
  <2>3. \A o \in Origins : HeldUnder(o)' = HeldUnder(o)
    BY <1>1, <2>1, <2>2 DEF HeldUnder
  <2> QED BY <2>3 DEF Held
<1>4. Shelf' = [Shelf EXCEPT ![c] = s]
  <2>1. Shelf' = [k \in Contents |-> StatusOf(k)']
    BY DEF Shelf
  <2> QED BY <1>1, <2>1 DEF Shelf
<1>5. Shelf[c] = StatusOf(c) /\ s \in {"Available", "Archived", "Trash"}
  BY <1>1 DEF Shelf, Moves
<1>6. Box!Move(c, s)
  BY <1>1, <1>2, <1>3, <1>4, <1>5
     DEF Box!Move, Moves, Shelf, Held, Charged, ChangeStatus
<1> QED BY <1>1, <1>5, <1>6 DEF Box!Next

LEMMA NextBox == IInv /\ BoxInv /\ [Next]_vars => [Box!Next]_(Box!vars)
<1> SUFFICES ASSUME IInv, BoxInv, [Next]_vars PROVE [Box!Next]_(Box!vars)
  OBVIOUS
<1>1. CASE UNCHANGED <<document, source, attempt>>
  <2>1. Shelf' = Shelf /\ Held' = Held /\ Charged' = Charged
    BY <1>1, BoxStays DEF BoxInv
  <2> QED BY <1>1, <2>1 DEF Box!vars, Shelf, Held, Charged
<1>2. ASSUME NEW r \in Requests, RecordRejected(r) \/ CommitQuota(r)
      PROVE  [Box!Next]_(Box!vars)
  <2>1. request[r].step \in {"refused", "deciding"} /\ UNCHANGED <<document, source>>
    BY <1>2 DEF RecordRejected, CommitQuota, Deciding, At
  <2>2. \/ UNCHANGED attempt
        \/ /\ attempt[request[r].origin] = NoAttempt
           /\ attempt' = [attempt EXCEPT ![request[r].origin] =
                            [user |-> request[r].user, status |-> "Rejected"]]
    BY <1>2 DEF RecordRejected, CommitQuota
  <2> QED BY <2>1, <2>2, RejectsInBox
<1>3. ASSUME NEW r \in Requests, Commit(r) \/ CommitUnknown(r)
      PROVE  [Box!Next]_(Box!vars)
  BY <1>3, WritesInBox DEF Commit, CommitUnknown
<1>4. ASSUME NEW r \in Requests, Handler(r)
      PROVE  \/ UNCHANGED <<document, source, attempt>>
             \/ RecordRejected(r) \/ CommitQuota(r) \/ Commit(r) \/ CommitUnknown(r)
  BY <1>4
     DEF Handler, UploadDocument, HandleLINE, ImportDrive, Receive, Examine,
         RefuseFile, ExamineFails, Decide, CommitRepeat, Refuse, SourceTaken,
         AttemptTaken, CommitFails, Discard, DiscardFails, Keep, Crash
<1> QED BY <1>1, <1>2, <1>3, <1>4, MovesInBox DEF Next, NextPeriod, vars

-----------------------------------------------------------------------------
(* Requests, documents, sources and attempts keep their types, and the     *)
(* advisory lock is held by the one request that is deciding.              *)
THEOREM IntakeTypeCorrect == Spec => []IntakeTypeOK
<1>1. IInv => IntakeTypeOK
  BY DEF IInv
<1> QED BY <1>1, InitInv, NextInv, PTL DEF Spec

(* The original of every document is stored, but for a COMMIT that was     *)
(* reported as failed.                                                     *)
THEOREM OriginalsStay == Spec => []OriginalStored
<1>1. IInv => OriginalStored
  BY DEF IInv, RequestsOK, RequestOK, ObjectAndDocument, OriginalStored, Documents, Key
<1> QED BY <1>1, InitInv, NextInv, PTL DEF Spec

(* No object is left of what became no document.                           *)
THEOREM NoneLeftBehind == Spec => []NothingLeftBehind
<1>1. IInv => NothingLeftBehind
  BY DEF IInv, RequestsOK, RequestOK, ObjectAndDocument, NothingLeftBehind, At, Key
<1> QED BY <1>1, InitInv, NextInv, PTL DEF Spec

(* No period is charged for more than the plan allows.                     *)
THEOREM QuotaAlwaysHeld == Spec => []QuotaHeld
<1>1. IInv => QuotaHeld
  BY DEF IInv
<1> QED BY <1>1, InitInv, NextInv, PTL DEF Spec

(* Whoever is told that a file is there has it, and can open it unless it  *)
(* was sent to a group or is in the trash.                                 *)
THEOREM AnswersAlwaysHold == Spec => []AnswersHold
<1>1. IInv => AnswersHold
  <2> SUFFICES ASSUME IInv, NEW r \in Requests,
                      request[r].result \in {"accepted", "duplicate"}
               PROVE  LET s == source[request[r].origin] IN
                      /\ s.user = request[r].user
                      /\ s.doc \in WithContent(request[r].content)
                      /\ request[r].origin \notin Groups =>
                           \/ Opens(s.user, s.doc)
                           \/ document[s.doc].status = "Trash"
                           \/ Key(s.doc) \notin objects /\ request[s.doc].result = "unknown"
    BY DEF AnswersHold
  <2> DEFINE o == request[r].origin
             s == source[o]
  <2>1. /\ o \in Origins /\ s.user = request[r].user
        /\ s.doc \in WithContent(request[r].content)
    BY DEF IInv, RequestsOK, RequestOK, AnswerStands
  <2>2. s \in [user : Users \cup {None}, doc : Requests \cup {None}]
    BY <2>1 DEF IInv, IntakeTypeOK
  <2>3. s.doc \in Documents /\ s.doc \in Requests
    BY <2>1 DEF WithContent, Documents
  <2>4. s.doc \in objects \/ request[s.doc].result = "unknown"
    BY <2>3 DEF IInv, RequestsOK, RequestOK, ObjectAndDocument
  <2>5. document[s.doc].status \in {"Available", "Archived", "Trash"}
    BY <2>3 DEF IInv, IntakeTypeOK, Documents
  <2>6. s = [user |-> s.user, doc |-> s.doc]
    BY <2>2
  <2> HIDE DEF s
  <2>7. o \notin Groups => Sees(s.user, s.doc)
    BY <2>1, <2>6 DEF Sees, SentInPerson, s
  <2> QED BY <2>1, <2>4, <2>5, <2>7 DEF Opens, Key, s
<1> QED BY <1>1, InitInv, NextInv, PTL DEF Spec

(* Equal bytes do not open a document to who sent them to a group.         *)
THEOREM GroupFilesStayPrivate == Spec => []GroupFilesPrivate
<1>1. IInv => GroupFilesPrivate
  BY DEF IInv, CreatorSent, GroupFilesPrivate, Sees
<1> QED BY <1>1, InitInv, NextInv, PTL DEF Spec

(* The inbox agrees with the documents, whenever rejections arrive.        *)
THEOREM InboxAgrees == Spec => []AttemptsAgree
<1>1. IInv => AttemptsAgree
  BY DEF IInv
<1> QED BY <1>1, InitInv, NextInv, PTL DEF Spec
(* Whatever requests run at once, fail or die, seen from outside files     *)
(* arrive one at a time: an origin is accepted once, for one sender and    *)
(* one file, known bytes are not charged again, and what is charged had    *)
(* room in its period.                                                     *)
THEOREM ImplementsInbox == Spec => InboxKept
<1>1. Spec => [](IInv /\ BoxInv)
  BY InitInv, InitBoxInv, NextInv, NextBoxInv, PTL DEF Spec
<1> QED BY <1>1, InitBox, NextBox, PTL DEF Spec, InboxKept, Box!Spec
=============================================================================
