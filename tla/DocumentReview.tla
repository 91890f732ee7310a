---------------------------- MODULE DocumentReview ----------------------------
(***************************************************************************)
(* The review of one document: its OCR runs, the draft of the extracted    *)
(* values, the confirmed review, the approved accounting suggestion, and   *)
(* the status of the document itself.  Each row is guarded by a revision   *)
(* that a client read earlier; whether an approval may still be exported   *)
(* is computed from all of them.                                           *)
(*                                                                         *)
(* Every store operation is one transaction that locks the document's row  *)
(* first, so a transaction is one step.  What is not atomic is a request:  *)
(* the page is loaded by three reads, and a save or a confirmation checks  *)
(* the run and the draft in reads of its own before its transaction.  One  *)
(* reviewer is modelled with those steps; the other members are the most   *)
(* general clients, whose requests that would be refused are no steps.     *)
(* REVIEW_ENABLED is true.                                                 *)
(***************************************************************************)
EXTENDS Naturals, FiniteSets

CONSTANTS
  MaxRuns,        \* most OCR runs of the document
  MaxVersion,     \* the model versions ocr_settings may name
  MaxDrafts,      \* most revisions of the draft
  MaxReviews      \* most revisions of the review
                  \* (all four bound the model, not the code)

ASSUME ReviewBounds ==
  /\ MaxRuns \in Nat \ {0}
  /\ MaxVersion \in Nat \ {0}
  /\ MaxDrafts \in Nat
  /\ MaxReviews \in Nat

Runs == 1..MaxRuns
Versions == 1..MaxVersion

VARIABLES
  status,      \* documents.status
  version,     \* ocr_settings.model_version
  latest,      \* the run created last, 0 for none: runs are numbered so
  job,         \* durable_jobs.status of each run, "None" before it exists
  readBy,      \* the model version in the fingerprint of each run
  reprocess,   \* the runs whose fingerprint is one of ReprocessOCR
  superseded,  \* the runs with superseded_at
  draft,       \* document_review_drafts: run, revision and content; 0s: no row
  review,      \* the review not superseded: revision, run, draft, content
  approval,    \* the review the approved suggestion is of, 0 for none
  page,        \* what the reviewer's page shows, and how far it is loaded
  request      \* the reviewer's request that passed its checks, if any

runVars == <<latest, job, readBy, reprocess, superseded>>
reviewVars == <<draft, review, approval>>
pageVars == <<page, request>>
vars == <<status, version, runVars, reviewVars, pageVars>>

JobStates == {"None", "Queued", "Running", "Completed", "Failed", "Cancelled"}
NoDraft == [ocr |-> 0, revision |-> 0, content |-> 0]
NoReview == [revision |-> 0, ocr |-> 0, draft |-> 0, content |-> 0]
NoPage == [step |-> "none", ocr |-> 0, review |-> 0, draft |-> 0, content |-> 0]
NoRequest == [kind |-> "none", content |-> 0]

-----------------------------------------------------------------------------
(* Runs and their publication                                              *)

Pending(r) == job[r] \in {"Queued", "Running"}
Published == {r \in Runs : job[r] = "Completed"}
Reviewable == status \in {"Available", "Archived"}
Readable == status \notin {"Trash", "Purged"}

(* published_at IS NOT NULL AND superseded_at IS NULL                      *)
IsCurrent(r) == r \in Published \ superseded

(* The run the page is about: OCRState takes the one created last, and     *)
(* extractionDraft wants it completed.                                     *)
Extractable(r) == Readable /\ r = latest /\ r # 0 /\ job[r] = "Completed"

(* The runs of the plain fingerprint of version v.                         *)
ReadingsBy(v) == {r \in 1..latest : readBy[r] = v /\ r \notin reprocess}

(* Defect: only a run still waiting stops a second one.                    *)
ReadingIsWaiting == \E r \in ReadingsBy(version) :
  /\ \A s \in ReadingsBy(version) : s <= r
  /\ job[r] = "Queued"

(* The latest run of the fingerprint is on its way or done.                *)
ReadingInHand == \E r \in ReadingsBy(version) :
  /\ \A s \in ReadingsBy(version) : s <= r
  /\ job[r] \in {"Queued", "Running", "Completed"}

AddRun(isReprocess) ==
  /\ latest < MaxRuns
  /\ latest' = latest + 1
  /\ job' = [job EXCEPT ![latest + 1] = "Queued"]
  /\ readBy' = [readBy EXCEPT ![latest + 1] = version]
  /\ reprocess' = IF isReprocess THEN reprocess \cup {latest + 1} ELSE reprocess
  /\ UNCHANGED superseded

(* The document is accepted; the trigger schedules its first run if OCR is *)
(* enabled then.                                                           *)
Init ==
  /\ status = "Available"
  /\ version = 1
  /\ latest \in {0, 1}
  /\ job = [r \in Runs |-> IF r = latest THEN "Queued" ELSE "None"]
  /\ readBy = [r \in Runs |-> IF r = latest THEN 1 ELSE 0]
  /\ reprocess = {}
  /\ superseded = {}
  /\ draft = NoDraft
  /\ review = NoReview
  /\ approval = 0
  /\ page = NoPage
  /\ request = NoRequest

(* What the durable queue does to a run's job (DurableJobs).               *)
ClaimRun(r) ==
  /\ job[r] = "Queued"
  /\ job' = [job EXCEPT ![r] = "Running"]
  /\ UNCHANGED <<status, version, latest, readBy, reprocess, superseded,
                 reviewVars, pageVars>>

ReleaseRun(r) ==
  /\ job[r] = "Running"
  /\ \E next \in {"Queued", "Failed"} : job' = [job EXCEPT ![r] = next]
  /\ UNCHANGED <<status, version, latest, readBy, reprocess, superseded,
                 reviewVars, pageVars>>

(* Defect: supersedes every other run, published or not.                   *)
CompleteSupersedesAll(r) ==
  /\ Readable
  /\ job[r] = "Running"
  /\ job' = [job EXCEPT ![r] = "Completed"]
  /\ superseded' = 1..latest \ {r}
  /\ UNCHANGED <<status, version, latest, readBy, reprocess, reviewVars, pageVars>>

(* Defect: supersedes only the runs created before it.                     *)
CompleteSupersedesOlder(r) ==
  /\ Readable
  /\ job[r] = "Running"
  /\ job' = [job EXCEPT ![r] = "Completed"]
  /\ superseded' = superseded \cup {s \in Published : s < r}
  /\ UNCHANGED <<status, version, latest, readBy, reprocess, reviewVars, pageVars>>

(* CompleteOCR: the published runs are superseded and this one published,  *)
(* whichever was created later.  Refused in Trash.                         *)
CompleteOCR(r) ==
  /\ Readable
  /\ job[r] = "Running"
  /\ job' = [job EXCEPT ![r] = "Completed"]
  /\ superseded' = superseded \cup Published
  /\ UNCHANGED <<status, version, latest, readBy, reprocess, reviewVars, pageVars>>

(* The operator installs, or goes back to, a version of the OCR model.     *)
SetVersion ==
  /\ version' \in Versions \ {version}
  /\ UNCHANGED <<status, runVars, reviewVars, pageVars>>

RetryOCR ==
  /\ Readable
  /\ ~ReadingInHand
  /\ AddRun(FALSE)
  /\ UNCHANGED <<status, version, reviewVars, pageVars>>

(* Defect: the draft of the new run keeps its revision.                    *)
ReprocessKeepsRevision ==
  /\ Reviewable
  /\ \E r \in Runs : IsCurrent(r)
  /\ \A r \in Runs : ~Pending(r)
  /\ AddRun(TRUE)
  /\ draft.revision < MaxDrafts
  /\ draft' = [ocr |-> latest', revision |-> IF draft.revision = 0 THEN 1 ELSE draft.revision,
               content |-> 0]
  /\ UNCHANGED <<status, version, review, approval, pageVars>>

(* Defect: the draft of the new run counts its revisions anew.             *)
ReprocessRestartsRevisions ==
  /\ Reviewable
  /\ \E r \in Runs : IsCurrent(r)
  /\ \A r \in Runs : ~Pending(r)
  /\ AddRun(TRUE)
  /\ draft.revision < MaxDrafts
  /\ draft' = [ocr |-> latest', revision |-> 1, content |-> 0]
  /\ UNCHANGED <<status, version, review, approval, pageVars>>

(* ReprocessOCR: a new run of a fingerprint of its own, and an empty draft *)
(* of it, whose revision makes what was confirmed and approved stale.      *)
ReprocessOCR ==
  /\ Reviewable
  /\ \E r \in Runs : IsCurrent(r)
  /\ \A r \in Runs : ~Pending(r)
  /\ AddRun(TRUE)
  /\ draft.revision < MaxDrafts
  /\ draft' = [ocr |-> latest', revision |-> draft.revision + 1, content |-> 0]
  /\ UNCHANGED <<status, version, review, approval, pageVars>>

-----------------------------------------------------------------------------
(* The transactions of a review.  Content 0 is the empty object, in which  *)
(* no field is decided; every save brings content of its own, named by the *)
(* revision that first held it.                                            *)

(* Defect: the revision the client expects is not compared.                *)
SaveDraftUnchecked(ocr, expected) ==
  /\ Reviewable
  /\ IsCurrent(ocr)
  /\ draft.revision < MaxDrafts
  /\ draft' = [ocr |-> ocr, revision |-> draft.revision + 1, content |-> draft.revision + 1]
  /\ UNCHANGED <<status, version, runVars, review, approval>>

SaveDraft(ocr, expected) ==
  /\ Reviewable
  /\ IsCurrent(ocr)
  /\ draft.revision = expected
  /\ draft.revision < MaxDrafts
  /\ draft' = [ocr |-> ocr, revision |-> draft.revision + 1, content |-> draft.revision + 1]
  /\ UNCHANGED <<status, version, runVars, review, approval>>

(* Defect: records the draft's revision at the commit, not the one that    *)
(* was compared.                                                           *)
SaveReviewOfLatestDraft(ocr, draftRevision, content, expected) ==
  /\ Reviewable
  /\ IsCurrent(ocr)
  /\ draft.ocr = ocr
  /\ review.revision = expected
  /\ review.revision < MaxReviews
  /\ review' = [revision |-> review.revision + 1, ocr |-> ocr,
                draft |-> draft.revision, content |-> content]
  /\ UNCHANGED <<status, version, runVars, draft, approval>>

SaveReview(ocr, draftRevision, content, expected) ==
  /\ Reviewable
  /\ IsCurrent(ocr)
  /\ draftRevision > 0 => draft.revision = draftRevision /\ draft.ocr = ocr
  /\ review.revision = expected
  /\ review.revision < MaxReviews
  /\ review' = [revision |-> review.revision + 1, ocr |-> ocr,
                draft |-> draftRevision, content |-> content]
  /\ UNCHANGED <<status, version, runVars, draft, approval>>

(* ReturnReview: keeps the content of a draft of the same run.             *)
ReturnReview ==
  /\ Reviewable
  /\ \E ocr \in Runs :
       /\ IsCurrent(ocr)
       /\ review.revision # 0 => review.ocr = ocr
       /\ draft.revision < MaxDrafts
       /\ draft' = [ocr |-> ocr, revision |-> draft.revision + 1,
                    content |-> IF draft.ocr = ocr THEN draft.content ELSE 0]
  /\ UNCHANGED <<status, version, runVars, review, approval, pageVars>>

(* The review is of the current run and no draft is newer (currentDraftSQL).*)
ReviewIsCurrent ==
  /\ review.revision # 0
  /\ IsCurrent(review.ocr)
  /\ draft.revision <= review.draft

(* Approve: the category, vendor and rule it names are not modelled.       *)
Approve ==
  /\ Reviewable
  /\ ReviewIsCurrent
  /\ approval' = review.revision
  /\ UNCHANGED <<status, version, runVars, draft, review, pageVars>>

(* ChangeDocumentStatus, with the trigger that cancels the waiting runs.   *)
ChangeDocumentStatus ==
  /\ \/ status = "Available" /\ status' = "Archived" /\ UNCHANGED job
     \/ /\ Reviewable
        /\ status' = "Trash"
        /\ job' = [r \in Runs |-> IF job[r] = "Queued" THEN "Cancelled" ELSE job[r]]
     \/ status = "Trash" /\ status' = "Available" /\ UNCHANGED job
  /\ UNCHANGED <<version, latest, readBy, reprocess, superseded, reviewVars, pageVars>>

(* The removal of a trashed document for good; its trigger deletes the     *)
(* draft.  No code of the repository takes this step yet.                  *)
Purge ==
  /\ status = "Trash"
  /\ status' = "Purged"
  /\ draft' = NoDraft
  /\ UNCHANGED <<version, runVars, review, approval, pageVars>>

-----------------------------------------------------------------------------
(* Other members: a request whose checks and transaction see one state     *)

SaveByOther ==
  /\ Extractable(latest)
  /\ SaveDraft(latest, draft.revision)
  /\ UNCHANGED pageVars

ConfirmByOther ==
  /\ Extractable(latest)
  /\ draft.revision # 0
  /\ draft.ocr = latest
  /\ draft.content # 0
  /\ SaveReview(latest, draft.revision, draft.content, review.revision)
  /\ UNCHANGED pageVars

-----------------------------------------------------------------------------
(* The reviewer                                                            *)

storeVars == <<status, version, runVars, reviewVars>>

LoadOCR ==
  /\ page.step = "none"
  /\ Extractable(latest)
  /\ page' = [NoPage EXCEPT !.step = "ocr", !.ocr = latest]
  /\ UNCHANGED <<storeVars, request>>

LoadReview ==
  /\ page.step = "ocr"
  /\ page' = [page EXCEPT !.step = "review", !.review = review.revision]
  /\ UNCHANGED <<storeVars, request>>

(* The saved draft is shown only if it is of the run the page is about.    *)
LoadDraft ==
  /\ page.step = "review"
  /\ page' = IF draft.revision > 0 /\ draft.ocr = page.ocr
             THEN [page EXCEPT !.step = "open", !.draft = draft.revision,
                               !.content = draft.content]
             ELSE [page EXCEPT !.step = "open"]
  /\ UNCHANGED <<storeVars, request>>

CheckSave ==
  /\ page.step = "open"
  /\ request = NoRequest
  /\ Extractable(page.ocr)
  /\ request' = [kind |-> "save", content |-> 0]
  /\ UNCHANGED <<storeVars, page>>

(* confirmExtraction reads the saved draft: it must be the one the page    *)
(* showed, unchanged and with every field decided.  What it read is what   *)
(* it will store.                                                          *)
CheckConfirm ==
  /\ page.step = "open"
  /\ request = NoRequest
  /\ Extractable(page.ocr)
  /\ draft.revision # 0
  /\ draft.revision = page.draft
  /\ draft.ocr = page.ocr
  /\ draft.content # 0
  /\ draft.content = page.content
  /\ request' = [kind |-> "confirm", content |-> draft.content]
  /\ UNCHANGED <<storeVars, page>>

(* The page is loaded anew: after an answer, or because the reviewer asks. *)
Leave ==
  /\ page' = NoPage
  /\ request' = NoRequest

CommitSave ==
  /\ request.kind = "save"
  /\ SaveDraft(page.ocr, page.draft)
  /\ Leave

CommitConfirm ==
  /\ request.kind = "confirm"
  /\ SaveReview(page.ocr, page.draft, request.content, page.review)
  /\ Leave

Reload ==
  /\ page.step # "none"
  /\ Leave
  /\ UNCHANGED storeVars

Next ==
  \/ \E r \in Runs : ClaimRun(r) \/ ReleaseRun(r) \/ CompleteOCR(r)
  \/ SetVersion
  \/ RetryOCR
  \/ ReprocessOCR
  \/ SaveByOther
  \/ ConfirmByOther
  \/ ReturnReview
  \/ Approve
  \/ ChangeDocumentStatus
  \/ Purge
  \/ LoadOCR
  \/ LoadReview
  \/ LoadDraft
  \/ CheckSave
  \/ CheckConfirm
  \/ CommitSave
  \/ CommitConfirm
  \/ Reload

Spec == Init /\ [][Next]_vars

-----------------------------------------------------------------------------
(* Properties                                                              *)

(* The rows stay within their columns; only a published run is superseded, *)
(* and a draft's row has a run exactly when it exists.                     *)
ReviewTypeOK ==
  /\ status \in {"Available", "Archived", "Trash", "Purged"}
  /\ version \in Versions
  /\ latest \in 0..MaxRuns
  /\ job \in [Runs -> JobStates]
  /\ \A r \in Runs : job[r] = "None" <=> r > latest
  /\ readBy \in [Runs -> 0..MaxVersion]
  /\ reprocess \subseteq 1..latest
  /\ superseded \subseteq Published
  /\ draft \in [ocr : 0..latest, revision : 0..MaxDrafts, content : 0..MaxDrafts]
  /\ draft.revision = 0 <=> draft.ocr = 0
  /\ review \in [revision : 0..MaxReviews, ocr : 0..latest, draft : 0..MaxDrafts,
                 content : 0..MaxDrafts]
  /\ approval \in 0..review.revision
  /\ page \in [step : {"none", "ocr", "review", "open"}, ocr : 0..latest,
               review : 0..MaxReviews, draft : 0..MaxDrafts, content : 0..MaxDrafts]
  /\ request \in [kind : {"none", "save", "confirm"}, content : 0..MaxDrafts]

(* At most one run is current, in whatever order runs of two model         *)
(* versions and of ReprocessOCR are scheduled, retried and completed: the  *)
(* reads of SaveDraft, SaveReview and ReturnReview take the only row.      *)
OneCurrentRun == \A r, s \in Runs : IsCurrent(r) /\ IsCurrent(s) => r = s

(* A fingerprint has at most one run pending or completed, so that a       *)
(* finished attempt never meets the unique index document_ocr_published    *)
(* and is thrown away.                                                     *)
OneReadingPerVersion ==
  \A r, s \in 1..latest :
    /\ r \notin reprocess /\ s \notin reprocess
    /\ readBy[r] = readBy[s]
    /\ job[r] \in {"Queued", "Running", "Completed"}
    /\ job[s] \in {"Queued", "Running", "Completed"}
    => r = s

(* While no newer draft exists, the confirmed values are those of the      *)
(* draft they were confirmed from, though confirmExtraction copies them    *)
(* before the transaction that compares the revision.                      *)
ConfirmedIsSaved ==
  review.revision # 0 /\ review.draft = draft.revision
    => review.content = draft.content /\ review.ocr = draft.ocr

(* What ListApproved and the exports ask of an approval, status apart.     *)
ApprovalHolds ==
  /\ approval # 0
  /\ approval = review.revision
  /\ ReviewIsCurrent
  /\ status # "Purged"

(* An approval that newer work has made stale is never revived: not by a   *)
(* draft's revision coming round again, nor by a run or a review that      *)
(* becomes current a second time.                                          *)
StaleStaysStale ==
  [][approval' = approval /\ ~ApprovalHolds => ~ApprovalHolds']_vars

(* From the request to reprocess a document until the new reading arrives  *)
(* no approval of an older reading counts, even one saved, confirmed and   *)
(* approved meanwhile; a run scheduled later for another model version may *)
(* overtake the pending one and be approved.                               *)
NothingWhileReprocessing ==
  ApprovalHolds => \A r \in reprocess : Pending(r) => r < review.ocr

(* The reviewer's save replaces only content that her page had shown.      *)
EditsNotLost ==
  [][CommitSave => draft.content = page.content]_vars

-----------------------------------------------------------------------------
(* What the repository says and the code does not do                       *)

(* A page loaded now, of a completed and current run, carries the draft    *)
(* revision that SaveDraft, SaveReview, ReturnReview and ReprocessOCR will *)
(* compare: "Review changed; reload before saving" is advice that works.   *)
FreshPageIsAccepted ==
  Reviewable /\ Extractable(latest) /\ IsCurrent(latest)
    => draft.revision = 0 \/ draft.ocr = latest
=============================================================================
