------------------------- MODULE DocumentReviewProofs -------------------------
(***************************************************************************)
(* What DocumentReview states, for any number of runs, model versions and  *)
(* revisions.  The type invariant and OneCurrentRun are nearly inductive   *)
(* as they stand; the others need to know what the rows, the page and the  *)
(* request remember of one another, which the four invariants below say.   *)
(***************************************************************************)
EXTENDS DocumentReview, TLAPS

(* Of the readings of one fingerprint only the last may be alive: RetryOCR *)
(* looks at no other.                                                      *)
EarlierEnded ==
  \A r, s \in 1..latest :
    r < s /\ r \notin reprocess /\ s \notin reprocess /\ readBy[r] = readBy[s]
      => job[r] \in {"Failed", "Cancelled"}

(* The revision of the draft is the largest that anyone has seen, until    *)
(* the document is purged, after which nothing writes a draft again.       *)
RevisionsGrow ==
  /\ status # "Purged" => page.draft <= draft.revision /\ review.draft <= draft.revision
  /\ status = "Purged" => draft = NoDraft
  /\ draft.revision = 0 => draft.content = 0

(* The page shows the content of the revision it names, and a request      *)
(* to confirm carries what the page shows.                                 *)
PageFaithful ==
  /\ page.step # "open" => page.draft = 0 /\ request.kind = "none"
  /\ page.draft = 0 => page.content = 0
  /\ page.step = "open" /\ page.draft = draft.revision => page.content = draft.content
  /\ request.kind = "confirm" => page.draft # 0 /\ request.content = page.content

(* A review is of a run that was published and of a draft that existed.    *)
ReviewFaithful ==
  /\ review.revision # 0 => review.ocr \in Published /\ review.draft # 0
  /\ ConfirmedIsSaved

(* While a reprocessing is on its way, a request in flight and the review  *)
(* are of a later run or of an older draft.                                *)
Overtaken ==
  status # "Purged" =>
    \A r \in reprocess : Pending(r) =>
      /\ request.kind # "none" => r < page.ocr \/ page.draft < draft.revision
      /\ review.revision # 0 => r < review.ocr \/ review.draft < draft.revision

RunInv == OneCurrentRun /\ EarlierEnded
RevisionInv == RevisionsGrow /\ PageFaithful /\ ReviewFaithful /\ Overtaken
IInv == ReviewTypeOK /\ RunInv /\ RevisionInv

-----------------------------------------------------------------------------
LEMMA InitInvariant == Init => IInv
  <1> SUFFICES ASSUME Init PROVE IInv
    OBVIOUS
  <1>1. ReviewTypeOK
    BY ReviewBounds DEF Init, ReviewTypeOK, Runs, Versions, JobStates, Published,
       NoDraft, NoReview, NoPage, NoRequest
  <1>2. RunInv
    BY DEF Init, RunInv, OneCurrentRun, EarlierEnded, IsCurrent, Published, Runs
  <1>3. RevisionInv
    BY DEF Init, RevisionInv, RevisionsGrow, PageFaithful, ReviewFaithful, Overtaken,
       ConfirmedIsSaved, NoDraft, NoReview, NoPage, NoRequest
  <1> QED
    BY <1>1, <1>2, <1>3 DEF IInv

(* The runs that exist are among the rows the model has.                   *)
LEMMA RunsExist ==
  ASSUME ReviewTypeOK
  PROVE  /\ latest \in Nat
         /\ 1..latest \subseteq Runs
         /\ reprocess \subseteq Runs
  BY ReviewBounds DEF ReviewTypeOK, Runs

(* A step of a job that creates no run, publishes none and revives none.   *)
JobsOnly ==
  /\ job' \in [Runs -> JobStates]
  /\ \A r \in Runs :
       /\ job'[r] = "None" <=> job[r] = "None"
       /\ job'[r] = "Completed" <=> job[r] = "Completed"
       /\ job[r] \in {"Failed", "Cancelled"} => job'[r] \in {"Failed", "Cancelled"}
  /\ UNCHANGED <<latest, readBy, reprocess, superseded>>

LEMMA JobsOnlyRuns ==
  ASSUME IInv, JobsOnly
  PROVE  RunInv'
  <1>1. Published' = Published
    BY DEF JobsOnly, Published
  <1>2. OneCurrentRun'
    BY <1>1 DEF IInv, RunInv, JobsOnly, OneCurrentRun, IsCurrent
  <1>3. EarlierEnded'
    BY RunsExist DEF IInv, RunInv, JobsOnly, EarlierEnded
  <1> QED
    BY <1>2, <1>3 DEF RunInv

LEMMA JobsOnlyRevisions ==
  ASSUME IInv, JobsOnly, UNCHANGED <<reviewVars, pageVars>>,
         status' = "Purged" <=> status = "Purged"
  PROVE  RevisionInv'
  <1>1. Published' = Published
    BY DEF JobsOnly, Published
  <1>2. ASSUME NEW r \in reprocess, Pending(r)' PROVE Pending(r)
    <2>1. r \in Runs /\ job[r] \in JobStates /\ job'[r] \in {"Queued", "Running"}
      BY <1>2, RunsExist DEF IInv, ReviewTypeOK, Pending
    <2> QED
      BY <2>1 DEF JobsOnly, JobStates, Pending
  <1>3. reprocess' = reprocess
    BY DEF JobsOnly
  <1>4. RevisionsGrow' /\ PageFaithful'
    BY DEF IInv, RevisionInv, RevisionsGrow, PageFaithful, reviewVars, pageVars
  <1>5. ReviewFaithful'
    BY <1>1 DEF IInv, RevisionInv, ReviewFaithful, ConfirmedIsSaved, reviewVars
  <1>6. Overtaken'
    BY <1>2, <1>3 DEF IInv, RevisionInv, Overtaken, reviewVars, pageVars
  <1> QED
    BY <1>4, <1>5, <1>6 DEF RevisionInv

LEMMA ClaimInvariant ==
  ASSUME IInv, NEW r \in Runs, ClaimRun(r)
  PROVE  IInv'
  <1>1. JobsOnly /\ UNCHANGED <<status, version, reviewVars, pageVars>>
    BY DEF ClaimRun, JobsOnly, IInv, ReviewTypeOK, JobStates
  <1>2. ReviewTypeOK'
    BY <1>1 DEF JobsOnly, IInv, ReviewTypeOK, Published, reviewVars, pageVars, Runs
  <1> QED
    BY <1>1, <1>2, JobsOnlyRuns, JobsOnlyRevisions DEF IInv

LEMMA ReleaseInvariant ==
  ASSUME IInv, NEW r \in Runs, ReleaseRun(r)
  PROVE  IInv'
  <1>1. JobsOnly /\ UNCHANGED <<status, version, reviewVars, pageVars>>
    BY DEF ReleaseRun, JobsOnly, IInv, ReviewTypeOK, JobStates
  <1>2. ReviewTypeOK'
    BY <1>1 DEF JobsOnly, IInv, ReviewTypeOK, Published, reviewVars, pageVars, Runs
  <1> QED
    BY <1>1, <1>2, JobsOnlyRuns, JobsOnlyRevisions DEF IInv

LEMMA StatusInvariant ==
  ASSUME IInv, ChangeDocumentStatus
  PROVE  IInv'
  <1>1. JobsOnly /\ UNCHANGED <<version, reviewVars, pageVars>>
    BY DEF ChangeDocumentStatus, JobsOnly, IInv, ReviewTypeOK, JobStates
  <1>2. /\ status' \in {"Available", "Archived", "Trash"}
        /\ status # "Purged"
    BY DEF ChangeDocumentStatus, Reviewable
  <1>3. ReviewTypeOK'
    BY <1>1, <1>2 DEF JobsOnly, IInv, ReviewTypeOK, Published, reviewVars, pageVars, Runs
  <1> QED
    BY <1>1, <1>2, <1>3, JobsOnlyRuns, JobsOnlyRevisions DEF IInv

(* Publishing a run supersedes whichever was current, and a run that was   *)
(* published before stays published.                                       *)
LEMMA CompleteInvariant ==
  ASSUME IInv, NEW r \in Runs, CompleteOCR(r)
  PROVE  IInv'
  <1>1. /\ job[r] = "Running"
        /\ job \in [Runs -> JobStates]
        /\ job' = [job EXCEPT ![r] = "Completed"]
        /\ UNCHANGED <<status, version, latest, readBy, reprocess, reviewVars, pageVars>>
    BY DEF CompleteOCR, IInv, ReviewTypeOK
  <1>2. Published' = Published \cup {r} /\ r \notin Published
    BY <1>1 DEF Published
  <1>3. superseded' = superseded \cup Published
    BY DEF CompleteOCR
  <1>4. ReviewTypeOK'
    BY <1>1, <1>2, <1>3 DEF IInv, ReviewTypeOK, JobStates, reviewVars, pageVars
  <1>5. OneCurrentRun'
    BY <1>2, <1>3 DEF OneCurrentRun, IsCurrent
  <1>6. EarlierEnded'
    BY <1>1, RunsExist DEF IInv, RunInv, EarlierEnded
  <1>7. RevisionsGrow' /\ PageFaithful'
    BY <1>1 DEF IInv, RevisionInv, RevisionsGrow, PageFaithful, reviewVars, pageVars
  <1>8. ReviewFaithful'
    BY <1>1, <1>2 DEF IInv, RevisionInv, ReviewFaithful, ConfirmedIsSaved, reviewVars
  <1>9. Overtaken'
    <2>1. ASSUME NEW s \in reprocess, Pending(s)' PROVE Pending(s)
      BY <1>1, <2>1, RunsExist DEF IInv, Pending
    <2> QED
      BY <1>1, <2>1 DEF IInv, RevisionInv, Overtaken, reviewVars, pageVars
  <1> QED
    BY <1>4, <1>5, <1>6, <1>7, <1>8, <1>9 DEF IInv, RunInv, RevisionInv

-----------------------------------------------------------------------------
(* A new run is the last of its fingerprint, and no row changes with it.   *)
LEMMA AddRunFacts ==
  ASSUME IInv, NEW isReprocess \in BOOLEAN, AddRun(isReprocess)
  PROVE  /\ latest' = latest + 1
         /\ latest' \in Runs
         /\ latest' \in 0..MaxRuns /\ latest' # 0
         /\ 0..latest \subseteq 0..latest'
         /\ \A r \in reprocess : job'[r] = job[r]
         /\ job \in [Runs -> JobStates] /\ readBy \in [Runs -> 0..MaxVersion]
         /\ job[latest'] = "None"
         /\ job' \in [Runs -> JobStates]
         /\ \A r \in Runs : job'[r] = IF r = latest + 1 THEN "Queued" ELSE job[r]
         /\ \A r \in Runs : job'[r] = "None" <=> r > latest'
         /\ readBy' = [readBy EXCEPT ![latest + 1] = version]
         /\ readBy' \in [Runs -> 0..MaxVersion]
         /\ reprocess' = IF isReprocess THEN reprocess \cup {latest + 1} ELSE reprocess
         /\ reprocess' \subseteq 1..latest'
         /\ superseded' = superseded
         /\ Published' = Published
  <1>1. /\ latest \in Nat /\ latest < MaxRuns /\ MaxRuns \in Nat
        /\ reprocess \subseteq 1..latest
        /\ job \in [Runs -> JobStates] /\ readBy \in [Runs -> 0..MaxVersion]
        /\ \A r \in Runs : job[r] = "None" <=> r > latest
        /\ version \in 0..MaxVersion
    BY RunsExist, ReviewBounds DEF IInv, ReviewTypeOK, AddRun, Versions
  <1>2. latest + 1 \in Runs
    BY <1>1 DEF Runs
  <1>3. job[latest + 1] = "None"
    BY <1>1, <1>2
  <1>4. /\ latest' = latest + 1
        /\ job' = [job EXCEPT ![latest + 1] = "Queued"]
        /\ readBy' = [readBy EXCEPT ![latest + 1] = version]
        /\ reprocess' = IF isReprocess THEN reprocess \cup {latest + 1} ELSE reprocess
        /\ superseded' = superseded
    BY DEF AddRun
  <1>5. \A r \in Runs : job'[r] = IF r = latest + 1 THEN "Queued" ELSE job[r]
    BY <1>1, <1>4
  <1>6. \A r \in Runs : job'[r] = "None" <=> r > latest'
    BY <1>1, <1>4, <1>5 DEF Runs
  <1>7. Published' = Published
    BY <1>2, <1>3, <1>5 DEF Published
  <1>8. job' \in [Runs -> JobStates] /\ readBy' \in [Runs -> 0..MaxVersion]
    BY <1>1, <1>2, <1>4 DEF JobStates
  <1>9. reprocess' \subseteq 1..latest'
    BY <1>1, <1>4
  <1>10. latest' \in 0..MaxRuns /\ latest' # 0 /\ 0..latest \subseteq 0..latest'
    BY <1>1, <1>4
  <1>11. \A r \in reprocess : job'[r] = job[r]
    BY <1>1, <1>4
  <1> QED
    BY <1>1, <1>2, <1>3, <1>4, <1>5, <1>6, <1>7, <1>8, <1>9, <1>10, <1>11

(* A run may be added when it is a reprocessing, or when no reading of its *)
(* fingerprint is in hand.                                                 *)
LEMMA AddRunRuns ==
  ASSUME IInv, NEW isReprocess \in BOOLEAN, AddRun(isReprocess),
         isReprocess \/ ~ReadingInHand
  PROVE  RunInv'
  <1>1. OneCurrentRun'
    BY AddRunFacts DEF IInv, RunInv, OneCurrentRun, IsCurrent
  <1>2. EarlierEnded'
    <2> SUFFICES ASSUME NEW r \in 1..latest', NEW s \in 1..latest', r < s,
                        r \notin reprocess', s \notin reprocess', readBy'[r] = readBy'[s]
                 PROVE  job'[r] \in {"Failed", "Cancelled"}
      BY DEF EarlierEnded
    <2>1. r \in 1..latest /\ r \in Runs /\ s \in Runs /\ r # latest + 1 /\ r \notin reprocess
      BY AddRunFacts, RunsExist DEF IInv, Runs
    <2>2. job'[r] = job[r] /\ readBy'[r] = readBy[r]
      BY <2>1, AddRunFacts
    <2>3. CASE s = latest + 1
      <3>1. readBy[r] = version /\ r \in ReadingsBy(version)
        BY <2>1, <2>2, <2>3, AddRunFacts DEF ReadingsBy
      <3>2. ~ReadingInHand
        BY <2>3, AddRunFacts
      <3>3. CASE \A t \in ReadingsBy(version) : t <= r
        <4>1. job[r] \notin {"Queued", "Running", "Completed"}
          BY <3>1, <3>2, <3>3 DEF ReadingInHand
        <4>2. job[r] \in JobStates /\ job[r] # "None"
          BY <2>1, RunsExist DEF IInv, ReviewTypeOK
        <4> QED
          BY <2>2, <4>1, <4>2 DEF JobStates
      <3>4. CASE ~\A t \in ReadingsBy(version) : t <= r
        <4>0. PICK t \in ReadingsBy(version) : ~(t <= r)
          BY <3>4
        <4>1. t \in 1..latest /\ r < t /\ readBy[t] = version /\ t \notin reprocess
          BY <4>0, <2>1, RunsExist DEF ReadingsBy, IInv
        <4> QED
          BY <2>1, <2>2, <3>1, <4>1 DEF IInv, RunInv, EarlierEnded
      <3> QED
        BY <3>3, <3>4
    <2>4. CASE s # latest + 1
      <3>1. s \in 1..latest /\ s \notin reprocess /\ readBy'[s] = readBy[s]
        BY <2>1, <2>4, AddRunFacts, RunsExist DEF IInv
      <3> QED
        BY <2>1, <2>2, <3>1 DEF IInv, RunInv, EarlierEnded
    <2> QED
      BY <2>3, <2>4
  <1> QED
    BY <1>1, <1>2 DEF RunInv

LEMMA RetryInvariant ==
  ASSUME IInv, RetryOCR
  PROVE  IInv'
  <1>1. AddRun(FALSE) /\ ~ReadingInHand /\ UNCHANGED <<status, version, reviewVars, pageVars>>
    BY DEF RetryOCR
  <1>2. RunInv'
    BY <1>1, AddRunRuns
  <1>3. ReviewTypeOK'
    BY <1>1, AddRunFacts DEF IInv, ReviewTypeOK, reviewVars, pageVars
  <1>4. RevisionsGrow' /\ PageFaithful'
    BY <1>1 DEF IInv, RevisionInv, RevisionsGrow, PageFaithful, reviewVars, pageVars
  <1>5. ReviewFaithful'
    BY <1>1, AddRunFacts DEF IInv, RevisionInv, ReviewFaithful, ConfirmedIsSaved, reviewVars
  <1>6. Overtaken'
    <2>1. ASSUME NEW r \in reprocess, Pending(r)' PROVE Pending(r)
      BY <1>1, <2>1, AddRunFacts DEF Pending
    <2>2. reprocess' = reprocess
      BY <1>1, AddRunFacts
    <2> QED
      BY <1>1, <2>1, <2>2 DEF IInv, RevisionInv, Overtaken, reviewVars, pageVars
  <1> QED
    BY <1>2, <1>3, <1>4, <1>5, <1>6 DEF IInv, RevisionInv

(* The empty draft of the new run is newer than what any page, request or  *)
(* review has seen.                                                        *)
LEMMA ReprocessInvariant ==
  ASSUME IInv, ReprocessOCR
  PROVE  IInv'
  <1>1. /\ AddRun(TRUE)
        /\ status \in {"Available", "Archived"}
        /\ draft.revision < MaxDrafts
        /\ draft' = [ocr |-> latest', revision |-> draft.revision + 1, content |-> 0]
        /\ UNCHANGED <<status, version, review, approval, pageVars>>
    BY DEF ReprocessOCR, Reviewable
  <1>2. RunInv'
    BY <1>1, AddRunRuns
  <1>3. ReviewTypeOK'
    <2>1. /\ draft' \in [ocr : 0..latest', revision : 0..MaxDrafts, content : 0..MaxDrafts]
          /\ draft'.revision # 0 /\ draft'.ocr # 0
      <3>1. draft.revision \in Nat /\ MaxDrafts \in Nat /\ MaxRuns \in Nat
        BY ReviewBounds DEF IInv, ReviewTypeOK
      <3>2. draft.revision + 1 \in 0..MaxDrafts /\ draft.revision + 1 # 0 /\ 0 \in 0..MaxDrafts
        BY <1>1, <3>1
      <3>3. latest' \in 0..latest' /\ latest' # 0
        BY <1>1, RunsExist DEF IInv, AddRun
      <3> QED
        BY <1>1, <3>2, <3>3
    <2> QED
      BY <1>1, <2>1, AddRunFacts DEF IInv, ReviewTypeOK, pageVars
  <1>4. /\ draft.revision \in Nat /\ page.draft \in Nat /\ review.draft \in Nat
        /\ page.draft <= draft.revision /\ review.draft <= draft.revision
    BY <1>1 DEF IInv, ReviewTypeOK, RevisionInv, RevisionsGrow
  <1>5. RevisionsGrow'
    BY <1>1, <1>4 DEF RevisionsGrow, pageVars
  <1>8. PageFaithful'
    <2>1. page' = page /\ request' = request /\ draft'.revision # page.draft
      BY <1>1, <1>4 DEF pageVars
    <2> QED
      BY <2>1 DEF IInv, RevisionInv, PageFaithful
  <1>6. ReviewFaithful'
    <2>1. Published' = Published
      BY <1>1, AddRunFacts
    <2>2. review' = review /\ draft'.revision # review.draft
      BY <1>1, <1>4
    <2> QED
      BY <2>1, <2>2 DEF IInv, RevisionInv, ReviewFaithful, ConfirmedIsSaved
  <1>7. Overtaken'
    BY <1>1, <1>4 DEF Overtaken, pageVars
  <1> QED
    BY <1>2, <1>3, <1>5, <1>6, <1>7, <1>8 DEF IInv, RevisionInv

-----------------------------------------------------------------------------
(* The part of ReviewTypeOK about the reviewer.                            *)
PageShape ==
  /\ page \in [step : {"none", "ocr", "review", "open"}, ocr : 0..latest,
               review : 0..MaxReviews, draft : 0..MaxDrafts, content : 0..MaxDrafts]
  /\ request \in [kind : {"none", "save", "confirm"}, content : 0..MaxDrafts]

(* Beside its row, a transaction leaves the page alone or clears it.       *)
LEMMA PageOrLeave ==
  ASSUME IInv, latest' = latest, UNCHANGED pageVars \/ Leave, page.draft <= draft.revision
  PROVE  /\ PageShape'
         /\ page'.draft <= draft.revision /\ page'.draft \in Nat
         /\ (request' = request /\ page' = page) \/ (request' = NoRequest /\ page' = NoPage)
  <1>1. CASE UNCHANGED pageVars
    <2>1. page' = page /\ request' = request
      BY <1>1 DEF pageVars
    <2>2. page.draft \in Nat
      BY ReviewBounds DEF IInv, ReviewTypeOK
    <2>3. PageShape /\ latest' = latest
      BY DEF IInv, ReviewTypeOK, PageShape
    <2>4. PageShape'
      BY <2>1, <2>3 DEF PageShape
    <2> QED
      BY <2>1, <2>2, <2>4
  <1>2. CASE Leave
    <2>1. /\ 0 \in 0..latest /\ 0 \in 0..MaxReviews /\ 0 \in 0..MaxDrafts
          /\ 0 <= draft.revision
      BY RunsExist, ReviewBounds DEF IInv, ReviewTypeOK
    <2> QED
      BY <1>2, <2>1 DEF Leave, NoPage, NoRequest, PageShape
  <1> QED
    BY <1>1, <1>2

(* A save or a return: a draft of the next revision, and of content that   *)
(* no page, request or review has seen at that revision.                   *)
LEMMA NewDraft ==
  ASSUME IInv, NEW ocr \in Runs, IsCurrent(ocr), Reviewable,
         NEW content \in 0..MaxDrafts, draft.revision < MaxDrafts,
         draft' = [ocr |-> ocr, revision |-> draft.revision + 1, content |-> content],
         UNCHANGED <<status, version, runVars, review, approval>>,
         UNCHANGED pageVars \/ Leave
  PROVE  IInv'
  <1>1. /\ draft.revision \in Nat /\ page.draft \in Nat /\ review.draft \in Nat
        /\ page.draft <= draft.revision /\ review.draft <= draft.revision
        /\ MaxDrafts \in Nat /\ status # "Purged"
    BY ReviewBounds DEF IInv, ReviewTypeOK, RevisionInv, RevisionsGrow, Reviewable
  <1>2. ocr \in 0..latest /\ ocr # 0
    BY RunsExist, ReviewBounds DEF IInv, ReviewTypeOK, IsCurrent, Published, Runs
  <1>3. /\ draft' \in [ocr : 0..latest, revision : 0..MaxDrafts, content : 0..MaxDrafts]
        /\ draft'.ocr # 0 /\ draft'.revision = draft.revision + 1
    BY <1>1, <1>2
  <1>4. /\ PageShape'
        /\ page'.draft <= draft.revision /\ page'.draft \in Nat
        /\ (request' = request /\ page' = page) \/ (request' = NoRequest /\ page' = NoPage)
    BY <1>1, PageOrLeave DEF runVars
  <1>5. ReviewTypeOK'
    BY <1>1, <1>3, <1>4 DEF IInv, ReviewTypeOK, PageShape, runVars, Published
  <1>6. RunInv'
    BY DEF IInv, RunInv, OneCurrentRun, EarlierEnded, IsCurrent, Published, runVars
  <1>7. RevisionsGrow'
    BY <1>1, <1>3, <1>4 DEF RevisionsGrow
  <1>8. PageFaithful'
    <2>1. draft'.revision # page'.draft
      BY <1>1, <1>3, <1>4
    <2>2. CASE request' = request /\ page' = page
      BY <2>1, <2>2 DEF IInv, RevisionInv, PageFaithful
    <2>3. CASE request' = NoRequest /\ page' = NoPage
      BY <2>3 DEF PageFaithful, NoRequest, NoPage
    <2> QED
      BY <1>4, <2>2, <2>3
  <1>9. ReviewFaithful'
    <2>1. review' = review /\ Published' = Published /\ draft'.revision # review.draft
      BY <1>1, <1>3 DEF runVars, Published
    <2> QED
      BY <2>1 DEF IInv, RevisionInv, ReviewFaithful, ConfirmedIsSaved
  <1>10. Overtaken'
    <2>1. page'.draft < draft'.revision /\ review.draft < draft'.revision /\ review' = review
      BY <1>1, <1>3, <1>4
    <2> QED
      BY <2>1 DEF Overtaken
  <1> QED
    BY <1>5, <1>6, <1>7, <1>8, <1>9, <1>10 DEF IInv, RevisionInv

LEMMA ReturnInvariant ==
  ASSUME IInv, ReturnReview
  PROVE  IInv'
  <1>1. PICK ocr \in Runs :
          /\ IsCurrent(ocr)
          /\ draft.revision < MaxDrafts
          /\ draft' = [ocr |-> ocr, revision |-> draft.revision + 1,
                       content |-> IF draft.ocr = ocr THEN draft.content ELSE 0]
    BY DEF ReturnReview
  <1>2. (IF draft.ocr = ocr THEN draft.content ELSE 0) \in 0..MaxDrafts
    BY ReviewBounds DEF IInv, ReviewTypeOK
  <1>3. Reviewable /\ UNCHANGED <<status, version, runVars, review, approval, pageVars>>
    BY DEF ReturnReview
  <1> QED
    BY <1>1, <1>2, <1>3, NewDraft

LEMMA SaveInvariant ==
  ASSUME IInv, NEW ocr \in Nat, NEW expected \in Nat, SaveDraft(ocr, expected),
         UNCHANGED pageVars \/ Leave
  PROVE  IInv'
  <1>1. draft.revision + 1 \in 0..MaxDrafts
    BY ReviewBounds DEF SaveDraft, IInv, ReviewTypeOK
  <1>2. ocr \in Runs
    BY DEF SaveDraft, IsCurrent, Published
  <1>3. /\ Reviewable /\ IsCurrent(ocr) /\ draft.revision < MaxDrafts
        /\ draft' = [ocr |-> ocr, revision |-> draft.revision + 1,
                     content |-> draft.revision + 1]
        /\ UNCHANGED <<status, version, runVars, review, approval>>
    BY DEF SaveDraft
  <1> QED
    BY <1>1, <1>2, <1>3, NewDraft

-----------------------------------------------------------------------------
(* A confirmation, the reviewer's or another member's: of a draft that is  *)
(* the latest, with its content, and of a run later than the reprocessing  *)
(* that is on its way, if any.                                             *)
LEMMA ReviewInvariant ==
  ASSUME IInv, NEW ocr \in Nat, NEW draftRevision \in Nat, NEW content \in 0..MaxDrafts,
         NEW expected \in Nat, SaveReview(ocr, draftRevision, content, expected),
         draftRevision # 0,
         draft.revision = draftRevision => content = draft.content,
         \A r \in reprocess : Pending(r) => r < ocr \/ draftRevision < draft.revision,
         UNCHANGED pageVars \/ Leave
  PROVE  IInv'
  <1>1. /\ Reviewable /\ IsCurrent(ocr)
        /\ draft.revision = draftRevision /\ draft.ocr = ocr
        /\ review.revision < MaxReviews
        /\ review' = [revision |-> review.revision + 1, ocr |-> ocr,
                      draft |-> draftRevision, content |-> content]
        /\ UNCHANGED <<status, version, runVars, draft, approval>>
    BY DEF SaveReview
  <1>2. /\ draft.revision \in 0..MaxDrafts /\ review.revision \in Nat
        /\ MaxReviews \in Nat /\ MaxDrafts \in Nat /\ status # "Purged"
        /\ page.draft <= draft.revision /\ page.draft \in Nat
    BY <1>1, ReviewBounds DEF IInv, ReviewTypeOK, RevisionInv, RevisionsGrow, Reviewable
  <1>3. ocr \in 0..latest /\ ocr \in Published
    BY <1>1, RunsExist, ReviewBounds DEF IInv, ReviewTypeOK, IsCurrent, Published, Runs
  <1>4. /\ PageShape'
        /\ page'.draft <= draft.revision /\ page'.draft \in Nat
        /\ (request' = request /\ page' = page) \/ (request' = NoRequest /\ page' = NoPage)
    BY <1>1, <1>2, PageOrLeave DEF runVars
  <1>5. ReviewTypeOK'
    <2>1. /\ review' \in [revision : 0..MaxReviews, ocr : 0..latest, draft : 0..MaxDrafts,
                          content : 0..MaxDrafts]
          /\ review'.revision = review.revision + 1
      BY <1>1, <1>2, <1>3
    <2>2. approval \in 0..review'.revision
      BY <1>2, <2>1 DEF IInv, ReviewTypeOK
    <2> QED
      BY <1>1, <1>4, <2>1, <2>2 DEF IInv, ReviewTypeOK, PageShape, runVars, Published
  <1>6. RunInv'
    BY <1>1 DEF IInv, RunInv, OneCurrentRun, EarlierEnded, IsCurrent, Published, runVars
  <1>7. RevisionsGrow'
    BY <1>1, <1>2, <1>4 DEF IInv, RevisionInv, RevisionsGrow
  <1>8. PageFaithful'
    <2>1. CASE request' = request /\ page' = page
      BY <1>1, <2>1 DEF IInv, RevisionInv, PageFaithful
    <2>2. CASE request' = NoRequest /\ page' = NoPage
      BY <2>2 DEF PageFaithful, NoRequest, NoPage
    <2> QED
      BY <1>4, <2>1, <2>2
  <1>9. ReviewFaithful'
    <2>1. Published' = Published
      BY <1>1 DEF runVars, Published
    <2> QED
      BY <1>1, <1>3, <2>1 DEF ReviewFaithful, ConfirmedIsSaved
  <1>10. Overtaken'
    <2> SUFFICES ASSUME NEW r \in reprocess, Pending(r)
                 PROVE  /\ request'.kind # "none"
                              => r < page'.ocr \/ page'.draft < draft.revision
                        /\ r < review'.ocr
      BY <1>1 DEF Overtaken, Pending, runVars
    <2>1. r < ocr
      BY <1>1, <1>2
    <2>2. request'.kind # "none" => request' = request /\ page' = page
      BY <1>4 DEF NoRequest
    <2> QED
      BY <1>1, <1>2, <2>1, <2>2 DEF IInv, RevisionInv, Overtaken
  <1> QED
    BY <1>5, <1>6, <1>7, <1>8, <1>9, <1>10 DEF IInv, RevisionInv

(* A run that can be extracted is the last, so that a reprocessing that is *)
(* still on its way was scheduled before it.                               *)
LEMMA ExtractableOvertakes ==
  ASSUME IInv, NEW ocr, Extractable(ocr)
  PROVE  /\ ocr = latest /\ ocr \in Nat
         /\ \A r \in reprocess : Pending(r) => r < ocr
  <1>1. ocr = latest /\ job[ocr] = "Completed" /\ latest \in Nat
    BY RunsExist DEF Extractable, IInv
  <1>2. \A r \in reprocess : r \in 1..latest
    BY DEF IInv, ReviewTypeOK
  <1> QED
    BY <1>1, <1>2 DEF Pending

LEMMA CommitInvariant ==
  ASSUME IInv, CommitSave \/ CommitConfirm \/ SaveByOther \/ ConfirmByOther
  PROVE  IInv'
  <1>0. /\ page.ocr \in Nat /\ page.draft \in Nat /\ page.review \in Nat
        /\ draft.revision \in Nat /\ review.revision \in Nat /\ latest \in Nat
        /\ draft.content \in 0..MaxDrafts /\ request.content \in 0..MaxDrafts
    BY RunsExist, ReviewBounds DEF IInv, ReviewTypeOK
  <1>1. CASE CommitSave
    BY <1>0, <1>1, SaveInvariant DEF CommitSave
  <1>2. CASE SaveByOther
    BY <1>0, <1>2, SaveInvariant DEF SaveByOther
  <1>3. CASE ConfirmByOther
    <2>1. \A r \in reprocess : Pending(r) => r < latest
      BY <1>3, ExtractableOvertakes DEF ConfirmByOther
    <2> QED
      BY <1>0, <1>3, <2>1, ReviewInvariant DEF ConfirmByOther
  <1>4. CASE CommitConfirm
    <2>1. /\ request.kind = "confirm" /\ Reviewable /\ Leave
          /\ SaveReview(page.ocr, page.draft, request.content, page.review)
      BY <1>4 DEF CommitConfirm, SaveReview
    <2>2. /\ page.draft # 0 /\ page.step = "open"
          /\ page.draft = draft.revision => request.content = draft.content
      BY <2>1 DEF IInv, RevisionInv, PageFaithful
    <2>3. \A r \in reprocess : Pending(r) => r < page.ocr \/ page.draft < draft.revision
      BY <2>1 DEF IInv, RevisionInv, Overtaken, Reviewable
    <2> QED
      BY <1>0, <2>1, <2>2, <2>3, ReviewInvariant
  <1> QED
    BY <1>1, <1>2, <1>3, <1>4

-----------------------------------------------------------------------------
LEMMA VersionInvariant ==
  ASSUME IInv, SetVersion
  PROVE  IInv'
  <1>1. version' \in Versions /\ UNCHANGED <<status, runVars, reviewVars, pageVars>>
    BY DEF SetVersion
  <1> QED
    BY <1>1 DEF IInv, ReviewTypeOK, RunInv, OneCurrentRun, EarlierEnded, IsCurrent,
       Published, RevisionInv, RevisionsGrow, PageFaithful, ReviewFaithful, ConfirmedIsSaved,
       Overtaken, Pending, runVars, reviewVars, pageVars

LEMMA ApproveInvariant ==
  ASSUME IInv, Approve
  PROVE  IInv'
  <1>1. /\ approval' = review.revision
        /\ UNCHANGED <<status, version, runVars, draft, review, pageVars>>
    BY DEF Approve
  <1>2. review.revision \in 0..review.revision
    BY ReviewBounds DEF IInv, ReviewTypeOK
  <1> QED
    BY <1>1, <1>2 DEF IInv, ReviewTypeOK, RunInv, OneCurrentRun, EarlierEnded, IsCurrent,
       Published, RevisionInv, RevisionsGrow, PageFaithful, ReviewFaithful, ConfirmedIsSaved,
       Overtaken, Pending, runVars, pageVars

(* A draft that a review is of had a revision, so that the missing draft   *)
(* of a purged document is nobody's.                                       *)
LEMMA PurgeInvariant ==
  ASSUME IInv, Purge
  PROVE  IInv'
  <1>1. /\ status' = "Purged" /\ draft' = NoDraft
        /\ UNCHANGED <<version, runVars, review, approval, pageVars>>
    BY DEF Purge
  <1>2. ReviewTypeOK'
    <2>1. 0 \in 0..latest /\ 0 \in 0..MaxDrafts
      BY RunsExist, ReviewBounds DEF IInv
    <2> QED
      BY <1>1, <2>1 DEF IInv, ReviewTypeOK, Published, runVars, pageVars, NoDraft
  <1>3. RunInv'
    BY <1>1 DEF IInv, RunInv, OneCurrentRun, EarlierEnded, IsCurrent, Published, runVars
  <1>4. RevisionsGrow' /\ PageFaithful' /\ Overtaken'
    BY <1>1 DEF IInv, RevisionInv, RevisionsGrow, PageFaithful, Overtaken, pageVars, NoDraft
  <1>5. ReviewFaithful'
    BY <1>1 DEF IInv, RevisionInv, ReviewFaithful, ConfirmedIsSaved, Published, runVars, NoDraft
  <1> QED
    BY <1>1, <1>2, <1>3, <1>4, <1>5 DEF IInv, RevisionInv

(* Steps of the reviewer alone: no row changes.                            *)
LEMMA PageRows ==
  ASSUME IInv, UNCHANGED storeVars
  PROVE  /\ RunInv'
         /\ ReviewFaithful'
         /\ PageShape' => ReviewTypeOK'
         /\ (status # "Purged" => page'.draft <= draft.revision) => RevisionsGrow'
         /\ request'.kind = "none" => Overtaken'
         /\ draft' = draft
  <1>1. /\ status' = status /\ version' = version /\ latest' = latest /\ job' = job
        /\ readBy' = readBy /\ reprocess' = reprocess /\ superseded' = superseded
        /\ draft' = draft /\ review' = review /\ approval' = approval
    BY DEF storeVars, runVars, reviewVars
  <1>2. RunInv' /\ ReviewFaithful'
    BY <1>1 DEF IInv, RunInv, OneCurrentRun, EarlierEnded, IsCurrent, Published,
       RevisionInv, ReviewFaithful, ConfirmedIsSaved
  <1>3. PageShape' => ReviewTypeOK'
    BY <1>1 DEF IInv, ReviewTypeOK, PageShape, Published
  <1>4. (status # "Purged" => page'.draft <= draft.revision) => RevisionsGrow'
    BY <1>1 DEF IInv, RevisionInv, RevisionsGrow
  <1>5. request'.kind = "none" => Overtaken'
    BY <1>1 DEF IInv, RevisionInv, Overtaken, Pending
  <1> QED
    BY <1>1, <1>2, <1>3, <1>4, <1>5

LEMMA LoadInvariant ==
  ASSUME IInv, LoadOCR \/ LoadReview \/ LoadDraft \/ Reload
  PROVE  IInv'
  <1> DEFINE Shown ==
        /\ page.draft \in {0, draft.revision}
        /\ page.step # "open" => page.draft = 0
        /\ page.draft = 0 => page.content = 0
        /\ page.draft = draft.revision => page.content = draft.content
  <1>1. /\ latest \in Nat /\ draft.revision \in 0..MaxDrafts /\ draft.content \in 0..MaxDrafts
        /\ review.revision \in 0..MaxReviews /\ 0 \in 0..latest /\ latest \in 0..latest
        /\ 0 \in 0..MaxDrafts /\ 0 \in 0..MaxReviews /\ 0 <= draft.revision
        /\ draft.revision <= draft.revision
    BY RunsExist, ReviewBounds DEF IInv, ReviewTypeOK
  <1>2. /\ UNCHANGED storeVars
        /\ latest' = latest /\ draft' = draft
    BY DEF LoadOCR, LoadReview, LoadDraft, Reload, storeVars, runVars, reviewVars
  <1>3. PageShape /\ (page.step # "open" => page.draft = 0 /\ page.content = 0)
    BY DEF IInv, ReviewTypeOK, RevisionInv, PageFaithful, PageShape
  <1>4. request'.kind = "none"
        /\ request' \in [kind : {"none", "save", "confirm"}, content : 0..MaxDrafts]
    BY <1>1, <1>3 DEF LoadOCR, LoadReview, LoadDraft, Reload, Leave, NoRequest, IInv,
       RevisionInv, PageFaithful, PageShape
  <1>5. draft.revision = 0 => draft.content = 0
    BY DEF IInv, RevisionInv, RevisionsGrow
  <1>6. NoPage \in [step : {"none", "ocr", "review", "open"}, ocr : 0..latest,
                    review : 0..MaxReviews, draft : 0..MaxDrafts, content : 0..MaxDrafts]
        /\ NoPage.step # "open" /\ NoPage.draft = 0 /\ NoPage.content = 0
    BY <1>1 DEF NoPage
  <1>7. PageShape' /\ Shown'
    <2>1. CASE LoadOCR
      BY <1>1, <1>2, <1>4, <1>5, <1>6, <2>1 DEF LoadOCR, PageShape
    <2>2. CASE LoadReview
      BY <1>1, <1>2, <1>3, <1>4, <1>5, <2>2 DEF LoadReview, PageShape
    <2>3. CASE LoadDraft
      BY <1>1, <1>2, <1>3, <1>4, <1>5, <2>3 DEF LoadDraft, PageShape
    <2>4. CASE Reload
      BY <1>1, <1>2, <1>4, <1>5, <1>6, <2>4 DEF Reload, Leave, PageShape
    <2> QED
      BY <2>1, <2>2, <2>3, <2>4
  <1>8. PageFaithful'
    BY <1>4, <1>7 DEF PageFaithful
  <1>9. RevisionsGrow'
    BY <1>1, <1>2, <1>7, PageRows
  <1> QED
    BY <1>2, <1>4, <1>7, <1>8, <1>9, PageRows DEF IInv, RevisionInv

(* A request leaves only from an open page of the latest run.              *)
LEMMA CheckInvariant ==
  ASSUME IInv, CheckSave \/ CheckConfirm
  PROVE  IInv'
  <1>1. /\ UNCHANGED storeVars /\ page' = page
        /\ page.step = "open" /\ Extractable(page.ocr)
    BY DEF CheckSave, CheckConfirm
  <1>2. /\ latest' = latest /\ draft' = draft /\ review' = review /\ status' = status
        /\ reprocess' = reprocess /\ job' = job
    BY <1>1 DEF storeVars, runVars, reviewVars
  <1>3. /\ request'.kind \in {"save", "confirm"}
        /\ request' \in [kind : {"none", "save", "confirm"}, content : 0..MaxDrafts]
        /\ request'.kind = "confirm" => page.draft # 0 /\ request'.content = page.content
    BY ReviewBounds DEF CheckSave, CheckConfirm, IInv, ReviewTypeOK
  <1>4. PageShape'
    BY <1>1, <1>2, <1>3 DEF IInv, ReviewTypeOK, PageShape
  <1>5. PageFaithful'
    BY <1>1, <1>2, <1>3 DEF IInv, RevisionInv, PageFaithful
  <1>6. RevisionsGrow'
    BY <1>1, <1>2 DEF IInv, RevisionInv, RevisionsGrow
  <1>7. Overtaken'
    <2>1. \A r \in reprocess : Pending(r) => r < page.ocr
      BY <1>1, ExtractableOvertakes
    <2> QED
      BY <1>1, <1>2, <2>1 DEF IInv, RevisionInv, Overtaken, Pending
  <1> QED
    BY <1>1, <1>4, <1>5, <1>6, <1>7, PageRows DEF IInv, RevisionInv

-----------------------------------------------------------------------------
LEMMA NextInvariant == IInv /\ [Next]_vars => IInv'
  <1> SUFFICES ASSUME IInv, [Next]_vars PROVE IInv'
    OBVIOUS
  <1>1. ASSUME NEW r \in Runs, ClaimRun(r) \/ ReleaseRun(r) \/ CompleteOCR(r) PROVE IInv'
    BY <1>1, ClaimInvariant, ReleaseInvariant, CompleteInvariant
  <1>2. CASE SetVersion \/ RetryOCR \/ ReprocessOCR
    BY <1>2, VersionInvariant, RetryInvariant, ReprocessInvariant
  <1>3. CASE SaveByOther \/ ConfirmByOther \/ CommitSave \/ CommitConfirm
    BY <1>3, CommitInvariant
  <1>4. CASE ReturnReview \/ Approve \/ ChangeDocumentStatus \/ Purge
    BY <1>4, ReturnInvariant, ApproveInvariant, StatusInvariant, PurgeInvariant
  <1>5. CASE LoadOCR \/ LoadReview \/ LoadDraft \/ Reload
    BY <1>5, LoadInvariant
  <1>6. CASE CheckSave \/ CheckConfirm
    BY <1>6, CheckInvariant
  <1>7. CASE UNCHANGED vars
    BY <1>7 DEF vars, IInv, ReviewTypeOK, RunInv, OneCurrentRun, EarlierEnded, IsCurrent,
       Published, RevisionInv, RevisionsGrow, PageFaithful, ReviewFaithful, ConfirmedIsSaved,
       Overtaken, Pending, runVars, reviewVars, pageVars
  <1> QED
    BY <1>1, <1>2, <1>3, <1>4, <1>5, <1>6, <1>7 DEF Next

LEMMA Invariance == Spec => []IInv
  BY InitInvariant, NextInvariant, PTL DEF Spec

(* The rows, the page and the request always stay within their columns,    *)
(* and only a published run is ever superseded.                            *)
THEOREM ReviewTypeCorrect == Spec => []ReviewTypeOK
  <1>1. IInv => ReviewTypeOK
    BY DEF IInv
  <1> QED
    BY <1>1, Invariance, PTL

(* Whatever runs are scheduled and in whatever order they complete, at     *)
(* most one is published and not superseded: what CompleteOCR is for.      *)
THEOREM CurrentRunUnique == Spec => []OneCurrentRun
  <1>1. IInv => OneCurrentRun
    BY DEF IInv, RunInv
  <1> QED
    BY <1>1, Invariance, PTL

(* RetryOCR never puts a second reading of one fingerprint on its way: no  *)
(* finished attempt is thrown away by the unique index.                    *)
THEOREM ReadingUnique == Spec => []OneReadingPerVersion
  <1>1. ASSUME IInv PROVE OneReadingPerVersion
    <2> SUFFICES ASSUME NEW r \in 1..latest, NEW s \in 1..latest,
                        r \notin reprocess, s \notin reprocess, readBy[r] = readBy[s],
                        job[r] \notin {"Failed", "Cancelled"},
                        job[s] \notin {"Failed", "Cancelled"}
                 PROVE  r = s
      BY DEF OneReadingPerVersion
    <2>1. ~(r < s) /\ ~(s < r)
      BY <1>1 DEF IInv, RunInv, EarlierEnded
    <2> QED
      BY <2>1, <1>1, RunsExist DEF IInv
  <1> QED
    BY <1>1, Invariance, PTL

(* What a confirmation stores is what the draft of its revision holds.     *)
THEOREM ConfirmedValuesAreSaved == Spec => []ConfirmedIsSaved
  <1>1. IInv => ConfirmedIsSaved
    BY DEF IInv, RevisionInv, ReviewFaithful
  <1> QED
    BY <1>1, Invariance, PTL

(* No approval counts while a reprocessing asked for later than the run it *)
(* is of is still on its way.                                              *)
THEOREM NoApprovalWhileReprocessing == Spec => []NothingWhileReprocessing
  <1>1. ASSUME IInv PROVE NothingWhileReprocessing
    <2> SUFFICES ASSUME ApprovalHolds, NEW r \in reprocess, Pending(r)
                 PROVE  r < review.ocr
      BY DEF NothingWhileReprocessing
    <2>1. /\ status # "Purged" /\ review.revision # 0
          /\ draft.revision <= review.draft
      BY DEF ApprovalHolds, ReviewIsCurrent
    <2>2. draft.revision \in Nat /\ review.draft \in Nat
      BY <1>1, ReviewBounds DEF IInv, ReviewTypeOK
    <2> QED
      BY <1>1, <2>1, <2>2 DEF IInv, RevisionInv, Overtaken
  <1> QED
    BY <1>1, Invariance, PTL

(* The reviewer's save meets the content her page showed her.              *)
THEOREM NoEditLost == Spec => EditsNotLost
  <1>1. IInv /\ [Next]_vars => (CommitSave => draft.content = page.content)
    <2> SUFFICES ASSUME IInv, CommitSave PROVE draft.content = page.content
      OBVIOUS
    <2>1. request.kind = "save" /\ draft.revision = page.draft
      BY DEF CommitSave, SaveDraft
    <2> QED
      BY <2>1 DEF IInv, RevisionInv, PageFaithful
  <1>2. IInv /\ [Next]_vars => [CommitSave => draft.content = page.content]_vars
    BY <1>1
  <1> QED
    BY <1>2, Invariance, PTL DEF Spec, EditsNotLost

(* Time has one direction: revisions rise, nothing superseded comes back,  *)
(* and a purged document stays purged.                                     *)
LEMMA Onward ==
  ASSUME IInv, [Next]_vars
  PROVE  /\ review' = review \/ review'.revision = review.revision + 1
         /\ superseded \subseteq superseded'
         /\ status = "Purged" => status' = "Purged"
         /\ status' # "Purged" => draft.revision <= draft'.revision
  <1>0. draft.revision \in Nat /\ draft.revision <= draft.revision
        /\ draft.revision <= draft.revision + 1
    BY ReviewBounds DEF IInv, ReviewTypeOK
  <1>1. ASSUME NEW r \in Runs, ClaimRun(r) \/ ReleaseRun(r) \/ CompleteOCR(r)
        PROVE  superseded \subseteq superseded' /\ UNCHANGED <<status, draft, review>>
    BY <1>1 DEF ClaimRun, ReleaseRun, CompleteOCR, reviewVars
  <1>2. ASSUME SetVersion \/ RetryOCR \/ Approve \/ LoadOCR \/ LoadReview \/ LoadDraft
               \/ CheckSave \/ CheckConfirm \/ Reload \/ UNCHANGED vars
        PROVE  UNCHANGED <<status, superseded, draft, review>>
    BY <1>2 DEF SetVersion, RetryOCR, AddRun, Approve, LoadOCR, LoadReview, LoadDraft,
       CheckSave, CheckConfirm, Reload, vars, storeVars, runVars, reviewVars
  <1>3. ASSUME ReprocessOCR \/ SaveByOther \/ CommitSave \/ ReturnReview
        PROVE  /\ draft'.revision = draft.revision + 1
               /\ UNCHANGED <<status, superseded, review>>
    <2>1. CASE ReprocessOCR
      BY <2>1 DEF ReprocessOCR, AddRun
    <2>2. CASE SaveByOther \/ CommitSave
      BY <2>2 DEF SaveByOther, CommitSave, SaveDraft, runVars
    <2>3. CASE ReturnReview
      BY <2>3 DEF ReturnReview, runVars
    <2> QED
      BY <1>3, <2>1, <2>2, <2>3
  <1>4. ASSUME ConfirmByOther \/ CommitConfirm
        PROVE  /\ review'.revision = review.revision + 1
               /\ UNCHANGED <<status, superseded, draft>>
    BY <1>4 DEF ConfirmByOther, CommitConfirm, SaveReview, runVars
  <1>5. ASSUME ChangeDocumentStatus
        PROVE  status # "Purged" /\ UNCHANGED <<superseded, draft, review>>
    BY <1>5 DEF ChangeDocumentStatus, Reviewable, reviewVars
  <1>6. ASSUME Purge
        PROVE  status' = "Purged" /\ UNCHANGED <<superseded, review>>
    BY <1>6 DEF Purge, runVars
  <1> QED
    BY <1>0, <1>1, <1>2, <1>3, <1>4, <1>5, <1>6 DEF Next

(* An approval that has become stale counts never again: only a new        *)
(* approval of a newer review does.                                        *)
THEOREM StaleForGood == Spec => StaleStaysStale
  <1>1. ASSUME IInv, [Next]_vars, approval' = approval, ApprovalHolds'
        PROVE  ApprovalHolds
    <2>1. /\ approval # 0 /\ approval = review'.revision /\ review'.revision # 0
          /\ review'.ocr \in Published' \ superseded'
          /\ draft'.revision <= review'.draft /\ status' # "Purged"
      BY <1>1 DEF ApprovalHolds, ReviewIsCurrent, IsCurrent
    <2>2. /\ approval \in 0..review.revision /\ review.revision \in Nat
          /\ review.draft \in Nat /\ draft.revision \in Nat
      BY <1>1, ReviewBounds DEF IInv, ReviewTypeOK
    <2>3. review' = review
      BY <1>1, <2>1, <2>2, Onward
    <2>4. review.ocr \in Published \ superseded
      BY <1>1, <2>1, <2>3, Onward DEF IInv, RevisionInv, ReviewFaithful
    <2>5. draft.revision <= review.draft /\ status # "Purged"
      <3>1. draft.revision <= draft'.revision /\ status # "Purged"
        BY <1>1, <2>1, Onward
      <3>2. draft'.revision \in Nat
        BY <1>1, NextInvariant, ReviewBounds DEF IInv, ReviewTypeOK
      <3> QED
        BY <2>1, <2>2, <2>3, <3>1, <3>2
    <2> QED
      BY <2>1, <2>3, <2>4, <2>5 DEF ApprovalHolds, ReviewIsCurrent, IsCurrent
  <1>2. IInv /\ [Next]_vars
          => [approval' = approval /\ ~ApprovalHolds => ~ApprovalHolds']_vars
    BY <1>1
  <1> QED
    BY <1>2, Invariance, PTL DEF Spec, StaleStaysStale
=============================================================================
