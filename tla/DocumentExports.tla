---------------------------- MODULE DocumentExports ----------------------------
(***************************************************************************)
(* The export of an organization's documents, of their confirmed values or *)
(* of the approved suggestions, as a background job.  The request freezes  *)
(* the documents and revisions that it covers; a worker reads the rows     *)
(* page by page while reviewers go on; the completion and every download   *)
(* look again whether each frozen row still holds.                         *)
(*                                                                         *)
(* A document is seen here as an export sees it; DocumentReview tells how  *)
(* it comes to be so.  The lease of an attempt may run out at any time     *)
(* (DurableJobs), and the upload of the file is one step (ExportWorker).   *)
(***************************************************************************)
EXTENDS Naturals, Sequences, FiniteSets, SequencesExt

CONSTANTS
  Documents,     \* ids
  PageSize,      \* rows of one page: 500
  MaxAttempts,   \* attempts of the job
  MaxChanges     \* bound on the changes of one document

ASSUME ExportsAssumption ==
  /\ IsFiniteSet(Documents)
  /\ PageSize \in Nat \ {0} /\ MaxAttempts \in Nat \ {0}
  /\ MaxChanges \in Nat

VARIABLES
  document,      \* documents with their current review and approval
  export,        \* durable_jobs and document_export_snapshots of the export
  attempt,       \* the attempt that claimed it last
  file,          \* what each attempt has read so far
  artifact,      \* durable_job_artifacts: the lines of the file, if any
  signed         \* a download URL that has not run out

vars == <<document, export, attempt, file, artifact, signed>>

Products == {"raw_documents", "confirmed_values", "approved_suggestions"}
Statuses == {"Available", "Archived", "Trash"}
Attempts == 1 .. MaxAttempts

\* review and approval count the revisions; 0 is none.  A review is overtaken
\* when a newer draft or a newer run has made it one of the past.
NewDocument == [status |-> "Available", updated |-> 0, review |-> 0,
                overtaken |-> FALSE, approval |-> 0, approves |-> 0]
NoExport == [state |-> "None", product |-> "None", status |-> "None",
             rows |-> <<>>]
NewFile == [cursor |-> 0, lines |-> <<>>, done |-> FALSE]
NoFile == <<"none">>

Init ==
  /\ document = [d \in Documents |-> NewDocument]
  /\ export = NoExport
  /\ attempt = 0
  /\ file = [a \in Attempts |-> NewFile]
  /\ artifact = NoFile
  /\ signed = FALSE

-----------------------------------------------------------------------------
(* What becomes of a document: an action for each column that is looked at *)

Change(d, row) ==
  /\ row.updated + row.review + row.approval <= MaxChanges
  /\ document' = [document EXCEPT ![d] = row]
  /\ UNCHANGED <<export, attempt, file, artifact, signed>>

Reviewable(d) == document[d].status \in {"Available", "Archived"}

ChangeDocumentStatus(d) ==
  LET row == document[d]
  IN \E to \in Statuses :
       /\ <<row.status, to>> \in {<<"Available", "Archived">>,
            <<"Available", "Trash">>, <<"Archived", "Trash">>,
            <<"Trash", "Available">>}
       /\ Change(d, [row EXCEPT !.status = to, !.updated = @ + 1])

\* SaveReview: a review of the current run, from the newest draft.
SaveReview(d) ==
  /\ Reviewable(d)
  /\ Change(d, [document[d] EXCEPT !.review = @ + 1, !.overtaken = FALSE])

\* A draft is saved, returned or begun by a reprocessing, or a run published.
Overtake(d) ==
  /\ Reviewable(d)
  /\ document[d].review # 0 /\ ~document[d].overtaken
  /\ Change(d, [document[d] EXCEPT !.overtaken = TRUE])

Approve(d) ==
  /\ Reviewable(d)
  /\ document[d].review # 0 /\ ~document[d].overtaken
  /\ Change(d, [document[d] EXCEPT !.approval = @ + 1, !.approves = document[d].review])

-----------------------------------------------------------------------------
(* The request                                                             *)

HasReview(row) == row.review # 0 /\ ~row.overtaken
HasApproval(row) == row.approval # 0 /\ row.approves = row.review

\* The documents of the query of QueueDocumentExport, as CountDocumentExport
\* counts them; which dates they have is not modelled.
Selected(product, status) ==
  {d \in Documents :
     /\ document[d].status = status
     /\ product # "raw_documents" => HasReview(document[d])
     /\ product = "approved_suggestions" => HasApproval(document[d])}

\* A row of the snapshot: what the product is made of, and nothing else.
SnapshotRow(product, d) ==
  [id |-> d, updated |-> document[d].updated,
   review |-> IF product = "raw_documents" THEN 0 ELSE document[d].review,
   approval |-> IF product = "approved_suggestions" THEN document[d].approval ELSE 0]

\* What requestReviewExport lets through: Trash is for the inventory alone.
Requestable(product, status) == status = "Trash" => product = "raw_documents"

\* In any order: the dates that the rows are ordered by are not modelled.  An
\* export of nothing is queued as well.
QueueDocumentExport(product, status) ==
  /\ export = NoExport
  /\ Requestable(product, status)
  /\ \E ids \in SetToSeqs(Selected(product, status)) :
       export' = [state |-> "Queued", product |-> product, status |-> status,
                  rows |-> [i \in DOMAIN ids |-> SnapshotRow(product, ids[i])]]
  /\ UNCHANGED <<document, attempt, file, artifact, signed>>

\* Defect: the revision of the newest draft and the run are not looked at.
HoldsWhileOvertaken(row) ==
  LET d == document[row.id]
  IN /\ d.updated = row.updated /\ d.status = export.status
     /\ export.product # "raw_documents" => d.review = row.review
     /\ export.product = "approved_suggestions" =>
          d.approval = row.approval /\ d.approves = row.review

\* Defect: the document has the status again, so it never changed.
HoldsByStatus(row) ==
  LET d == document[row.id]
  IN /\ d.status = export.status
     /\ export.product # "raw_documents" => d.review = row.review /\ ~d.overtaken
     /\ export.product = "approved_suggestions" =>
          d.approval = row.approval /\ d.approves = row.review

\* The row of the snapshot is still one of a document that is as it was, with
\* the review and the approval that it names current.
Holds(row) ==
  LET d == document[row.id]
  IN /\ d.updated = row.updated /\ d.status = export.status
     /\ export.product # "raw_documents" => d.review = row.review /\ ~d.overtaken
     /\ export.product = "approved_suggestions" =>
          d.approval = row.approval /\ d.approves = row.review

\* validDocumentExportSnapshot, one statement.
SnapshotHolds == \A i \in DOMAIN export.rows : Holds(export.rows[i])

-----------------------------------------------------------------------------
(* The job and its worker                                                  *)

HasLease(a) == export.state = "Running" /\ a = attempt

Claim ==
  /\ export.state \in {"Queued", "Running"}      \* the lease may be over
  /\ attempt < MaxAttempts
  /\ attempt' = attempt + 1
  /\ export' = [export EXCEPT !.state = "Running"]
  /\ UNCHANGED <<document, file, artifact, signed>>

\* The columns of a file's line, as they are when the row is read.  The number of
\* sources and the names of members in the inventory are left out: no snapshot
\* vouches for them.
Line(product, d) ==
  CASE product = "raw_documents" -> <<d, document[d].status, document[d].updated>>
    [] product = "confirmed_values" -> <<d, document[d].review>>
    [] product = "approved_suggestions" ->
         <<d, document[d].approves, document[d].approval>>

\* The ordinals a page finds: rows that hold no more are left out of it.
Found(cursor) == {i \in DOMAIN export.rows : i > cursor /\ Holds(export.rows[i])}

\* ORDER BY ordinal
InOrder(ordinals) ==
  {s \in SetToSeqs(ordinals) : \A i, j \in DOMAIN s : i < j => s[i] < s[j]}

LinesOf(page) ==
  [i \in DOMAIN page |-> Line(export.product, export.rows[page[i]].id)]

\* One row more than a page has is asked for, to know whether it is the last.
ReadPage(a) ==
  /\ HasLease(a)
  /\ ~file[a].done
  /\ \E found \in InOrder(Found(file[a].cursor)) :
       LET page == SubSeq(found, 1, IF Len(found) < PageSize THEN Len(found) ELSE PageSize)
       IN file' = [file EXCEPT ![a] =
            [cursor |-> IF page = <<>> THEN @.cursor ELSE Last(page),
             lines |-> @.lines \o LinesOf(page),
             done |-> Len(found) <= PageSize]]
  /\ UNCHANGED <<document, export, attempt, artifact, signed>>

\* The worker counts before it uploads, and the store before it stores.
Counted(a) == Len(file[a].lines) = Len(export.rows)

CompleteExport(a) ==
  /\ file[a].done
  /\ Counted(a)
  /\ SnapshotHolds
  /\ HasLease(a)
  /\ artifact' = file[a].lines
  /\ export' = [export EXCEPT !.state = "Completed"]
  /\ UNCHANGED <<document, attempt, file, signed>>

\* Rows are missing (invalid_input), or any other failure; a transient one, and
\* a lease that runs out, leave the job to the next attempt while there is one.
FailJob(a) ==
  /\ HasLease(a)
  /\ \/ export' = [export EXCEPT !.state = "Failed"]
     \/ attempt < MaxAttempts /\ export' = [export EXCEPT !.state = "Queued"]
  /\ UNCHANGED <<document, attempt, file, artifact, signed>>

-----------------------------------------------------------------------------
(* The download                                                            *)

\* After 24 hours.
Expire ==
  /\ export.state = "Completed"
  /\ export' = [export EXCEPT !.state = "Expired"]
  /\ UNCHANGED <<document, attempt, file, artifact, signed>>

\* The state that GetDocumentExport shows.
Shown == IF export.state = "Completed" THEN "Ready" ELSE export.state

\* AuthorizeExportArtifact: a current file, none of whose rows has changed.
Offered == export.state = "Completed" /\ SnapshotHolds

\* reviewExportDownload signs a URL of fifteen minutes.
SignDownload ==
  /\ Offered
  /\ ~signed
  /\ signed' = TRUE
  /\ UNCHANGED <<document, export, attempt, file, artifact>>

URLExpires ==
  /\ signed
  /\ signed' = FALSE
  /\ UNCHANGED <<document, export, attempt, file, artifact>>

\* retrieveArtifact asks again whether the file is offered.
Retrievable == signed /\ Offered

Next ==
  \/ \E d \in Documents :
       ChangeDocumentStatus(d) \/ SaveReview(d) \/ Overtake(d) \/ Approve(d)
  \/ \E p \in Products, s \in Statuses : QueueDocumentExport(p, s)
  \/ Claim
  \/ \E a \in Attempts : ReadPage(a) \/ CompleteExport(a) \/ FailJob(a)
  \/ Expire
  \/ SignDownload
  \/ URLExpires

Spec == Init /\ [][Next]_vars

-----------------------------------------------------------------------------
\* A file that can be fetched is the whole snapshot, a line for each row in
\* its order, and each line has the columns that an export requested now would
\* have of that document: pages read while reviewers work, by whichever attempt, never make
\* a file of rows from different times, and nothing stale is handed out.
NothingStaleSent ==
  Retrievable =>
    /\ Shown = "Ready"
    /\ Len(artifact) = Len(export.rows)
    /\ \A i \in DOMAIN export.rows :
         LET d == export.rows[i].id
         IN /\ artifact[i] = Line(export.product, d)
            /\ d \in Selected(export.product, export.status)

\* "If any included row changed, fail the whole snapshot and require a fresh
\* request": a file that was refused because a row had changed is never offered
\* again, not when the document gets its old status back, nor after another
\* review or approval.
StaleForGood ==
  [][export.state = "Completed" /\ ~SnapshotHolds => ~Offered']_vars
=============================================================================
