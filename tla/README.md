# PlaiFlow in TLA+

PlaiFlow (the repository beside this directory, `src/`) lets a Thai accounting
office collect its clients' documents over LINE, the web and Google Drive, read
them by OCR, review the values that were read, and export what was approved. It
is a Go API server over PostgreSQL, a few worker processes (`cmd/worker`,
`cmd/jobworker`, the Python OCR worker), an object store, and a Next.js front
end. Nearly everything that can go wrong in it is a matter of order: leases that
run out, reports that come late, commits whose answer is lost, revisions that a
browser read a while ago. That is what this project models.

The project is a set of TLA+ modules translated from the source, configurations
that model-check them with TLC, and proofs that TLAPS checks. `PROJECT.json`
names, for every definition, the lines of code it stands for; this file says how
the parts fit and what the checks show.

- [The system](#the-system): its components, their state and what makes them correct
- [The modules](#the-modules): which module models which part, and how
- [The runs](#the-runs): bounds, fairness, what each shows
- [The proofs](#the-proofs): what is proved, from what, and how
- [Where code and documents disagree](#where-code-and-documents-disagree)
- [What is not modelled](#what-is-not-modelled)
- [The plan](#the-plan)

## The system

All Go paths are under `src/api/internal/` unless they begin with `src/` or
`cmd/`; `000007` is the seventh file of `src/api/migrations/`.

| Component | State it keeps | Operations | What makes it correct |
|---|---|---|---|
| **Durable job queue** (`postgres/jobs.go`, `httpapi/job_routes.go`, `000007`) | `durable_jobs`, `durable_job_artifacts`, the mirrored `export_jobs` | enqueue, claim, heartbeat, fail, complete, cancel | only the latest attempt acts; the attempt limit holds and strands nothing; one result; the history agrees |
| **Export worker and artifact upload** (`cmd/jobworker/main.go`, `httpapi/job_routes.go`) | the attempt in hand, uploads under way, objects stored | claim, heartbeat per page and in the background, read pages, PUT, report | the published file exists; every export ends whatever dies |
| **LINE inbound queue** (`postgres/store.go`, `worker/`, `cmd/worker`) | `inbound_events`, the batch of each worker | insert, claim, complete, fail, cleanup | processed means handled; the retry budget holds; leases exclude; every event settles |
| **LINE documents and their handler** (`worker/document.go`, `line/`) | – (writes through the intake) | download, resolve source, accept | an event handled twice stores one document |
| **OCR runs** (`postgres/ocr.go`, `httpapi/ocr_routes.go`, `000008`) | `document_ocr_runs`, `ocr_settings` | first run by trigger, retry, reprocess, complete | one current run; one live reading per fingerprint |
| **OCR worker** (`src/ocr/plaiflow_ocr/`) | the attempt in hand | claim, fetch, read in a sandbox, post the result | as the export worker, with its own deadline |
| **Review of extracted values** (`postgres/review_drafts.go`, `extraction.go`, `review_return.go`, `httpapi/extraction_routes.go`) | `document_review_drafts`, `document_extraction_reviews` | load page, save draft, confirm, return | no edit lost; what is confirmed is what was saved |
| **Accounting suggestions and rules** (`postgres/accounting.go`, `accounting/`) | suggestions, rules, mapping version | approve, rules, list approved | a stale approval never counts again |
| **Review queue and assignment** (`postgres/review_queue.go`, `review_assign.go`) | – (reads the above), tasks | list, assign | an item shown can be assigned |
| **Document exports** (`postgres/review_exports.go`, `httpapi/review_export_routes.go`) | the immutable snapshot of an export, its file | queue, read pages, check at completion and at each download | what is handed out is what was selected and still holds |
| **Document status and retention** (`postgres/document_reads.go`, `000006`, `000012`) | `documents.status` | archive, trash, restore, triggers of trash and purge | trash stops waiting runs; purge removes values |
| **Document intake** (`postgres/documents.go`, `document/service.go`) | documents, origins, counters of the period | commit prepared, record rejected | quota holds; one document per content and per origin; no object without a row kept, none deleted with one |
| **Encrypted storage, virus scan** (`document/`) | objects | put, get, delete | – (ciphers and clients) |
| **Google Drive connection** (`postgres/drive.go`, `drive/`) | credential, generation | connect, refresh, mark reconnect, disconnect | a late refusal does not close a new connection |
| **Tasks and watchers** (`postgres/work.go`, `work/`, `000003`) | `tasks`, `task_watchers`, `domain_events` | create, update, assign, watch | changes are serialised by the row's lock; the events tell the history |
| **Notifications, digests, LINE deliveries** (`postgres/work_worker.go`) | `notifications`, `reminders`, `notification_deliveries` | process events, remind, claim, complete, fail, digest | nothing is left with a removed member; a delivery is given up only for cause |
| **Task exports** (`postgres/work_reads.go`) | `export_jobs` | queue, list, download | a request makes one job |
| **Sign-in, sessions, identities** (`postgres/auth.go`, `auth/`) | `sessions`, `auth_identities`, one-time `auth_transactions` | log in, link, re-authenticate, unlink, log out | a session is earned by an identity of its user; it is replaced at most once; an account keeps an identity |
| **Worker and artifact tokens** (`job/auth.go`, `artifact_token.go`) | nonces seen | sign, verify | – |
| **Organizations, memberships, invitations** (`postgres/tenant.go`, `000002`) | organizations, memberships, invitations, their claims | invite, claim, accept, change role, transfer, remove, leave | exactly one owner; no membership made, changed or removed without authority; an invitation admits one |
| **Business contacts, imports, profile** (`postgres/business.go`) | contacts, previews | preview, commit | a preview is committed once |
| **Plans and gates** (`plan/catalog.go`) | – | – | – |
| **Web application** (`src/web/`) | what a page was shown | sends it back | – |
| **Python export shell**, **LINE rich menu**, **configuration** | – | – | – |

How they interact. The API server is the only client of PostgreSQL for job and
OCR workers, which speak HTTP to it; `cmd/worker` speaks SQL itself. A job is
created by a request or by a trigger (a document accepted, trashed), handed out
by a claim, and comes back as a completion that changes other tables in the same
transaction: `CompleteExport` publishes an artifact and the mirrored history,
`CompleteOCR` publishes a run and supersedes others, which in turn decides what
the review may save and whether an approval may be exported. Objects are written
to the store before the transaction that names them and deleted after one that
fails.

What is hard about it:

- *Concurrency*: several workers on one queue, several members on one document,
  requests whose checks and transaction see different states.
- *Failure*: any worker or server process may die between two steps; an answer
  may be lost although the work was done; the object store may refuse.
- *Ordering*: runs complete in another order than they were made, reports arrive
  after the lease they were made under.
- *Time*: leases are compared with clock readings taken earlier, quotas with the
  month in which an upload began.
- *Isolation*: transactions are READ COMMITTED, and a check is one statement
  before the write it permits. What holds at the write is what a lock, a WHERE
  clause, a policy of row level security, a trigger or a constraint makes hold.

The 40 hazards in `PROJECT.json` list these at their lines, each with the
property that would catch it, or the reason why none does.

## The modules

| Module | Models | Role |
|---|---|---|
| `JobLifecycle` | `docs/phase-5-spec.md:68-74` as the code takes it | abstract: what the queue promises of one job |
| `DurableJobs` | durable job queue | the rows and transactions, under the most general clients |
| `ExportWorker` | export worker, upload handler, object store | EXTENDS `DurableJobs`, replaces its clients by the real ones |
| `InboundQueue` | LINE inbound queue and worker | self-contained, includes its worker |
| `DocumentReview` | OCR runs, review, approval, document status | self-contained; a run's job moves as `DurableJobs` lets it |
| `Inbox` | what an organization is promised of its inbox, as `documents.go` and `000006` keep it | abstract: files arrive one at a time |
| `DocumentIntake` | intake by web, LINE and Drive, visibility and status of documents | implements `Inbox` |
| `DocumentExports` | snapshots, pages and downloads of document exports | sees a document as `DocumentReview` leaves it; its attempts lose their lease as in `DurableJobs` |
| `Membership` | roles, invitations, claims, transfers | state machine of its own |
| `DriveConnection` | the connection to Google Drive | EXTENDS `Membership`: who may do what is who is member then |
| `SignIn` | identities, sessions, one-time transactions | self-contained |
| `Work` | a task, its watchers, events, notifications, LINE deliveries | self-contained, with memberships that end |
| `DurableJobsProofs`, `InboundQueueProofs`, `DocumentReviewProofs`, `IntakeProofs`, `DocumentExportsProofs`, `SignInProofs`, `OrganizationProofs`, `WorkProofs` | – | theorems about the module they extend; `DurableJobsProofs` is about `DurableJobs` and, in its second part, `ExportWorker` |
| `MC…` | – | constants for TLC |

Operators whose comment begins with *Defect* are not part of any specification:
each is a plausible wrong version of the definition that follows it, and shows
that a property would notice.

### JobLifecycle

`phase`, `tries` and `winner` of a single job, with `Submit`, `Begin`, `Retry`,
`Succeed`, `GiveUp` and `Withdraw`. `DurableJobs` instantiates it once for each
job (`Life(j)`), mapping `phase` to the row's status, `tries` to `attempt_count`
and `winner` to the attempt in `result`.

### DurableJobs

State: one function of jobs for each column that decides anything (`status`,
`attempt_count`, `current_attempt_id` with its token, `lease_expires_at`,
`available_at`, `result`), the artifact row, the mirrored `export_jobs` row, and
two histories (`claimedAt`, `completions`). An action is one transaction:
`Enqueue`, `CancelQueued`, `ClaimJobs` (both statements: failing exhausted jobs,
then handing out), `HeartbeatJob`, `FailJob`, `CompleteExport`, `CompleteOCR`,
and `Tick`.

- *Clients* are as general as can be: every attempt ever handed out may call any
  endpoint with its own token at any time. This covers both worker programs and
  whatever they do wrong.
- *Time*: a handler reads the clock before its transaction, so an action takes a
  stamp up to `MaxLag` old. `uploadArtifact` reads it before the body arrives.
- *Attempts*: attempt ids and lease tokens are random and travel together; the
  n-th claim makes attempt n. Two attempts never share one.
- *Left out*: payloads, row contents, audit wording, the contract's version
  check (an early return without effect), HTTP signatures.

### ExportWorker

Adds what each worker process does (`worker`), the PUT requests on the server
(`uploads`) and the keys in the object store (`objects`). The worker's loop
becomes `Claim`, `PrepareFails`, `PageHeartbeat`, `ReadPage`, `StartUpload`,
`BackgroundHeartbeat`, `UploadTimeout`, `ReportFailure`, `WorkerDies`; the upload
handler's steps are `StoreObject`, `PublishArtifact`, `RefuseArtifact` and
`UploadDies`. A claim's answer may be lost, a PUT may be given up by the client
and go on at the server, a delete may fail silently, and with `CommitMayBeLost`
a COMMIT may succeed and be reported as an error. `StoreRules` (= `Spec` of
`DurableJobs`) is checked as a property: the real protocol only does to the
store what `DurableJobs` allows, so its invariants carry over.

### InboundQueue

Rows of `inbound_events` (status, attempt count, time until available, time
until the lease ends) and for each worker the batch it is going through, the
attempt counts it read with it, and what is left of its lease. `InsertEvents` is
the webhook's transaction, `Claim`/`ClaimLost` the claim (its answer may be
lost), `Report`/`ReportBreaks` one turn of `RunOnce` with the handler,
`Crash`, `Cleanup`, `Tick`. Neither `Complete` nor `Fail` looks at the row's
state, and `Fail` writes a count read at the claim: modelled as it is. Times are
countdowns, so no clock grows.

### DocumentReview

One document: its status, its OCR runs numbered in creation order with their
job's status, fingerprint (model version, or one of its own for a reprocessing)
and supersession, the one draft row, the current review, the approval, and the
page and request of one reviewer.

- *Transactions* lock the document's row first, so each is one step:
  `CompleteOCR`, `RetryOCR`, `ReprocessOCR`, `SaveDraft`, `SaveReview`,
  `ReturnReview`, `Approve`, `ChangeDocumentStatus`.
- *Requests are not atomic*: `LoadOCR`, `LoadReview`, `LoadDraft` are the three
  reads of the page; `CheckSave`/`CheckConfirm` are the reads before a
  transaction, `CommitSave`/`CommitConfirm` the transaction with what those
  reads found. Other members act in one step (`SaveByOther`, `ConfirmByOther`).
- *Content* of a draft is the revision that first held it; 0 is the empty object.
- `SetVersion` is the operator's update of `ocr_settings`. `Purge` is external
  too: migration 12 has a trigger for it, and no Go code deletes yet.
- *Left out*: the category, vendor and rule of an approval and its own revision;
  field-level validation; `REVIEW_ENABLED` off; the 30 days of a restore.

### Inbox

The intake without requests, locks, objects and crashes: `shelf` (the status of
the document that has given bytes), `held` (what an origin was accepted for, and
of whom), `attempt` (its row in the list of attempts) and `charged` (documents of
each period). `Accept` takes a file under an origin that stands for nothing yet
and either adds a document, which needs room in a period, or recognizes bytes
that are known; `Reject` leaves a row where none is; `Move` is an owner's order.
`DocumentIntake` implements it (`Box`, `InboxKept`): `shelf`, `held` and
`charged` are computed from its tables, `attempt` is its own, and every step of a
request but the write of its transaction and the record of a rejection changes
nothing there. Without the advisory lock that is false, though a unique index
keeps two documents from having the same bytes: two requests read the same room.

### DocumentIntake

Each request is a record that says how far it is (`stored`, `prepared`,
`refused`, `deciding`, `answered`, …), what it brings, and what it was answered;
beside it `objects`, `document` (with the usage charge), `source`, `attempt` of
an origin, and the advisory `lock`. An attempt id is random, so the request
stands for it, for its object's key and for the document it creates.

- `UploadDocument`, `HandleLINE` and `ImportDrive` are the three handlers: the
  file is put into the store and the clock is read (its month decides the quota).
  `Examine`, `RefuseFile`, `ExamineFails`: type, size and virus scan.
- `CommitPrepared` is two steps: `Decide` takes the lock and makes every read of
  the transaction (`Plan`: repeat, conflict, trashed, attach, new, quota); one of
  `CommitRepeat`, `Refuse`, `CommitQuota`, `SourceTaken`, `AttemptTaken`,
  `Commit`, `CommitUnknown`, `CommitFails` ends it. In between, whatever does not
  take the lock may happen: `ChangeStatus`, `RecordRejected`, a crash.
- `Discard`, `DiscardFails`, `Keep` are the end of `Accept`: anything but a new
  document deletes the object that was prepared.
- `Sees` and `Opens` are the predicate of the document reads. `FilesOf` and
  `SendersOf` say what an origin may bring: a web key can be sent again with
  another file, a LINE message cannot.
- *Left out*: what a file is besides its digest and whether it is refused;
  the fiscal month's time zone; names of groups and senders.

### Membership and DriveConnection

`role` of each user (`None` is no member), `request` (a transaction between its
statements), `invitation` with a history of whom it admitted, `handoff` (the
claims), `acceptance` (who is redeeming a claim, between the statements of
`accept_member_invitation`). `AskTo…` are the handlers up to their check;
`CreateInvitation`, `RevokeInvitation`, `ChangeRole`, `LeaveOrganization` their
write, under `MayUpdate`, `MayManage`, `MayDelete` (the policies) and
`RetainsOwner` (the deferred trigger). A removal has three statements: the check,
`SelectTarget` (`SELECT … FOR UPDATE`, under the policy for updates) and
`RemoveMembership` (the `DELETE`, under the policy for deletions, which may find
no row it is allowed to see). It locks the target's row (`Locked`) and not the
actor's: the actor may hand ownership over in between. An acceptance is
`LockInvitation` (handoff and invitation locked, the inviter's role read without
a lock) and `AcceptInvitation` (the insert and the updates), or
`AcceptanceFails`: the inviter may be demoted in between, but not removed, as the
invitation refers to the inviter's membership. `authority` is a history: the
actor's or the inviter's role at the statement that locked.
`TransferOwnership` locks both rows and decides afterwards: one step.
`ClaimInvitation` is one step because nothing but the claim itself comes after
its test. The model takes the API server's role to be subject to row level
security, as `src/docs/adr/0017` requires. *Abstracted*: a statement is one
step. PostgreSQL evaluates the policies with the snapshot the statement began
with and, after waiting for a row, checks that row again but not the snapshot; a
write that waits while its target is handed the ownership and hands it on would
still be judged by the roles of before.

`DriveConnection` adds the row of `drive_connections` (status, generation,
token), the authorizations of Google, the calls that use a token, the tokens
Google no longer accepts, and the task that asks for a new authorization. A call
is `ReadConnection`, `Refresh`, `RequireReconnect`, and anything may happen
between them. `SaveConnection` succeeds only while no such task is open;
`SaveRefused` is what the CHECK of `tasks` does otherwise.

### SignIn

`identity` (owner and whether it is enabled, by issuer and subject), `session`
(user, provider, live, recent, and a history: which session it replaced),
`attempt` (an `auth_transactions` row and the callback that consumed it),
`request` (transactions between their statements, and with it the locks they
hold). A login is `FindLogin`, `Login`, `CreateSession`, each committed on its
own; `LinkIdentityAndRotate` and `ReauthenticateAndRotate` are transactions that
replace the session the browser came with; an unlink is `CountIdentities`,
`DisableIdentity`, `CommitUnlink`, a logout everywhere `LogoutAll` and
`RevokeUserSessions`: an UPDATE of sessions finds its rows when it begins and
waits for the locked ones among them (`Reaches`). *Left out*: cookies, CSRF,
the cooldown of an unlinked identity (which only refuses), the signing keys.

### Work

The row of one task, its watchers, `request` (an update or a change of watchers
between its read and its write), `events` in order, the events `processed`, the
notifications and the delivery of some of them to LINE. `LockTask` is UpdateTask
up to `SELECT … FOR UPDATE`, `UpdateTask` the rest; `AskToWatch`, `AddWatcher`
and `RemoveWatcher` read without a lock, as `SetWatcher` does.
`AssignReviewTasks` writes the assignee without looking at the watchers.
`RemoveMember` is the trigger and the foreign keys of migration 3.
`ClaimLINEDelivery`, `CompleteLINEDelivery`, `FailLINEDelivery` and `Crash` are a
worker that names a delivery by its id alone; `sending` carries the count of
attempts it read. *Left out*: titles, priorities and dates (one field of
details); milestones (one); digests and web modes.

### DocumentExports

One export of one of the three products. `document` has what an export looks at:
status, `updated`, revision of the review and whether it is overtaken, revision
of the approval and the review it approves. `QueueDocumentExport` freezes the
rows; `Claim`, `ReadPage`, `CompleteExport`, `FailJob` are the attempts, which
may overlap only in that an old one has read pages; `SignDownload` and
`Retrievable` the download, which looks at the snapshot again. *Left out*:
expiry of artifacts from the store, dates of the filter and the order they give
(any order is tried), columns that are data. The inventory's number of sources
and names of members are such columns: a page reads them when it is read, and no
snapshot vouches for them.

## The runs

| Run | Expect | Distinct states | Question |
|---|---|---|---|
| `durable_jobs` | pass | 124,981 | does the store keep its promises under any clients? |
| `export_worker` | pass | 240,547 | does the real protocol keep them, is the file there, does it end? |
| `inbound_queue` | pass | 126,024 | do unfenced reports do harm, and does every event settle? |
| `document_review` | pass | 4,768,068 | do revisions keep edits, confirmations and approvals honest? |
| `review_stuck` | violation | | does reloading the page help, as the message says? |
| `document_intake` | pass | 1,269,664 | are originals, quota, answers and privacy kept whatever interleaves? |
| `document_exports` | pass | 4,796,394 | is what can be downloaded the snapshot as it still is? |
| `organization` | pass | 2,466,186 | one owner, no change without authority, no harm by a late refusal? |
| `drive_reconnect` | violation | | can the owner connect again after a refusal? |
| `sign_in` | pass | 2,244,044 | is every session earned, and replaced once? |
| `unlink_race` | violation | | does the last identity stay? |
| `work` | pass | 1,154,934 | do events tell the history, and does nothing outlive a membership? |

**durable_jobs**. An export and an OCR job, two attempts each, leases of two
ticks, retry delays of one and two, stamps one tick old, six ticks. Two attempts
are a first and a last one, so each job meets takeover, retry, exhaustion and
late calls by its former attempt; two jobs suffice because only a claim touches
two. Six ticks hold two leases and a delay. Checked: `TypeOK`, `HolderIsLatest`,
`NeverStranded`, `OneResult`, `LegacyMirrors`, `NoStolenLease`, and `Lifecycles`
(refinement of `JobLifecycle` by each job).

**export_worker**. One export of two pages and two attempts, two workers, an
upload that may last as long as a lease (`MaxLag` = `Lease` = 2), one background
heartbeat for each attempt, twelve ticks. Checked: `ArtifactStored`,
`AttemptsApart`, `StoreRules`, and `EveryExportEnds`.
No reachable state of the run gets to the twelfth tick (the clock moves only
while a deadline lies ahead, attempts and heartbeats are bounded), so the
liveness result is not an artefact of that bound.
*Fairness*: weak for each worker's claim and for its steps (main's loop runs for
ever and the container is restarted; every call has a timeout, so no step waits
for ever), for the upload handlers (the server answers or drops a request) and
for the clock. Nothing is assumed of success: every step may go wrong every time.
`MaxBeats` stands for the fact that an attempt does not beat for ever: a worker
that hangs *and* heartbeats keeps its job, in the code as well.

**inbound_queue**. Two events, two workers, batches of two, a lease of one tick,
two retries with waits of one and two ticks. Checked: `BudgetAgrees`, `ProcessedWasHandled`, `LeaseExclusive` and `EventSettles`.
`DelayAssumption` (no retry wait is shorter than the lease) is what the code's
constants satisfy with nothing to spare, one minute each; `LeaseExclusive`
depends on it. *Fairness*: weak for the clock; strong for each worker's claim
and report, because crashes and database errors may disable them again and again
but not each time (the ticker of `cmd/worker` starts over each second).

**document_review**. Three runs of two model versions, three draft revisions,
two review revisions: a first reading, one of another version or a retry, and a
reprocessing, in any order; enough for a page of each run, a draft edited
between a confirmation's check and its commit, and an approval overtaken twice.
Checked: `ReviewTypeOK`, `OneCurrentRun`, `OneReadingPerVersion`,
`ConfirmedIsSaved`, `NothingWhileReprocessing`, `StaleStaysStale` and
`EditsNotLost`. No liveness is claimed (people act when they like), and deadlock
is not checked: at the bounds, or purged, a document rests.
`NothingWhileReprocessing` is as strong as the code allows: a run scheduled later
for a new model version overtakes a reprocessing that waits, and may be confirmed
and approved meanwhile.

**review_stuck**. Two runs, two drafts, one review; the property is the promise of
the message that a stale request is answered with.

**document_intake**. Three requests (two that race and a third that has been
answered), three users, an origin of each channel, one document per month and
two months: a limit of one makes every second document one too many, and a
request that began in the first month may commit in the second. Requests are
symmetric. Checked: `OriginalStored`, `NothingLeftBehind`, `QuotaHeld`,
`AnswersHold`, `GroupFilesPrivate`, `AttemptsAgree`, and `InboxKept` (refinement
of `Inbox`).

**document_exports**. Two documents and pages of one row, so that a document can
change between the pages, before the completion and after it; two attempts; four
changes of each document, enough to go away and come back (archive, trash,
restore) or to be reviewed, overtaken, reviewed again and approved. Documents
are symmetric. Checked: `NothingStaleSent`, `StaleForGood`.

**organization**. Three users, two requests between their statements, two
invitations, two claims, two authorizations and one call of Drive. Three users
are the actor of a request, its target and somebody who becomes owner in between;
two claims are two people who redeem one token. The constraint `OneBesideDrive`
bounds the product: two requests and any claims as long as no authorization has
begun, afterwards one request (roles still change by requests and transfers, and
people leave) and no claims; Drive only asks who has which role, so who joins
later adds nothing to it. u2 and u3, the invitations and the authorizations are
symmetric; u1 is the creator, and the constraint names the requests and claims.
Checked: `OneOwner`, `InvitationAdmitsOne`,
`AuthorityHeld`, `StaleRefusalHarmless`. **drive_reconnect** is the same instance
with `ReconnectAccepted`.

**sign_in**. Two users, two identities of two providers, three sessions, two
callbacks and one unlink or logout everywhere: two callbacks race for one
identity or one session, with an unlink of either. **unlink_race**: one user,
five sessions, one callback, two unlinks. Users, sessions, attempts and requests
are symmetric; identities are not, as they differ by their provider.

**work**. The owner and one member, two updates, two events, two workers, one
retry, and the delivery of the first event's notification to the member: two
updates that read the task before either writes, and a delivery tried by two
workers with the same count. With two events TLC reaches a task's first change of
status; that the history tells the later ones as well rests on the proof.
Checked: `HistoryTellsTask`, `RemovedIsGone`, `GivenUpForCause`.

None of these claims liveness: their steps are what people, Google or LINE do.
Deadlock is not checked where every id may be used up (`document_intake`,
`organization`, `sign_in`, `work`, `document_exports`, the violations).

Each property of a passing run has a mutant in `PROJECT.json`: a definition is
replaced by its *Defect* version and the property fails.

## The proofs

For every value of the constants that satisfies the named assumptions, however
many jobs, workers, events, runs or revisions.

**DurableJobsProofs** (`JobsAssumption`, `MaxAttemptsAssumption`,
`TimesAssumption`). The inductive invariant `IInv` is the conjunction of the
five invariants of the run and `Unstored` (a job that was never stored has no
attempts). They need each other: `OneResult` says that completing adds one only
because `HolderIsLatest` says that the caller who passes `HoldsLease` is attempt
`attemptCount[j]`, and because a running job has no result yet. One lemma for
each action. Theorems: `TypeCorrect`, `LatestHolds`, `NoneStranded`,
`ExactlyOnce`, `HistoryAgrees`; from the same invariant the action property
`LeaseRespected`, and the refinement: `LifecycleOfEveryJob` is the property of
the run, `Implements` states `Spec => Life(j)!Spec` for each job.

Its second part is about **ExportWorker** (`ProtocolAssumption` besides), for any
number of workers, pages and heartbeats. The refinement comes first:
`WorkersObeyStore` is `StoreRules`, that each step of a worker or of the upload
handler is a step of the store or none: a call names an attempt that has begun
(`InHand`), and a publication is stamped at most `MaxLag` ago (`UploadsTimely`;
the clock waits for an upload that is that old). So the store's
invariants hold with these clients (`WorkersKeepStore`), and each job's life
(`WorkersKeepLife`). `PInv` adds `Protocol` to `IInv`: what an attempt in hand
knows (`InHand`); an attempt is uploaded once, and before that nothing of it is
under way or stored (`OneUpload`, `Unsent`); an upload under way is not published,
and its object is there once it is stored (`UploadsOpen`). That is why a deletion
harms no artifact: only a handler deletes, its own attempt's object, and no other
upload or artifact has that attempt. The exception is a COMMIT that succeeds and
is reported as failed, and `ArtifactsStay` assumes `~CommitMayBeLost`. Other
theorems: `ExportTypeCorrect`, `AttemptsStayApart`.

**InboundQueueProofs** (`InboundAssumption`, `DelayAssumption`).
`SeenInBudget`: the counts that workers carry lie within the retries; with it
`BudgetAgrees` survives a `Fail` of any age. `Shield`: while the lease a worker
got with its batch still runs, each event of the batch is kept from other claims
at least as long, by the row's lease, by the wait an overdue report has set, or
because it has ended. The second case is where `DelayAssumption` is used.
Theorems: `InboundTypeCorrect`, `BudgetHolds`, `ProcessedMeansHandled`,
`LeasesExclude`.

**DocumentReviewProofs** (`ReviewBounds`). All seven properties of the run.
The invariant adds four parts to them. `EarlierEnded`: of the readings of one
fingerprint all but the last have failed or been cancelled, which is why it is
enough that `RetryOCR` looks at the last. `RevisionsGrow`: no page or review has
seen a higher draft revision than the present one, until the document is purged
and nothing writes a draft again. `PageFaithful`: an open page that names the
present revision shows its content, and a request to confirm carries what the
page shows. `Overtaken`: while a reprocessing is on its way, requests in flight
and the review are of a later run, or of an older draft, and then the commit is
refused. `Onward` collects what no step undoes; `StaleStaysStale` follows from it.
Theorems: `ReviewTypeCorrect`, `CurrentRunUnique`, `ReadingUnique`,
`ConfirmedValuesAreSaved`, `NoApprovalWhileReprocessing`, `NoEditLost`,
`StaleForGood`.

**SignInProofs** (`SignInAssumption`, `NoneIsNothing`). `SessionsEarned` and
`OneSuccessor` with five more parts. `AttemptsKnow`: what an attempt has read
stays true until its next statement, because an owned identity never changes
hands and a session's row keeps its user. `RequestsHold`: an unlink's session is
live and no other transaction's. `ReplacedAreDead`: a session that was replaced
does not live, which is why the next one to replace it must fail. Steps are
lemmas about attempts, requests and sessions (`SessionsMove`: one session begins
and the others at most fade). Theorems: `SignInTypeCorrect`, `SessionsAreEarned`,
`ReplacedOnce`.

**OrganizationProofs** (`MembershipAssumption`, `DriveAssumption`). About
`DriveConnection`, and so about both modules together. `AdmittedByAccepted` makes
`InvitationAdmitsOne` inductive; `RequestsNamed`, `LocksHold`, `AcceptancesHold`
and `InvitersStay` carry `AuthorityHeld`: a row that a removal has locked has the
role that was read under the owner's policy, an invitation in redemption is open,
vouched for and in one acceptance only, and who has invited stays a member;
`CallsKnow` says that a call of the present
generation has the present token and that a refusal it carries is Google's; the
generation counts the authorizations that were saved, by which it stays within
its bound. Theorems: `OrganizationTypeCorrect`, `AlwaysOneOwner`, `AdmitsOne`,
`AuthorityIsHeld`, `OldRefusalsAreHarmless`.

**IntakeProofs** (`IntakeAssumption`, `NoneIsNothing`). All properties of the
run, and the types. `PlanStands`: what a request read in its transaction is so
until it commits (the source it repeats, the document it attaches to, the charges
still below the limit), because only the holder of the advisory lock writes those
and a move to the trash changes neither bytes nor charges. `ObjectAndDocument`
says by the step of a request whether its object is in the store and whether it
made a document; an object is deleted only at steps where it made none or does
not know (`unknown`). `AnswerStands` and `SourcesLead` keep answers true after
later requests, `CreatorSent` is what privacy rests on. `RequestStep` and
`WriteStep` carry the two kinds of step. Theorems: `IntakeTypeCorrect`,
`OriginalsStay`, `NoneLeftBehind`, `QuotaAlwaysHeld`, `AnswersAlwaysHold`,
`GroupFilesStayPrivate`, `InboxAgrees`.

`ImplementsInbox` is the refinement, with three parts more (`BoxInv`): a request
on its way carries what its origin can be sent and by whom, and a safe file from
its examination on (`Sent`); no bytes have two documents (`OnePerContent`), so
that the document of given bytes is a function of them; and those bytes are some
file's. `ShelfWritten` and `ShelfMoved` say what a write and an owner's order do
to the shelf and the charges, `HeldWritten` what the write does to the origins,
and one lemma each shows the step of `Inbox` they are. A new document finds room
because `PlanStands` kept what was counted under the lock; a rejection finds the
origin free because it is inserted only where nothing is.

**DocumentExportsProofs** (`ExportsAssumption`). Both properties, for any page
size. Rows are not locked while pages are read, and nothing remembers which rows
a page left out; the count of lines does. `NoneSkipped`: the first n ordinals
found after a cursor reach at least n beyond it, and exactly n only if they are
the next n. So a file never has more lines than its cursor (`FilesFaithful`), and
if it has as many as there are rows, line i is that of row i. `RowsFollowed`: no
document is behind the row frozen of it; with `DocumentsGoOn` (a change of status
is a new `updated`, a review or an approval is not undone but by the next one) a
row that holds has always held, which is `StaleForGood`. Theorems:
`ExportsTypeCorrect`, `NeverStale`, `RefusedForGood`.

**WorkProofs** (`WorkAssumption`, `NobodyIsNone`). All three properties.
`RemovedIsGone` and `GivenUpForCause`, with `AllAsked` (a request carries a value its form can set)
and `CountsBehind`: the count of attempts that a worker read is at most behind
the row's, unless the row went with its member, and then no notice can bring it
back. `HistoryTellsTask` rests on `Serial`: a request that holds the row's lock
has read the row as it is, and no two hold it. So the events a commit appends
are computed from the values it replaces, and the last event of a field says what
the field is. Theorems: `WorkTypeCorrect`, `RemovedStaysGone`, `NoneGivenUpEarly`,
`HistoryIsTrue`.

Every strengthened invariant was checked by TLC on the run's instance before it
was proved.

*Only model-checked*: the liveness properties `EveryExportEnds` and
`EventSettles` (liveness under fairness and ENABLED are beyond the prover) and the
three violations, which are counterexamples. Every safety property of a run that
passes, invariant, action property or refinement, is a theorem. Types of modules
whose run does not list them (`IntakeTypeOK`, `OrgTypeOK`, …) are proved only.

## Where code and documents disagree

Three disagreements have a run that ends in a counterexample; the quotations are
in `PROJECT.json`.

1. **A review that no reload can unlock** (`extraction_routes.go:86`, run
   `review_stuck`). When a run of a new model version completes over a document
   that has a draft, the page hides that draft and shows revision 0, which every
   save, confirmation, return and reprocessing then refuses.
2. **The owner cannot connect Drive again** (`drive.go:76`, run
   `drive_reconnect`). After Google has refused a token, a task asks for a new
   authorization. Storing one sets that task to Done without `completed_at` and
   `completed_by_user_id`, which a CHECK of `tasks` requires: the transaction is
   rolled back until somebody completes the task by hand.
3. **The last identity can be unlinked** (`auth.go:234`, run `unlink_race`). The
   identities that are counted are not locked. A login that had found the first
   identity inserts its session after the unlink of it has begun to revoke the
   user's sessions, and with that session the second identity is unlinked.

The model shows these too, and no property claims otherwise:

- An ambiguous COMMIT deletes a published artifact (`job_routes.go:247`, and the
  uploads of OCR results and of confirmed reviews alike): with
  `CommitMayBeLost = TRUE` in `export_worker.cfg`, TLC finds `ArtifactStored`
  violated.
- An export's result may be accepted after its lease has run out
  (`job_routes.go:238`; `docs/phase-5-spec.md:73` asks for an unexpired one): the
  clock is read before the body. No second result can come of it (`OneResult`).
- A processed event is put back in the queue by the late failure of an earlier
  attempt (`store.go:184`). It is handled again and found by its origin key:
  `AnswersHold` of `DocumentIntake`.
- A failed reprocessing cannot be retried (`ocr.go:134`, against
  `docs/phase-6-decisions.md:77`): `RetryOCR` finds the completed first reading.
- A delivery to LINE ends with its sixth failed attempt (`work_worker.go`, and
  `docs/phase-2-spec.md:197`), a crash not being counted; one whose recipient has
  unlinked LINE is claimed for ever and never returned to the worker.
- `RemoveMembership` selects the target FOR UPDATE, which row level security lets
  only the owner do: an administrator's removal of a member fails
  (`tenant.go:248`). The lock is on the target alone: an owner who hands ownership
  over before the DELETE still removes a Member as an Admin; if the target is an
  Admin, the policy hides it, nothing is deleted, and the removal is recorded and
  answered as done (`tenant.go:258`). An invitation may admit somebody though its
  inviter was demoted after `accept_member_invitation` had looked (`000002:325`).
  A reminder blocks the removal of its recipient, because the
  policies hide the row from the trigger that would delete it.
- A review assignment leaves the new assignee among the watchers
  (`review_assign.go`), and editing a Done task writes its completion time again
  (`work.go`).

## What is not modelled

Ciphers, scanners and network clients, the signatures of tokens, plan tables,
set-up programs, the Python shell and the rendering of the web application have
no state of their own worth a module. Business contacts, their imports and the
profile are single transactions whose conflicts are the unique indexes of the
contacts, behind a good deal of parsing. Digests, web notification modes and read
marks are left out of `Work`; organization names, LINE groups and link codes out
of `Membership`; the review queue, which only reads, and the assignments it makes
are `AssignReviewTasks` of `Work`. Row contents of an export, field values and
their validation, wording and audit details are abstracted everywhere. Nothing in
the repository purges a document: `Purge` of `DocumentReview` stands for the
trigger that waits for it. Clocks of the database and of the API server are taken
as one in `DurableJobs`, and runs are numbered in creation order although
`created_at` comes from both.

## The plan

Done: the job store and its abstract specification, the export protocol, the
inbound queue, the review, the intake and its abstract specification, memberships
and Drive, sign-in, tasks and deliveries, document exports; proofs of every safety
property of these.
Next:

1. Proofs: the job of a run in `DocumentReview` as a life of `JobLifecycle`, which
   needs the attempts that the review leaves out; an abstract specification of
   sign-in (an account and its live sessions) for `SignIn` to implement.
2. Digests: what the daily digest marks as digested against what it sent.
3. Imports of business contacts, whose preview is committed in a later request.
